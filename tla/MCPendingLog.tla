---------------------------- MODULE MCPendingLog ----------------------------
(***************************************************************************)
(* Two transactions: one is begun and committed, with one retry of the     *)
(* COMMITTED append; the other is begun and committed without a retry.     *)
(***************************************************************************)
EXTENDS PendingLog

CONSTANTS p1, c1, c1retry, p2, c2, t1, t2

MCReqs == {p1, c1, c1retry, p2, c2}
MCTerminal == {c1, c1retry, c2}
MCTxn == [r \in MCReqs |-> IF r \in {p1, c1, c1retry} THEN t1 ELSE t2]
=============================================================================
