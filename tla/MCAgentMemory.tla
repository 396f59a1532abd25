---------------------------- MODULE MCAgentMemory ----------------------------
(***************************************************************************)
(* The memory service on small workloads.  Each exercises one mixture of   *)
(* turns waiting for extraction, requests and faults.                      *)
(***************************************************************************)
EXTENDS AgentMemory, TLC

CONSTANTS s1, s2

Fact(t) == [kind |-> "fact", text |-> t]
Pref(t) == [kind |-> "preference", text |-> t]
Event(t) == [kind |-> "event", text |-> t]

Open(n) == [live |-> TRUE, out |-> FALSE, count |-> n, rows |-> 2 * n]
Turn(s) == [sess |-> s, remember |-> TRUE, attempt |-> 0]
Budget(f) == f @@ [k \in Kind |-> 0]

(* Two extractions at once, with a memory that contradicts another. *)
Contradicting ==
    [session |-> [s \in Session |-> IF s = s1 THEN Open(1) ELSE NoRow],
     queue |-> <<Turn(s1), Turn(s1)>>,
     blocks |-> <<Block("fact", "f"), Block("preference", "p")>>,
     replies |-> {<<Pref("p"), Fact("g")>>},
     said |-> {}, remember |-> TRUE, ops |-> {}, budget |-> Budget(<<>>)]

(* An extraction while two requests edit, delete or restore what it read. *)
Correcting ==
    [Contradicting EXCEPT
         !.queue = <<Turn(s1)>>,
         !.said = {Event("e")},
         !.ops = {"edit", "delete", "revoke"},
         !.budget = Budget("ask" :> 2)]

(* One extraction with statements that fail, its retry, and a crash. *)
Failing ==
    [Correcting EXCEPT
         !.replies = {<<>>, <<Pref("p"), Fact("g")>>, <<Pref("q")>>},
         !.ops = {"create", "delete", "edit", "revoke"},
         !.budget = Budget("ask" :> 1 @@ "acquire" :> 1 @@ "read" :> 1
                            @@ "insert" :> 1 @@ "update" :> 1 @@ "crash" :> 1)]

(* Requests of two clients on two sessions, with a turn to extract. *)
Sessions ==
    [Contradicting EXCEPT
         !.queue = <<Turn(s1)>>,
         !.blocks = <<>>,
         !.replies = {<<Event("e")>>},
         !.ops = {"create_session", "delete_session", "write", "optout", "optback"},
         !.budget = Budget("ask" :> 3 @@ "busy" :> 1)]

(* Turns that ask to be forgotten, a full queue, and a stop. *)
Forgetting ==
    [Sessions EXCEPT
         !.remember = FALSE,
         !.ops = {"write", "optout", "extract"},
         !.budget = Budget("ask" :> 2 @@ "read" :> 1 @@ "stop" :> 1)]

Workloads == {Contradicting, Correcting, Failing, Sessions, Forgetting}
=============================================================================
