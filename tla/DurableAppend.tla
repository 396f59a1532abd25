---------------------------- MODULE DurableAppend ----------------------------
(***************************************************************************)
(* What a caller of GroupCommitWriter::Submit is promised, with no queue,  *)
(* no batches, no file and no flush thread: a request is answered at most  *)
(* once, and Ok is answered only when a restart would honour the record.   *)
(***************************************************************************)
CONSTANT Reqs

VARIABLES
  answer,    \* what the future of each request holds
  durable    \* requests a restart would honour

vars == <<answer, durable>>

Init ==
  /\ answer = [r \in Reqs |-> "none"]
  /\ durable = {}

\* Submit: the request is queued, or refused because the writer is shut down.
Accept(r) ==
  /\ answer[r] = "none"
  /\ answer' = [answer EXCEPT ![r] = "waiting"]
  /\ UNCHANGED durable

Refuse(r) ==
  /\ answer[r] = "none"
  /\ answer' = [answer EXCEPT ![r] = "error"]
  /\ UNCHANGED durable

\* Records reach stable storage, several at a time.  Those of a batch already
\* answered with an error may still get there.
Persist(S) ==
  /\ \A r \in S : answer[r] # "none"
  /\ durable' = durable \cup S
  /\ UNCHANGED answer

AnswerOk(r) ==
  /\ answer[r] = "waiting"
  /\ r \in durable
  /\ answer' = [answer EXCEPT ![r] = "ok"]
  /\ UNCHANGED durable

AnswerError(S) ==
  /\ \A r \in S : answer[r] = "waiting"
  /\ answer' = [r \in Reqs |-> IF r \in S THEN "error" ELSE answer[r]]
  /\ UNCHANGED durable

\* The process dies: nobody waits any more, and records may have survived.
Restart(S) ==
  /\ \A r \in S : answer[r] # "none"
  /\ durable' = durable \cup S
  /\ answer' = [r \in Reqs |-> IF answer[r] = "waiting" THEN "error" ELSE answer[r]]

Next ==
  \/ \E r \in Reqs : Accept(r) \/ Refuse(r) \/ AnswerOk(r)
  \/ \E S \in SUBSET Reqs : Persist(S) \/ AnswerError(S) \/ Restart(S)

Spec == Init /\ [][Next]_vars
=============================================================================
