------------------------------ MODULE Reranker ------------------------------
(***************************************************************************)
(* The cross encoder's batches: every query thread scores its passages one *)
(* by one on a small pool, gives up on a task after a while, and counts    *)
(* the outcomes in a circuit breaker made of three atomics that all        *)
(* threads write without a lock.  Sources: src/reranker/onnx_reranker.cpp  *)
(* (ScoreBatch), circuit_breaker.cpp,                                      *)
(* include/cortrix/reranker/reranker_thread_pool.h.                        *)
(*                                                                         *)
(* Each access to an atomic is a step.  The clock is kept as far as the    *)
(* breaker reads it: a trip is cooling, then cooled.  A batch is followed  *)
(* by the next one of its thread.                                          *)
(***************************************************************************)
EXTENDS Integers, Sequences

CONSTANTS
    Caller,      \* query threads
    Scorer,      \* workers of the RerankerThreadPool
    Threshold,   \* consecutive failures that open the breaker
    PoolCap,     \* capacity of the pool's queue
    Batch,       \* caller -> its passages, each "normal" or "long"
    Faults       \* how many tasks fail, and how many are given up on

VARIABLES
    state,     \* CircuitBreaker::state_
    failures,  \* failure_count_
    since,     \* open_since_ms_: none (-1), cooling or cooled
    call,      \* what each thread is doing in ScoreBatch
    tasks,     \* RerankerThreadPool::queue_
    work,      \* the task each worker runs
    faults,    \* how many faults may still happen
    raced      \* a success cleared the time of a trip it did not undo

rvars == <<state, failures, since, call, tasks, work, faults, raced>>

Truth(c, i) == <<c, i>>
Zero == <<"zero", 0>>
Failed == <<"failed", 0>>
Pending == <<"pending", 0>>

(* result is what the future of the awaited task holds. *)
Batches == [pc |-> "gate", i |-> 1, scores |-> <<>>, result |-> Pending]

Put(c, rec) == call' = [call EXCEPT ![c] = rec]
Pc(c, l) == call[c].pc = l
GoTo(c, l) == Put(c, [call[c] EXCEPT !.pc = l])

Spent(k) == faults[k] > 0 /\ faults' = [faults EXCEPT ![k] = @ - 1]

(* All scores are zero: the caller falls back to the retrieval order. *)
Denied(c) == [call[c] EXCEPT !.pc = "done", !.scores = [i \in DOMAIN Batch[c] |-> Zero]]
-----------------------------------------------------------------------------
(* AllowRequest *)

LoadState(c) ==
    /\ Pc(c, "gate")
    /\ GoTo(c, IF state = "open" THEN "opened" ELSE "passage")
    /\ UNCHANGED <<state, failures, since, tasks, work, faults, raced>>

LoadOpenSince(c) ==
    /\ Pc(c, "opened")
    /\ IF since = "cooled" THEN GoTo(c, "probe") ELSE Put(c, Denied(c))
    /\ UNCHANGED <<state, failures, since, tasks, work, faults, raced>>

(* The compare-and-swap; the thread that loses it looks again. *)
Probe(c) ==
    /\ \/ /\ Pc(c, "probe") /\ state = "open" /\ state' = "half_open" /\ GoTo(c, "passage")
       \/ /\ Pc(c, "probe") /\ state # "open" /\ GoTo(c, "lost") /\ UNCHANGED state
       \/ /\ Pc(c, "lost") /\ UNCHANGED state
          /\ IF state = "open" THEN Put(c, Denied(c)) ELSE GoTo(c, "passage")
    /\ UNCHANGED <<failures, since, tasks, work, faults, raced>>
-----------------------------------------------------------------------------
(* The loop over the passages *)

Scored(rec, score) == [rec EXCEPT !.scores = Append(@, score), !.i = @ + 1]

(* The next passage: too long ones get zero without a task. *)
Passage(c) ==
    /\ Pc(c, "passage")
    /\ LET i == call[c].i
       IN \/ /\ i > Len(Batch[c])
             /\ GoTo(c, "done") /\ UNCHANGED tasks
          \/ /\ i <= Len(Batch[c]) /\ Batch[c][i] = "long"
             /\ Put(c, Scored(call[c], Zero)) /\ UNCHANGED tasks
          \/ /\ i <= Len(Batch[c]) /\ Batch[c][i] = "normal" /\ Len(tasks) < PoolCap
             /\ tasks' = Append(tasks, [by |-> c, i |-> i, awaited |-> TRUE])
             /\ GoTo(c, "wait")
    /\ UNCHANGED <<state, failures, since, work, faults, raced>>

(* The future of c's task is dropped; the task stays where it is. *)
Abandon(c, t) == IF t.by = c THEN [t EXCEPT !.awaited = FALSE] ELSE t

(* The future is ready, or the wait is over and the task abandoned. *)
Wait(c) ==
    /\ Pc(c, "wait")
    /\ \/ /\ call[c].result # Pending
          /\ LET failed == call[c].result = Failed
             IN Put(c, [Scored(call[c], IF failed THEN Zero ELSE call[c].result) EXCEPT
                           !.pc = IF failed THEN "failure" ELSE "success", !.result = Pending])
          /\ UNCHANGED <<tasks, work, faults>>
       \/ /\ call[c].result = Pending /\ Spent("late")
          /\ Put(c, [Scored(call[c], Zero) EXCEPT !.pc = "failure"])
          /\ tasks' = [n \in DOMAIN tasks |-> Abandon(c, tasks[n])]
          /\ work' = [w \in Scorer |-> [n \in DOMAIN work[w] |-> Abandon(c, work[w][n])]]
    /\ UNCHANGED <<state, failures, since, raced>>

(* The batch is returned; the thread's next query scores again. *)
NextBatch(c) ==
    /\ Pc(c, "done")
    /\ Put(c, Batches)
    /\ UNCHANGED <<state, failures, since, tasks, work, faults, raced>>
-----------------------------------------------------------------------------
(* The pool *)

Take1(w) ==
    /\ work[w] = <<>> /\ tasks # <<>>
    /\ work' = [work EXCEPT ![w] = <<Head(tasks)>>]
    /\ tasks' = Tail(tasks)
    /\ UNCHANGED <<state, failures, since, call, faults, raced>>

(* Mutant: the task writes into its caller's frame, whoever waits there. *)
FulfilByReference(t, result) ==
    IF Pc(t.by, "wait")
    THEN Put(t.by, [call[t.by] EXCEPT !.result = result]) ELSE UNCHANGED call

(* The result goes into the task's own future; an abandoned one is dropped. *)
Fulfil(t, result) ==
    IF t.awaited
    THEN Put(t.by, [call[t.by] EXCEPT !.result = result]) ELSE UNCHANGED call

RunTask(w) ==
    /\ work[w] # <<>>
    /\ LET t == work[w][1]
       IN \/ Fulfil(t, Truth(t.by, t.i)) /\ UNCHANGED faults
          \/ Fulfil(t, Failed) /\ Spent("fail")
    /\ work' = [work EXCEPT ![w] = <<>>]
    /\ UNCHANGED <<state, failures, since, tasks, raced>>
-----------------------------------------------------------------------------
(* RecordSuccess: three stores *)

RecordSuccess(c) ==
    /\ \/ /\ Pc(c, "success") /\ state' = "closed" /\ GoTo(c, "success_count")
          /\ UNCHANGED <<failures, since, raced>>
       \/ /\ Pc(c, "success_count") /\ failures' = 0 /\ GoTo(c, "success_since")
          /\ UNCHANGED <<state, since, raced>>
       \/ /\ Pc(c, "success_since") /\ since' = "none" /\ GoTo(c, "passage")
          /\ raced' = (raced \/ state = "open" \/ \E d \in Caller : Pc(d, "trip_state"))
          /\ UNCHANGED <<state, failures>>
    /\ UNCHANGED <<tasks, work, faults>>

(* RecordFailure: a load, an increment when closed, and the trip. *)
RecordFailure(c) ==
    /\ \/ /\ Pc(c, "failure")
          /\ GoTo(c, CASE state = "half_open" -> "trip" [] state = "open" -> "passage"
                       [] OTHER -> "failure_count")
          /\ UNCHANGED failures
       \/ /\ Pc(c, "failure_count")
          /\ failures' = failures + 1
          /\ GoTo(c, IF failures + 1 >= Threshold THEN "trip" ELSE "passage")
    /\ UNCHANGED <<state, since, tasks, work, faults, raced>>

(* Mutant: the time of the trip is not written. *)
TripOpenUntimed(c) ==
    /\ \/ /\ Pc(c, "trip") /\ GoTo(c, "trip_state") /\ UNCHANGED <<state, since>>
       \/ /\ Pc(c, "trip_state") /\ state' = "open" /\ GoTo(c, "passage")
          /\ UNCHANGED since
    /\ UNCHANGED <<failures, tasks, work, faults, raced>>

TripOpen(c) ==
    /\ \/ /\ Pc(c, "trip") /\ since' = "cooling" /\ GoTo(c, "trip_state")
          /\ UNCHANGED state
       \/ /\ Pc(c, "trip_state") /\ state' = "open" /\ GoTo(c, "passage")
          /\ UNCHANGED since
    /\ UNCHANGED <<failures, tasks, work, faults, raced>>

(* The cooldown passes. *)
Cool ==
    /\ since = "cooling" /\ since' = "cooled"
    /\ UNCHANGED <<state, failures, call, tasks, work, faults, raced>>
-----------------------------------------------------------------------------
RInit ==
    /\ state = "closed" /\ failures = 0 /\ since = "none"
    /\ call = [c \in Caller |-> Batches]
    /\ tasks = <<>>
    /\ work = [w \in Scorer |-> <<>>]
    /\ faults = Faults
    /\ raced = FALSE

ScoreBatch(c) == \/ LoadState(c) \/ LoadOpenSince(c) \/ Probe(c) \/ Passage(c) \/ Wait(c)
                 \/ NextBatch(c) \/ RecordSuccess(c) \/ RecordFailure(c) \/ TripOpen(c)

RNext ==
    \/ \E c \in Caller : ScoreBatch(c)
    \/ \E w \in Scorer : Take1(w) \/ RunTask(w)
    \/ Cool

(* Threads and workers run, queries keep coming, time passes. *)
RFairness ==
    /\ \A c \in Caller : WF_rvars(ScoreBatch(c))
    /\ \A w \in Scorer : WF_rvars(Take1(w) \/ RunTask(w))
    /\ WF_rvars(Cool)
-----------------------------------------------------------------------------
(* A passage's score is its own or zero: an abandoned task that finishes   *)
(* later never reaches another passage or another batch (ScoreBatch, by    *)
(* value).                                                                 *)
ScoresTrueOrZero ==
    \A c \in Caller : \A i \in DOMAIN call[c].scores : call[c].scores[i] \in {Zero, Truth(c, i)}

(* Once tasks stop failing the breaker closes for good, unless a success   *)
(* cleared the time of a trip it raced with: then it may stay open for     *)
(* ever (RecordSuccess, TripOpen).                                         *)
Recovers == <>[](state = "closed" \/ raced)
=============================================================================
