----------------------------- MODULE PendingLog -----------------------------
(***************************************************************************)
(* The pending write log: GroupCommitWriter (src/store/                    *)
(* group_commit_writer.cpp) batching the appends of many threads over the  *)
(* file of PendingLogWriter (src/store/pending_log_writer.cpp), with the   *)
(* inline compaction that runs between a batch's write and its sync.       *)
(*                                                                         *)
(* A request is one record handed to Submit.  Its bytes are abstracted to  *)
(* the transaction it belongs to and to whether it is a PENDING record or  *)
(* a terminal one (COMMITTED or ROLLBACK).  The file is abstracted to the  *)
(* sets of requests that ScanRecords returns: a torn record hides all that *)
(* follows it, so while the file is torn nothing appended is readable.     *)
(***************************************************************************)
EXTENDS Naturals, Sequences

CONSTANTS
  Reqs,             \* records that callers may append
  Txn,              \* Txn[r]: the transaction of record r
  Terminal,         \* the records that are COMMITTED or ROLLBACK
  MaxBatch,         \* max_batch_
  MaxFaults,        \* bound: failing pwrite, failing fdatasync, throwing flush
  MaxTorn,          \* bound: pwrite failures that leave part of a record
  MaxReopenFaults,  \* bound: failing open() at the end of Compact
  MaxCrashes        \* bound: process deaths

\* BeginWrite draws a fresh id and appends one PENDING record for it.
ASSUME ReqsAssumption ==
  /\ Terminal \subseteq Reqs
  /\ \A p, q \in Reqs \ Terminal : Txn[p] = Txn[q] => p = q
ASSUME BoundsAssumption ==
  /\ MaxBatch \in Nat \ {0}
  /\ MaxFaults \in Nat /\ MaxTorn \in Nat
  /\ MaxReopenFaults \in Nat /\ MaxCrashes \in Nat

VARIABLES
  answer,    \* the future of each request: "none", "waiting", "ok", "error"
  queue,     \* queue_: accepted, not yet taken
  batch,     \* the batch FlushBatch works on
  phase,     \* flush thread: "wait", "write", "sync", "resolve", "exited"
  st,        \* status of the batch: "ok" or "error"
  shutdown,  \* shutdown_
  fd,        \* records ScanRecords finds in the file behind fd_
  disk,      \* records it would find at path_ after a power loss
  torn,      \* a partial record ends the readable part of fd_
  linked,    \* path_ still names the inode behind fd_
  settled,   \* history: records a compaction dropped as finalized
  faults     \* how many of each kind of fault have happened

queueVars == <<queue, batch, phase, st, shutdown>>
fileVars == <<fd, disk, torn, linked, settled>>
vars == <<answer, queueVars, fileVars, faults>>

Kinds == {"io", "torn", "reopen", "crash"}
NoFaults == [k \in Kinds |-> 0]

Elems(s) == {s[i] : i \in 1..Len(s)}

Init ==
  /\ answer = [r \in Reqs |-> "none"]
  /\ queue = <<>> /\ batch = <<>>
  /\ phase = "wait" /\ st = "ok" /\ shutdown = FALSE
  /\ fd = {} /\ disk = {} /\ torn = FALSE /\ linked = TRUE
  /\ settled = {}
  /\ faults = NoFaults

----------------------------------------------------------------------------
(* Callers                                                                 *)

\* A terminal record is appended only after its PENDING record was
\* acknowledged, and once more only after the previous attempt failed.
MaySubmit(r) ==
  r \in Terminal =>
    /\ \E p \in Reqs \ Terminal : Txn[p] = Txn[r] /\ answer[p] = "ok"
    /\ \A q \in Terminal : Txn[q] = Txn[r] => answer[q] \in {"none", "error"}

Submit(r) ==
  /\ answer[r] = "none"
  /\ MaySubmit(r)
  /\ ~shutdown
  /\ answer' = [answer EXCEPT ![r] = "waiting"]
  /\ queue' = Append(queue, r)
  /\ UNCHANGED <<batch, phase, st, shutdown, fileVars, faults>>

SubmitRefused(r) ==
  /\ answer[r] = "none"
  /\ MaySubmit(r)
  /\ shutdown
  /\ answer' = [answer EXCEPT ![r] = "error"]
  /\ UNCHANGED <<queueVars, fileVars, faults>>

Shutdown ==
  /\ ~shutdown
  /\ shutdown' = TRUE
  /\ UNCHANGED <<answer, queue, batch, phase, st, fileVars, faults>>

----------------------------------------------------------------------------
(* The flush thread                                                        *)

\* FlushLoop takes at most max_batch_ entries from the front of the queue.
\* The coalescing wait only delays this step.
TakeBatch ==
  /\ phase = "wait"
  /\ queue # <<>>
  /\ LET take == IF Len(queue) < MaxBatch THEN Len(queue) ELSE MaxBatch
     IN /\ batch' = SubSeq(queue, 1, take)
        /\ queue' = SubSeq(queue, take + 1, Len(queue))
  /\ phase' = "write"
  /\ UNCHANGED <<answer, st, shutdown, fileVars, faults>>

\* Variant: the flush thread leaves as soon as it is asked to stop.
ExitUndrained ==
  /\ phase = "wait"
  /\ shutdown
  /\ phase' = "exited"
  /\ UNCHANGED <<answer, queue, batch, st, shutdown, fileVars, faults>>

Exit ==
  /\ phase = "wait"
  /\ queue = <<>>
  /\ shutdown
  /\ phase' = "exited"
  /\ UNCHANGED <<answer, queue, batch, st, shutdown, fileVars, faults>>

\* WriteBatch appends at the end of the file, past any garbage left there.
Written(S) == IF torn THEN fd ELSE fd \cup S

WriteBatch ==
  /\ phase = "write"
  /\ fd' = Written(Elems(batch))
  /\ phase' = "sync"
  /\ UNCHANGED <<answer, queue, batch, st, shutdown, disk, torn, linked, settled, faults>>

\* The pwrite of record n + 1 of the batch fails: the records before it are in
\* the file and Sync is not called.
WriteBatchFails(n) ==
  /\ phase = "write"
  /\ n < Len(batch)
  /\ faults["io"] < MaxFaults
  /\ faults' = [faults EXCEPT !["io"] = @ + 1]
  /\ fd' = Written({batch[i] : i \in 1..n})
  /\ st' = "error"
  /\ phase' = "resolve"
  /\ UNCHANGED <<answer, queue, batch, shutdown, disk, torn, linked, settled>>

\* It fails after storing a part of the record, which stays in the file.
WriteBatchTears(n) ==
  /\ phase = "write"
  /\ n < Len(batch)
  /\ faults["torn"] < MaxTorn
  /\ faults' = [faults EXCEPT !["torn"] = @ + 1]
  /\ fd' = Written({batch[i] : i \in 1..n})
  /\ torn' = TRUE
  /\ st' = "error"
  /\ phase' = "resolve"
  /\ UNCHANGED <<answer, queue, batch, shutdown, disk, linked, settled>>

\* Variant: the batch is acknowledged after its write, without the sync.
SyncSkipped ==
  /\ phase = "sync"
  /\ st' = "ok"
  /\ phase' = "resolve"
  /\ UNCHANGED <<answer, queue, batch, shutdown, fileVars, faults>>

\* Sync flushes the inode behind fd_.
Sync ==
  /\ phase = "sync"
  /\ disk' = IF linked THEN fd ELSE disk
  /\ st' = "ok"
  /\ phase' = "resolve"
  /\ UNCHANGED <<answer, queue, batch, shutdown, fd, torn, linked, settled, faults>>

SyncFails ==
  /\ phase = "sync"
  /\ faults["io"] < MaxFaults
  /\ faults' = [faults EXCEPT !["io"] = @ + 1]
  /\ st' = "error"
  /\ phase' = "resolve"
  /\ UNCHANGED <<answer, queue, batch, shutdown, fileVars>>

\* One round of FlushBatch's loop over the waiters.
ResolveOne ==
  /\ phase = "resolve"
  /\ answer' = [answer EXCEPT ![Head(batch)] = st]
  /\ batch' = Tail(batch)
  /\ phase' = IF Len(batch) = 1 THEN "wait" ELSE "resolve"
  /\ UNCHANGED <<queue, st, shutdown, fileVars, faults>>

\* Variant: the exception handler drops the batch without answering it.
WaitersDropped ==
  /\ phase = "resolve"
  /\ faults["io"] < MaxFaults
  /\ faults' = [faults EXCEPT !["io"] = @ + 1]
  /\ batch' = <<>>
  /\ phase' = "wait"
  /\ UNCHANGED <<answer, queue, st, shutdown, fileVars>>

\* Variant: the exception handler overwrites answers already given.
WaitersOverwritten ==
  /\ phase = "resolve"
  /\ faults["io"] < MaxFaults
  /\ faults' = [faults EXCEPT !["io"] = @ + 1]
  /\ answer' = [r \in Reqs |-> IF r \in Elems(batch) \cup fd THEN "error" ELSE answer[r]]
  /\ batch' = <<>>
  /\ phase' = "wait"
  /\ UNCHANGED <<queue, st, shutdown, fileVars>>

\* Variant: a failed flush ends the flush thread.
FlushThreadDies ==
  /\ phase = "resolve"
  /\ faults["io"] < MaxFaults
  /\ faults' = [faults EXCEPT !["io"] = @ + 1]
  /\ answer' = [r \in Reqs |-> IF r \in Elems(batch) THEN "error" ELSE answer[r]]
  /\ batch' = <<>>
  /\ phase' = "dead"
  /\ UNCHANGED <<queue, st, shutdown, fileVars>>

\* An exception inside that loop: FlushLoop catches it and answers every
\* waiter that has no answer yet with an error.
ResolvePendingWaiters ==
  /\ phase = "resolve"
  /\ faults["io"] < MaxFaults
  /\ faults' = [faults EXCEPT !["io"] = @ + 1]
  /\ answer' = [r \in Reqs |-> IF r \in Elems(batch) THEN "error" ELSE answer[r]]
  /\ batch' = <<>>
  /\ phase' = "wait"
  /\ UNCHANGED <<queue, st, shutdown, fileVars>>

----------------------------------------------------------------------------
(* Compaction and restart                                                  *)

Finalized(S) == {Txn[q] : q \in S \cap Terminal}

\* Variant: the filter drops terminal records but keeps every PENDING one.
LiveKeepsFinalized(S) == S \ Terminal

\* What Compact keeps: PENDING records of transactions with no terminal record.
Live(S) == {r \in S \ Terminal : Txn[r] \notin Finalized(S)}

\* Compact, under file_mu_: the readable records of fd_ that are still live are
\* written to a temporary file, synced and renamed over path_, and fd_ is
\* reopened on it.
Compact ==
  /\ disk' = Live(fd)
  /\ fd' = Live(fd)
  /\ settled' = settled \cup (fd \ Live(fd))
  /\ torn' = FALSE
  /\ linked' = TRUE
  /\ UNCHANGED <<answer, queueVars, faults>>

\* The reopen fails after the rename: fd_ stays on the unlinked inode.
CompactReopenFails ==
  /\ faults["reopen"] < MaxReopenFaults
  /\ faults' = [faults EXCEPT !["reopen"] = @ + 1]
  /\ disk' = Live(fd)
  /\ settled' = settled \cup (fd \ Live(fd))
  /\ linked' = FALSE
  /\ UNCHANGED <<answer, queueVars, fd, torn>>

\* What a restart may find: all that was synced, and any of the rest that the
\* kernel had written back by itself.
CrashImages ==
  {disk \cup S : S \in SUBSET (IF linked THEN fd \ disk ELSE {})}

\* The process dies and starts again: Open, then ReadAll truncates the file
\* after its last readable record.
Restart ==
  /\ faults["crash"] < MaxCrashes
  /\ faults' = [faults EXCEPT !["crash"] = @ + 1]
  /\ \E img \in CrashImages : disk' = img /\ fd' = img
  /\ torn' = FALSE /\ linked' = TRUE
  /\ answer' = [r \in Reqs |-> IF answer[r] = "waiting" THEN "error" ELSE answer[r]]
  /\ queue' = <<>> /\ batch' = <<>>
  /\ phase' = "wait" /\ st' = "ok" /\ shutdown' = FALSE
  /\ UNCHANGED settled

----------------------------------------------------------------------------
FlushThread ==
  \/ TakeBatch
  \/ Exit
  \/ WriteBatch
  \/ \E n \in 0..MaxBatch - 1 : WriteBatchFails(n) \/ WriteBatchTears(n)
  \/ Sync
  \/ SyncFails
  \/ ResolveOne
  \/ ResolvePendingWaiters

Next ==
  \/ \E r \in Reqs : Submit(r) \/ SubmitRefused(r)
  \/ Shutdown
  \/ FlushThread
  \/ Compact
  \/ CompactReopenFails
  \/ Restart

Spec == Init /\ [][Next]_vars

\* The flush thread is a running thread and blocks only in the wait for an
\* entry or for shutdown: whenever it can take a step, it eventually does.
FairSpec == Spec /\ WF_vars(FlushThread)

----------------------------------------------------------------------------
(* Properties                                                              *)

Answers == {"none", "waiting", "ok", "error"}
Phases == {"wait", "write", "sync", "resolve", "exited"}

QueueOK ==
  /\ answer \in [Reqs -> Answers]
  /\ queue \in Seq(Reqs)
  /\ batch \in Seq(Reqs)
  /\ Len(batch) <= MaxBatch
  /\ phase \in Phases
  /\ (batch = <<>>) <=> (phase \in {"wait", "exited"})
  /\ st \in {"ok", "error"}
  /\ shutdown \in BOOLEAN
FileOK ==
  /\ torn \in BOOLEAN /\ linked \in BOOLEAN
  /\ fd \subseteq Reqs /\ disk \subseteq Reqs /\ settled \subseteq Reqs
FaultsOK == faults \in [Kinds -> Nat]

\* Every variable has its type, a batch never exceeds max_batch_, and the flush
\* thread holds a batch exactly while it is flushing one (FlushLoop).
TypeOK == QueueOK /\ FileOK /\ FaultsOK

\* A file image honours an acknowledged PENDING record when it holds it, unless
\* its writer has moved on to finalize the transaction, and an acknowledged
\* terminal record when the transaction does not come back as unfinished.
Honours(img, r) ==
  IF r \in Terminal
  THEN \A p \in img \ Terminal : Txn[p] = Txn[r] => Txn[r] \in Finalized(img)
  ELSE r \in img \/ \E q \in Terminal : Txn[q] = Txn[r] /\ answer[q] # "none"

\* FlushBatch: "A future only observes Ok after Sync() returned Ok, so an Ok
\* future == crash-safe".  Whenever the process dies, and whatever Compact did
\* between the write of a batch and its sync, every record answered Ok is
\* honoured by the file the restart reads.
OkIsRecoverable ==
  \A img \in CrashImages : \A r \in Reqs : answer[r] = "ok" => Honours(img, r)

\* Shutdown: "all outstanding futures are resolved before it returns".  When the
\* flush thread has exited, no caller is left waiting.
ExitedMeansAllAnswered ==
  phase = "exited" => \A r \in Reqs : answer[r] # "waiting"

\* No entry is queued or batched twice, and exactly those are waiting.
Distinct(s) == \A i, j \in 1..Len(s) : s[i] = s[j] => i = j

QueueInv ==
  /\ Distinct(queue) /\ Distinct(batch)
  /\ Elems(queue) \cap Elems(batch) = {}
  /\ \A r \in Reqs : answer[r] = "waiting" <=> r \in Elems(queue) \cup Elems(batch)
  /\ phase = "exited" => queue = <<>> /\ shutdown

\* Where the records of a batch are at each phase of its flush, and why a
\* compacted transaction cannot come back.
LogInv ==
  /\ ~torn /\ linked
  /\ disk \subseteq fd
  /\ \A r \in fd \cup settled : answer[r] # "none"
  /\ phase = "sync" => Elems(batch) \subseteq fd \cup settled
  /\ phase = "resolve" /\ st = "ok" => Elems(batch) \subseteq disk \cup settled
  /\ \A r \in Reqs : answer[r] = "ok" => r \in disk \cup settled
  /\ \A q \in Terminal : answer[q] # "none" =>
       \E p \in Reqs \ Terminal : Txn[p] = Txn[q] /\ answer[p] = "ok"
  /\ \A r \in settled : Txn[r] \in Finalized(settled)
  /\ \A p \in fd \ Terminal : Txn[p] \notin Finalized(settled)

\* The file stands in the abstract specification for the records a restart
\* would honour; the queue, the batch and the flush thread are hidden.
Promise == INSTANCE DurableAppend WITH durable <- disk \cup settled

\* GroupCommitWriter over the pending log implements the caller's view of
\* Submit: one answer per future, and Ok only for a durable record.
ImplementsDurableAppend == Promise!Spec

\* FlushLoop, FlushBatch and ResolvePendingWaiters leave no Submit future
\* hanging: whoever waits is answered, also when the sink fails or throws.  And
\* Shutdown, which joins the flush thread, returns: the thread drains the queue
\* and exits, unless the process dies first.
WriterProgress ==
  /\ \A r \in Reqs : (answer[r] = "waiting") ~> (answer[r] \in {"ok", "error"})
  /\ shutdown ~> (phase = "exited" \/ ~shutdown)
=============================================================================
