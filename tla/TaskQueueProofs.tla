--------------------------- MODULE TaskQueueProofs ---------------------------
(***************************************************************************)
(* The promises of the ingest queue, for any submissions, workers and      *)
(* workloads.                                                              *)
(***************************************************************************)
EXTENDS TaskQueue, TLAPS

(* A row carries the content of one submission, which was told that row;   *)
(* so no two rows share an input.                                          *)
Rows ==
    \A t \in Subs :
        /\ status[t] = "none" => content[t] = None
        /\ status[t] # "none" => /\ content[t] \in Subs /\ told[content[t]] = t
                                 /\ told[t] = t

(* A submission is told its task only when Enqueue has decided. *)
Untold ==
    \A s \in Subs : sub[s] \in {"idle", "input", "found", "error"}
        => told[s] = None

(* The input of a submission in progress exists. *)
Arrived ==
    \A s \in Subs : sub[s] \in {"input", "found", "error"} => s \in files

(* The flag is down while a cancel would still change the row. *)
Flags ==
    \A t \in Subs : status[t] \in {"none", "queued", "processing"}
        => ~cancel_requested[t]

(* What Enqueue hands back belonged to the task it merged into, and is not *)
(* that task's input any more.                                             *)
Enqueuing ==
    /\ candidate # None => status[candidate] # "none"
    /\ \A s \in Subs : sub[s] = "handback" =>
          /\ unadopted \in Subs /\ candidate \in Subs
          /\ told[unadopted] = candidate /\ content[candidate] # unadopted

(* A worker's copy of its row is still right, and its document reserved. *)
Working ==
    \A w \in Workers :
        /\ pc[w] # "idle" =>
              /\ task[w] \in Subs /\ status[task[w]] # "none"
              /\ input[w] = content[task[w]]
              /\ config.doc[task[w]] \in active_docs
        /\ Busy(w) => status[task[w]] # "queued"
        /\ pc[w] = "release" => status[task[w]] \in Terminal \cup {"gone"}
        /\ pc[w] = "cancelled" => cancel_requested[task[w]]

(* The reservation separates workers from their dequeue on. *)
Apart ==
    \A v, w \in Workers :
        v # w /\ pc[v] # "idle" /\ pc[w] # "idle"
            => config.doc[task[v]] # config.doc[task[w]]

(* A row cancelled while queued was never taken by a worker. *)
Unstarted ==
    \A t \in handback : /\ status[t] \in {"cancelled", "gone"}
                        /\ \A w \in Workers : Busy(w) => task[w] # t

(* Without sweeps, throws, failed persists and crashes every file has      *)
(* somebody who will remove it.                                            *)
Owned(f) ==
    \/ sub[f] \in {"input", "found", "error"}
    \/ \E t \in Subs : status[t] \in Live /\ content[t] = f
    \/ \E t \in handback : content[t] = f
    \/ \E s \in Subs : sub[s] = "handback" /\ unadopted = f
    \/ \E w \in Workers : pc[w] = "release" /\ input[w] = f

Calm == Undisturbed({"sweep", "throw", "persist", "crash"})

Tended == Calm => \A f \in files : Owned(f)

(* Without throws, failed persists and crashes a processing row has its    *)
(* worker, so the sweep for abandoned rows finds none.                     *)
Steady == Undisturbed({"throw", "persist", "crash"})

Staffed ==
    Steady => \A t \in Subs : status[t] = "processing" =>
                 \E w \in Workers : Busy(w) /\ pc[w] # "done" /\ task[w] = t

QueueInv == /\ Rows /\ Untold /\ Arrived /\ Flags /\ Enqueuing /\ Working
            /\ Apart /\ Unstarted /\ InputPresent /\ Tended /\ Staffed

----------------------------------------------------------------------------
(* The type invariant, action by action. *)
LEMMA ConfigFacts ==
  ASSUME config \in Configs
  PROVE  /\ None \notin Subs /\ None \notin Workers /\ Subs \cap Workers = {}
         /\ \A t \in Subs : config.doc[t] \in Docs
         /\ config.max \in [Kinds -> Nat]
  BY Zenon, ConfigAssumption DEF Docs

LEMMA DisturbType ==
  ASSUME faults \in [Kinds -> Nat], NEW k \in Kinds, Disturb(k)
  PROVE  /\ faults' \in [Kinds -> Nat]
         /\ \A j \in Kinds : faults'[j] = IF j = k THEN faults[j] + 1 ELSE faults[j]
  BY DEF Disturb

LEMMA SubmissionType ==
  ASSUME TypeOK, NEW s \in Subs
  PROVE  \/ Materialize(s) \/ FindRecentTaskByDocId(s) \/ TryClaimDebounceMerge(s)
         \/ UpdateTaskForDebounce(s) \/ ReleaseUnadoptedInput(s) \/ CreateTask(s)
         \/ InputReleaser(s) \/ CreateTaskFails(s) \/ RequestCancel(s)
         \/ CancelTaskReleases(s) \/ SweepZombies(s) \/ SweepTimedOut(s)
         \/ DeleteExpired(s)
         => TypeOK'
  <1> USE ConfigFacts DEF TypeOK, rowVars, schedVars, subVars, workerVars, dataVars, Docs, Statuses, Live,
              Terminal
  <1>1. ASSUME Materialize(s) PROVE TypeOK'
    BY <1>1 DEF Materialize
  <1>2. ASSUME FindRecentTaskByDocId(s) PROVE TypeOK'
    BY <1>2 DEF FindRecentTaskByDocId, Recent, Newest, Eligible
  <1>3. ASSUME TryClaimDebounceMerge(s) PROVE TypeOK'
    BY <1>3 DEF TryClaimDebounceMerge, Claimable, SameContent, Accept
  <1>4. ASSUME UpdateTaskForDebounce(s) PROVE TypeOK'
    BY <1>4 DEF UpdateTaskForDebounce, Refreshable, Accept
  <1>5. ASSUME ReleaseUnadoptedInput(s) PROVE TypeOK'
    BY <1>5 DEF ReleaseUnadoptedInput, Release
  <1>6. ASSUME CreateTask(s) PROVE TypeOK'
    BY <1>6 DEF CreateTask, NeedsRow, Accept
  <1>7. ASSUME InputReleaser(s) PROVE TypeOK'
    BY <1>7 DEF InputReleaser, Release
  <1>8. ASSUME CreateTaskFails(s) PROVE TypeOK'
    <2>1. faults' \in [Kinds -> Nat]
      <3>1. Disturb("enqueue") /\ "enqueue" \in Kinds
        BY Zenon, <1>8 DEF CreateTaskFails, Kinds
      <3> QED BY Zenon, <3>1, DisturbType
    <2> QED BY <1>8, <2>1 DEF CreateTaskFails, NeedsRow
  <1>9. ASSUME RequestCancel(s) PROVE TypeOK'
    <2>1. faults' \in [Kinds -> Nat]
      <3>1. Disturb("cancel") /\ "cancel" \in Kinds
        BY Zenon, <1>9 DEF RequestCancel, Kinds
      <3> QED BY Zenon, <3>1, DisturbType
    <2>2. status' \in [Subs -> Statuses]
      BY Zenon, <1>9 DEF RequestCancel
    <2> QED BY <1>9, <2>1, <2>2 DEF RequestCancel
  <1>10. ASSUME CancelTaskReleases(s) PROVE TypeOK'
    BY <1>10 DEF CancelTaskReleases, Release
  <1>11. ASSUME SweepZombies(s) PROVE TypeOK'
    BY <1>11 DEF SweepZombies, Fail, Held
  <1>12. ASSUME SweepTimedOut(s) PROVE TypeOK'
    <2>1. faults' \in [Kinds -> Nat]
      <3>1. Disturb("sweep") /\ "sweep" \in Kinds
        BY Zenon, <1>12 DEF SweepTimedOut, Kinds
      <3> QED BY Zenon, <3>1, DisturbType
    <2> QED BY <1>12, <2>1 DEF SweepTimedOut, Fail
  <1>13. ASSUME DeleteExpired(s) PROVE TypeOK'
    <2>1. faults' \in [Kinds -> Nat]
      <3>1. Disturb("expire") /\ "expire" \in Kinds
        BY Zenon, <1>13 DEF DeleteExpired, Kinds
      <3> QED BY Zenon, <3>1, DisturbType
    <2> QED BY <1>13, <2>1 DEF DeleteExpired
  <1> QED BY Zenon, <1>1, <1>2, <1>3, <1>4, <1>5, <1>6, <1>7, <1>8, <1>9, <1>10, <1>11, <1>12, <1>13

LEMMA WorkerType ==
  ASSUME TypeOK, NEW w \in Workers
  PROVE  \/ SelectOldestQueuedTask(w) \/ MarkProcessing(w) \/ MarkProcessingConflicts(w)
         \/ CancelObserved(w) \/ ParseFails(w) \/ ParseDocument(w)
         \/ ProcessParsedDoc(w) \/ ProcessParsedDocFails(w) \/ Finalize(w)
         \/ ReleaseManagedInput(w) \/ OnTaskCompleted(w) \/ HandlerThrows(w)
         \/ PersistFails(w)
         => TypeOK'
  <1> USE ConfigFacts DEF TypeOK, rowVars, schedVars, subVars, workerVars, dataVars, Docs, Statuses, Live,
              Terminal
  <1>1. ASSUME SelectOldestQueuedTask(w) PROVE TypeOK'
    BY <1>1 DEF SelectOldestQueuedTask, Move, Oldest, Queued
  <1>2. ASSUME MarkProcessing(w) PROVE TypeOK'
    <2>1. status' \in [Subs -> Statuses]
      BY Zenon, <1>2 DEF MarkProcessing
    <2> QED BY <1>2, <2>1 DEF MarkProcessing, Move
  <1>3. ASSUME MarkProcessingConflicts(w) PROVE TypeOK'
    BY <1>3 DEF MarkProcessingConflicts, Move
  <1>4. ASSUME CancelObserved(w) PROVE TypeOK'
    BY <1>4 DEF CancelObserved, Move, IsCancelRequested
  <1>5. ASSUME ParseFails(w) PROVE TypeOK'
    BY <1>5 DEF ParseFails, Move
  <1>6. ASSUME ParseDocument(w) PROVE TypeOK'
    BY <1>6 DEF ParseDocument, Move
  <1>7. ASSUME ProcessParsedDoc(w) PROVE TypeOK'
    <2>1. stored' \in [Subs -> SUBSET Subs]
      <3> DEFINE g == stored[input[w]] \cup {task[w]}
                 T == SUBSET Subs
      <3>1. stored' = [stored EXCEPT ![input[w]] = g] /\ task[w] \in Subs
        BY Zenon, <1>7 DEF ProcessParsedDoc, Move
      <3>2. (input[w] \in Subs => g \in T) /\ stored \in [Subs -> T]
        BY Zenon, <3>1
      <3> HIDE DEF g, T, TypeOK
      <3>3. stored' \in [Subs -> T]
        BY Zenon, <3>1, <3>2
      <3> QED BY Zenon, <3>3 DEF T
    <2>2. current' \in [Docs -> Subs \cup {None}]
      BY Zenon, <1>7 DEF ProcessParsedDoc
    <2> QED BY <1>7, <2>1, <2>2 DEF ProcessParsedDoc, Move
  <1>8. ASSUME ProcessParsedDocFails(w) PROVE TypeOK'
    BY <1>8 DEF ProcessParsedDocFails, Move
  <1>9. ASSUME Finalize(w) PROVE TypeOK'
    <2>1. status' \in [Subs -> Statuses]
      BY Zenon, <1>9 DEF Finalize
    <2>2. pc' = [pc EXCEPT ![w] = "release"] \/ pc' = [pc EXCEPT ![w] = "done"]
      BY Zenon, <1>9 DEF Finalize
    <2>3. pc[w] # "idle" /\ pc[w] # "selected"
      BY Zenon, <1>9 DEF Finalize
    <2>4. UNCHANGED <<config, content, cancel_requested, order, recent, schedVars, subVars, task,
                      input, handback, files, dataVars, faults>>
      BY Zenon, <1>9 DEF Finalize
    <2>5. \A v \in Workers : v # w => pc'[v] = pc[v]
      BY <2>2
    <2>6. pc' \in [Workers -> {"idle", "selected", "running", "parsed", "release", "done"} \cup Terminal]
      BY Zenon, <2>2
    <2>7. task[w] \in Subs /\ pc'[w] # "selected"
      BY Zenon, <2>2, <2>3
    <2> QED BY <2>1, <2>4, <2>5, <2>6, <2>7
  <1>10. ASSUME ReleaseManagedInput(w) PROVE TypeOK'
    BY <1>10 DEF ReleaseManagedInput, Move, Release
  <1>11. ASSUME OnTaskCompleted(w) PROVE TypeOK'
    BY <1>11 DEF OnTaskCompleted, Move
  <1>12. ASSUME HandlerThrows(w) PROVE TypeOK'
    <2>1. faults' \in [Kinds -> Nat]
      <3>1. Disturb("throw") /\ "throw" \in Kinds
        BY Zenon, <1>12 DEF HandlerThrows, Kinds
      <3> QED BY Zenon, <3>1, DisturbType
    <2> QED BY <1>12, <2>1 DEF HandlerThrows
  <1>13. ASSUME PersistFails(w) PROVE TypeOK'
    <2>1. faults' \in [Kinds -> Nat]
      <3>1. Disturb("persist") /\ "persist" \in Kinds
        BY Zenon, <1>13 DEF PersistFails, Kinds
      <3> QED BY Zenon, <3>1, DisturbType
    <2> QED BY <1>13, <2>1 DEF PersistFails
  <1> QED BY Zenon, <1>1, <1>2, <1>3, <1>4, <1>5, <1>6, <1>7, <1>8, <1>9, <1>10, <1>11, <1>12, <1>13

LEMMA CrashType == TypeOK /\ CrashRestart => TypeOK'
  <1> SUFFICES ASSUME TypeOK, CrashRestart PROVE TypeOK'
    BY Zenon
  <1>1. faults' \in [Kinds -> Nat]
    <2>1. Disturb("crash") /\ "crash" \in Kinds
      BY Zenon DEF CrashRestart, Kinds
    <2> QED BY Zenon, <2>1, DisturbType DEF TypeOK
  <1>2. status' \in [Subs -> Statuses]
    BY Zenon DEF CrashRestart, TypeOK, Requeue, Statuses, Live
  <1>3. sub' \in [Subs -> {"idle", "input", "found", "handback", "error", "answered", "refused"}]
        /\ \A s \in Subs : sub'[s] \notin {"found", "handback"}
    BY Zenon DEF CrashRestart, TypeOK
  <1>4. /\ pc' = [w \in Workers |-> "idle"] /\ task' = [w \in Workers |-> None]
        /\ input' = [w \in Workers |-> None]
    BY Zenon DEF CrashRestart
  <1>5. files' \subseteq Subs /\ recent' \subseteq Subs
    BY Zenon DEF CrashRestart, TypeOK
  <1> QED BY <1>1, <1>2, <1>3, <1>4, <1>5
          DEF CrashRestart, TypeOK, Docs, dataVars

LEMMA TypeStep == TypeOK /\ [Next]_vars => TypeOK'
  <1>1. TypeOK /\ UNCHANGED vars => TypeOK'
    BY DEF TypeOK, vars, rowVars, schedVars, subVars, workerVars, dataVars, Docs
  <1> QED BY Zenon, <1>1, SubmissionType, WorkerType, CrashType DEF Next, Submitter, Process
-----------------------------------------------------------------------------
(* Rows and inputs correspond one to one, and a submission that was told   *)
(* nothing has no row and is nobody's input.                               *)
LEMMA RowFacts ==
  ASSUME TypeOK, QueueInv
  PROVE  /\ None \notin Subs /\ None \notin Workers /\ \A t \in Subs : t \notin Workers
         /\ \A t \in Subs : content[t] \in Subs => status[t] # "none" /\ told[content[t]] = t
         /\ \A t, u \in Subs : content[t] \in Subs /\ content[t] = content[u] => t = u
         /\ \A s \in Subs : told[s] = None =>
                /\ status[s] = "none" /\ content[s] = None
                /\ \A t \in Subs : content[t] # s
  <1>1. None \notin Subs /\ None \notin Workers /\ \A t \in Subs : t \notin Workers
    BY Zenon, ConfigAssumption
  <1>2. \A t \in Subs : content[t] \in Subs => status[t] # "none" /\ told[content[t]] = t
    BY Zenon, <1>1 DEF QueueInv, Rows
  <1>3. \A t, u \in Subs : content[t] \in Subs /\ content[t] = content[u] => t = u
    BY Zenon, <1>2
  <1>4. ASSUME NEW s \in Subs, told[s] = None
        PROVE  /\ status[s] = "none" /\ content[s] = None
               /\ \A t \in Subs : content[t] # s
    <2>1. \A t \in Subs : content[t] # s
      BY Zenon, <1>1, <1>2, <1>4
    <2>2. status[s] = "none"
      BY Zenon, <1>1, <1>4 DEF QueueInv, Rows
    <2> QED BY Zenon, <2>1, <2>2 DEF QueueInv, Rows
  <1> QED BY Zenon, <1>1, <1>2, <1>3, <1>4

(* What a worker holds. *)
LEMMA Holder ==
  ASSUME TypeOK, QueueInv, NEW w \in Workers, pc[w] # "idle"
  PROVE  /\ task[w] \in Subs /\ status[task[w]] # "none"
         /\ input[w] = content[task[w]] /\ input[w] \in Subs /\ told[input[w]] = task[w]
         /\ config.doc[task[w]] \in active_docs
         /\ status[task[w]] = "queued" => mutex = w
  <1>1. /\ task[w] \in Subs /\ status[task[w]] # "none" /\ input[w] = content[task[w]]
        /\ config.doc[task[w]] \in active_docs
    BY Zenon DEF QueueInv, Working
  <1>2. input[w] \in Subs /\ told[input[w]] = task[w]
    BY Zenon, <1>1 DEF QueueInv, Rows
  <1>3. status[task[w]] = "queued" => pc[w] = "selected"
    BY Zenon DEF QueueInv, Working, Busy
  <1>4. pc[w] = "selected" => mutex = w
    BY Zenon DEF TypeOK
  <1> QED BY Zenon, <1>1, <1>2, <1>3, <1>4

(* What row t says, and nothing else. *)
LEMMA RowOf ==
  ASSUME QueueInv, NEW t \in Subs
  PROVE  \/ status[t] = "none" /\ content[t] = None
         \/ /\ status[t] # "none" /\ content[t] \in Subs /\ told[content[t]] = t
            /\ told[t] = t
  BY Zenon DEF QueueInv, Rows

(* One thread at a time is between the statements of an Enqueue. *)
LEMMA OneEnqueues ==
  ASSUME TypeOK, QueueInv, NEW s \in Subs, sub[s] \in {"found", "handback"}
  PROVE  /\ mutex = s
         /\ \A x \in Subs : sub[x] \in {"found", "handback"} => x = s
  BY Zenon DEF TypeOK

(* Undisturbed steps. *)
LEMMA Undisturbing ==
  ASSUME UNCHANGED faults
  PROVE  (Calm' => Calm) /\ (Steady' => Steady)
  BY Zenon DEF Calm, Steady, Undisturbed

(* A disturbance of kind k. *)
LEMMA Disturbing ==
  ASSUME TypeOK, NEW k \in Kinds, Disturb(k)
  PROVE  /\ (Calm' => Calm) /\ (Steady' => Steady)
         /\ k \in {"sweep", "throw", "persist", "crash"} => ~Calm'
         /\ k \in {"throw", "persist", "crash"} => ~Steady'
  <1>1. \A j \in Kinds : faults[j] \in Nat /\ faults'[j] = IF j = k THEN faults[j] + 1 ELSE faults[j]
    BY DisturbType DEF TypeOK
  <1>2. \A j \in Kinds : faults'[j] = 0 => faults[j] = 0 /\ j # k
    BY <1>1
  <1>3. {"sweep", "throw", "persist", "crash"} \subseteq Kinds
    BY Zenon DEF Kinds
  <1> QED BY Zenon, <1>2, <1>3 DEF Calm, Steady, Undisturbed

(* What no statement on the rows and no worker touches. *)
LEMMA RowsKept ==
  ASSUME Rows, UNCHANGED <<status, content, told>>
  PROVE  Rows'
  BY Zenon DEF Rows

LEMMA WorkKept ==
  ASSUME QueueInv, Steady' => Steady,
         UNCHANGED <<config, status, content, cancel_requested, active_docs, pc, task, input, handback>>
  PROVE  Flags' /\ Working' /\ Apart' /\ Unstarted' /\ Staffed'
  <1>1. Flags' /\ Apart'
    BY Zenon DEF QueueInv, Flags, Apart
  <1>2. Working'
    BY Zenon DEF QueueInv, Working, Busy
  <1>3. Unstarted'
    BY Zenon DEF QueueInv, Unstarted, Busy
  <1>4. Staffed'
    BY Zenon DEF QueueInv, Staffed, Busy
  <1> QED BY Zenon, <1>1, <1>2, <1>3, <1>4

(* Whoever had to remove file f still has to. *)
LEMMA OwnedKept ==
  ASSUME TypeOK, NEW f, Owned(f),
         sub[f] \in {"input", "found", "error"} => sub'[f] \in {"input", "found", "error"},
         \A t \in Subs : content[t] = f /\ (status[t] \in Live \/ t \in handback)
                           => content'[t] = f /\ (status'[t] \in Live \/ t \in handback'),
         \A x \in Subs : sub[x] = "handback" /\ unadopted = f => sub'[x] = "handback" /\ unadopted' = f,
         \A w \in Workers : pc[w] = "release" /\ input[w] = f => pc'[w] = "release" /\ input'[w] = f
  PROVE  Owned(f)'
  <1>1. \A t \in handback : t \in Subs
    BY Zenon DEF TypeOK
  <1>2. CASE sub[f] \in {"input", "found", "error"}
    BY Zenon, <1>2 DEF Owned
  <1>3. ASSUME NEW t \in Subs, content[t] = f, status[t] \in Live \/ t \in handback PROVE Owned(f)'
    BY Zenon, <1>3 DEF Owned
  <1>4. ASSUME NEW x \in Subs, sub[x] = "handback", unadopted = f PROVE Owned(f)'
    BY Zenon, <1>4 DEF Owned
  <1>5. ASSUME NEW w \in Workers, pc[w] = "release", input[w] = f PROVE Owned(f)'
    BY Zenon, <1>5 DEF Owned
  <1> QED BY Zenon, <1>1, <1>2, <1>3, <1>4, <1>5 DEF Owned
-----------------------------------------------------------------------------
(* Submissions *)

LEMMA MaterializeInv ==
  ASSUME TypeOK, QueueInv, NEW s \in Subs, Materialize(s)
  PROVE  QueueInv'
  <1>1. /\ sub[s] = "idle" /\ files' = files \cup {s}
        /\ sub'[s] = "input" /\ \A t \in Subs : t # s => sub'[t] = sub[t]
        /\ UNCHANGED <<config, status, content, cancel_requested, told, active_docs, candidate,
                       unadopted, pc, task, input, handback, faults>>
    BY Zenon DEF Materialize, TypeOK, rowVars, schedVars, workerVars
  <1>2. (Calm' => Calm) /\ (Steady' => Steady)
    BY Zenon, <1>1, Undisturbing
  <1>3. Rows' /\ Flags' /\ Working' /\ Apart' /\ Unstarted' /\ Staffed'
    BY Zenon, <1>1, <1>2, RowsKept, WorkKept DEF QueueInv
  <1>4. (Untold /\ Arrived)'
    BY Zenon, <1>1 DEF QueueInv, Untold, Arrived
  <1>5. Enqueuing'
    BY Zenon, <1>1 DEF QueueInv, Enqueuing
  <1>6. InputPresent'
    BY Zenon, <1>1 DEF QueueInv, InputPresent
  <1>7. Tended'
    <2> SUFFICES ASSUME Calm', NEW f \in files' PROVE Owned(f)'
      BY Zenon DEF Tended
    <2>1. CASE f = s
      BY Zenon, <1>1, <2>1 DEF Owned
    <2>2. CASE f # s
      <3>1. Owned(f) /\ f \in Subs
        BY Zenon, <1>1, <1>2, <2>2 DEF QueueInv, Tended, TypeOK
      <3> QED BY Zenon, <1>1, <2>2, <3>1 DEF Owned
    <2> QED BY Zenon, <2>1, <2>2
  <1> QED BY Zenon, <1>3, <1>4, <1>5, <1>6, <1>7 DEF QueueInv

LEMMA FindRecentInv ==
  ASSUME TypeOK, QueueInv, NEW s \in Subs, FindRecentTaskByDocId(s)
  PROVE  QueueInv'
  <1>1. /\ sub[s] = "input" /\ mutex = None /\ candidate' \in Recent(config.doc[s])
        /\ sub'[s] = "found" /\ \A t \in Subs : t # s => sub'[t] = sub[t]
        /\ UNCHANGED <<config, status, content, cancel_requested, told, active_docs,
                       unadopted, pc, task, input, handback, files, faults>>
    BY Zenon DEF FindRecentTaskByDocId, TypeOK, rowVars, workerVars, dataVars
  <1>2. (Calm' => Calm) /\ (Steady' => Steady)
    BY Zenon, <1>1, Undisturbing
  <1>3. \A t \in Subs : sub[t] # "handback" /\ sub'[t] # "handback"
    <2>1. \A t \in Subs : sub[t] # "handback"
      BY Zenon, <1>1, RowFacts, OneEnqueues
    <2> QED BY Zenon, <1>1, <2>1
  <1>4. candidate' # None => status[candidate'] # "none"
    BY Zenon, <1>1 DEF Recent, Newest, Eligible
  <1>5. Rows' /\ Flags' /\ Working' /\ Apart' /\ Unstarted' /\ Staffed'
    BY Zenon, <1>1, <1>2, RowsKept, WorkKept DEF QueueInv
  <1>6. (Untold /\ Arrived /\ InputPresent)'
    BY Zenon, <1>1 DEF QueueInv, Untold, Arrived, InputPresent
  <1>7. Enqueuing'
    BY Zenon, <1>1, <1>3, <1>4 DEF Enqueuing
  <1>8. Tended'
    <2> SUFFICES ASSUME Calm', NEW f \in files' PROVE Owned(f)'
      BY Zenon DEF Tended
    <2>1. Owned(f) /\ f \in Subs
      BY Zenon, <1>1, <1>2 DEF QueueInv, Tended, TypeOK
    <2> QED BY Zenon, <1>1, <1>3, <2>1 DEF Owned
  <1> QED BY Zenon, <1>5, <1>6, <1>7, <1>8 DEF QueueInv

LEMMA ClaimInv ==
  ASSUME TypeOK, QueueInv, NEW s \in Subs, TryClaimDebounceMerge(s)
  PROVE  QueueInv'
  <1>0. candidate \in Subs
    BY Zenon DEF TryClaimDebounceMerge, Claimable, SameContent, TypeOK
  <1>1. /\ sub[s] = "found" /\ unadopted' = s
        /\ sub'[s] = "handback" /\ \A t \in Subs : t # s => sub'[t] = sub[t]
        /\ told'[s] = candidate /\ \A t \in Subs : t # s => told'[t] = told[t]
        /\ UNCHANGED <<config, status, content, cancel_requested, active_docs, candidate,
                       pc, task, input, handback, files, faults>>
    BY Zenon DEF TryClaimDebounceMerge, Accept, TypeOK, rowVars, workerVars
  <1>2. (Calm' => Calm) /\ (Steady' => Steady)
    BY Zenon, <1>1, Undisturbing
  <1>3. told[s] = None /\ status[s] = "none" /\ \A t \in Subs : content[t] # s
    BY Zenon, <1>1, RowFacts DEF QueueInv, Untold
  <1>4. \A t \in Subs : t # s => sub[t] # "handback" /\ sub'[t] # "handback"
    BY Zenon, <1>1, OneEnqueues
  <1>5. Flags' /\ Working' /\ Apart' /\ Unstarted' /\ InputPresent' /\ Staffed'
    BY Zenon, <1>1, <1>2, WorkKept DEF QueueInv, InputPresent
  <1>6. Rows'
    BY Zenon, <1>1, <1>3 DEF QueueInv, Rows
  <1>7. (Untold /\ Arrived)'
    BY Zenon, <1>1 DEF QueueInv, Untold, Arrived
  <1>8. Enqueuing'
    BY Zenon, <1>0, <1>1, <1>3, <1>4 DEF QueueInv, Enqueuing
  <1>9. Tended'
    <2> SUFFICES ASSUME Calm', NEW f \in files' PROVE Owned(f)'
      BY Zenon DEF Tended
    <2>1. Owned(f) /\ f \in Subs
      BY Zenon, <1>1, <1>2 DEF QueueInv, Tended, TypeOK
    <2>2. CASE f = s
      BY Zenon, <1>1, <2>2 DEF Owned
    <2>3. CASE f # s
      BY Zenon, <1>1, <1>4, <2>1, <2>3 DEF Owned
    <2> QED BY Zenon, <2>2, <2>3
  <1> QED BY Zenon, <1>5, <1>6, <1>7, <1>8, <1>9 DEF QueueInv

(* The refreshed row is queued, so no worker has copied it yet but one     *)
(* that holds the mutex this Enqueue holds.                                *)
LEMMA RefreshInv ==
  ASSUME TypeOK, QueueInv, NEW s \in Subs, UpdateTaskForDebounce(s)
  PROVE  QueueInv'
  <1>0. candidate \in Subs /\ status[candidate] = "queued" /\ sub[s] = "found" /\ mutex = s
    BY Zenon DEF UpdateTaskForDebounce, Refreshable, TypeOK
  <1> DEFINE old == content[candidate]
  <1>1. /\ unadopted' = old
        /\ sub'[s] = "handback" /\ \A t \in Subs : t # s => sub'[t] = sub[t]
        /\ told'[s] = candidate /\ \A t \in Subs : t # s => told'[t] = told[t]
        /\ UNCHANGED <<config, status, active_docs, candidate, pc, task, input, handback, files, faults>>
    BY Zenon DEF UpdateTaskForDebounce, Accept, TypeOK, workerVars
  <1>2. /\ content'[candidate] = s /\ \A t \in Subs : t # candidate => content'[t] = content[t]
        /\ ~cancel_requested'[candidate]
        /\ \A t \in Subs : t # candidate => cancel_requested'[t] = cancel_requested[t]
    BY Zenon, <1>0 DEF UpdateTaskForDebounce, TypeOK
  <1>3. (Calm' => Calm) /\ (Steady' => Steady)
    BY Zenon, <1>1, Undisturbing
  <1>4. told[s] = None /\ status[s] = "none" /\ \A t \in Subs : content[t] # s
    BY Zenon, <1>0, RowFacts DEF QueueInv, Untold
  <1>5. /\ old \in Subs /\ old # s /\ told[old] = candidate /\ s \in files
        /\ \A t \in Subs : t # candidate => content[t] # old
    BY Zenon, <1>0, <1>4, RowFacts DEF QueueInv, Rows, Arrived
  <1>6. \A w \in Workers : pc[w] # "idle" => task[w] # candidate
    <2>1. s \notin Workers
      BY Zenon, RowFacts
    <2> QED BY Zenon, <1>0, <2>1, Holder
  <1>7. \A t \in Subs : t # s => sub[t] # "handback" /\ sub'[t] # "handback"
    BY Zenon, <1>0, <1>1, OneEnqueues
  <1>8. Apart' /\ Unstarted' /\ Staffed'
    <2>1. Apart'
      BY Zenon, <1>1 DEF QueueInv, Apart
    <2>2. Unstarted'
      BY Zenon, <1>1 DEF QueueInv, Unstarted, Busy
    <2>3. Staffed'
      BY Zenon, <1>1, <1>3 DEF QueueInv, Staffed, Busy
    <2> QED BY Zenon, <2>1, <2>2, <2>3
  <1>9. Rows'
    <2> SUFFICES ASSUME NEW t \in Subs
                 PROVE  /\ status'[t] = "none" => content'[t] = None
                        /\ status'[t] # "none" => /\ content'[t] \in Subs /\ told'[content'[t]] = t
                                                  /\ told'[t] = t
      BY Zenon DEF Rows
    <2>1. CASE t = candidate
      <3>1. candidate # s /\ told[candidate] = candidate
        BY Zenon, <1>0, <1>4, RowOf
      <3> QED BY Zenon, <1>0, <1>1, <1>2, <2>1, <3>1
    <2>2. CASE t # candidate
      <3>1. UNCHANGED <<status>> /\ content'[t] = content[t]
        BY Zenon, <1>1, <1>2, <2>2
      <3>2. CASE status[t] = "none" /\ content[t] = None
        BY Zenon, <3>1, <3>2
      <3>3. CASE /\ status[t] # "none" /\ content[t] \in Subs /\ told[content[t]] = t
                 /\ told[t] = t
        <4>1. t # s /\ content[t] # s
          BY Zenon, <1>4, <3>3
        <4> QED BY Zenon, <1>1, <3>1, <3>3, <4>1
      <3> QED BY Zenon, <3>2, <3>3, RowOf
    <2> QED BY Zenon, <2>1, <2>2
  <1>10. (Untold /\ Arrived)'
    BY Zenon, <1>1 DEF QueueInv, Untold, Arrived
  <1>11. Flags'
    BY Zenon, <1>1, <1>2 DEF QueueInv, Flags
  <1>12. Enqueuing'
    BY Zenon, <1>0, <1>1, <1>2, <1>5, <1>7 DEF QueueInv, Enqueuing
  <1>13. Working'
    <2> SUFFICES ASSUME NEW w \in Workers
                 PROVE  /\ pc'[w] # "idle" =>
                              /\ task'[w] \in Subs /\ status'[task'[w]] # "none"
                              /\ input'[w] = content'[task'[w]]
                              /\ config'.doc[task'[w]] \in active_docs'
                        /\ Busy(w)' => status'[task'[w]] # "queued"
                        /\ pc'[w] = "release" => status'[task'[w]] \in Terminal \cup {"gone"}
                        /\ pc'[w] = "cancelled" => cancel_requested'[task'[w]]
      BY Zenon DEF Working
    <2>1. pc[w] # "idle" => task[w] \in Subs /\ task[w] # candidate
      BY Zenon, <1>6 DEF QueueInv, Working
    <2>2. pc[w] = "cancelled" => pc[w] # "idle"
      BY Zenon
    <2> QED BY Zenon, <1>1, <1>2, <2>1, <2>2 DEF QueueInv, Working, Busy
  <1>14. InputPresent'
    BY Zenon, <1>1, <1>2, <1>5 DEF QueueInv, InputPresent
  <1>15. Tended'
    <2> SUFFICES ASSUME Calm', NEW f \in files' PROVE Owned(f)'
      BY Zenon DEF Tended
    <2>1. Owned(f) /\ f \in Subs
      BY Zenon, <1>1, <1>3 DEF QueueInv, Tended, TypeOK
    <2>2. CASE f = s
      BY Zenon, <1>0, <1>1, <1>2, <2>2 DEF Owned, Live
    <2>3. CASE f = old
      BY Zenon, <1>1, <2>3 DEF Owned
    <2>4. CASE f # s /\ f # old
      <3>1. \A t \in Subs : content[t] = f => content'[t] = f
        BY Zenon, <1>2, <2>4
      <3>2. handback \subseteq Subs
        BY Zenon DEF TypeOK
      <3>3. CASE sub[f] \in {"input", "found", "error"}
        BY Zenon, <1>1, <2>1, <2>4, <3>3 DEF Owned
      <3>4. ASSUME NEW t \in Subs, status[t] \in Live \/ t \in handback, content[t] = f
            PROVE  Owned(f)'
        BY Zenon, <1>1, <3>1, <3>4 DEF Owned
      <3>5. ASSUME NEW x \in Subs, sub[x] = "handback" PROVE FALSE
        BY Zenon, <1>0, <1>7, <3>5
      <3>6. ASSUME NEW w \in Workers, pc[w] = "release", input[w] = f PROVE Owned(f)'
        BY Zenon, <1>1, <3>6 DEF Owned
      <3> QED BY Zenon, <2>1, <3>2, <3>3, <3>4, <3>5, <3>6 DEF Owned
    <2> QED BY Zenon, <2>2, <2>3, <2>4
  <1> QED BY Zenon, <1>8, <1>9, <1>10, <1>11, <1>12, <1>13, <1>14, <1>15 DEF QueueInv

LEMMA HandBackInv ==
  ASSUME TypeOK, QueueInv, NEW s \in Subs, ReleaseUnadoptedInput(s)
  PROVE  QueueInv'
  <1>1. /\ sub[s] = "handback" /\ files' = Release(unadopted, candidate)
        /\ sub'[s] = "answered" /\ \A t \in Subs : t # s => sub'[t] = sub[t]
        /\ candidate' = None /\ unadopted' = None
        /\ UNCHANGED <<config, status, content, cancel_requested, told, active_docs,
                       pc, task, input, handback, faults>>
    BY Zenon DEF ReleaseUnadoptedInput, TypeOK, rowVars, workerVars
  <1>2. (Calm' => Calm) /\ (Steady' => Steady)
    BY Zenon, <1>1, Undisturbing
  <1>3. /\ unadopted \in Subs /\ candidate \in Subs
        /\ told[unadopted] = candidate /\ content[candidate] # unadopted
    BY Zenon, <1>1 DEF QueueInv, Enqueuing
  <1>4. files' = files \ {unadopted}
    <2>1. unadopted = candidate \/ status[unadopted] = "none"
      BY Zenon, <1>3 DEF QueueInv, Rows
    <2> QED BY Zenon, <1>1, <2>1 DEF Release, Live
  <1>5. /\ \A t \in Subs : content[t] # unadopted
        /\ \A x \in Subs : sub[x] \in {"input", "found", "error"} => x # unadopted
    BY Zenon, <1>3, RowFacts DEF QueueInv, Untold
  <1>6. \A w \in Workers : pc[w] # "idle" => input[w] # unadopted
    BY Zenon, <1>5, Holder
  <1>7. \A t \in Subs : t # s => sub[t] # "handback"
    BY Zenon, <1>1, OneEnqueues
  <1>8. Rows' /\ Flags' /\ Working' /\ Apart' /\ Unstarted' /\ Staffed'
    BY Zenon, <1>1, <1>2, RowsKept, WorkKept DEF QueueInv
  <1>9. (Untold /\ Arrived)'
    BY Zenon, <1>1, <1>4, <1>5 DEF QueueInv, Untold, Arrived
  <1>10. Enqueuing'
    BY Zenon, <1>1, <1>7 DEF QueueInv, Enqueuing
  <1>11. InputPresent'
    BY Zenon, <1>1, <1>4, <1>5, <1>6 DEF QueueInv, InputPresent
  <1>12. Tended'
    <2> SUFFICES ASSUME Calm', NEW f \in files' PROVE Owned(f)'
      BY Zenon DEF Tended
    <2>1. Owned(f) /\ f \in Subs /\ f # unadopted
      BY Zenon, <1>1, <1>2, <1>4 DEF QueueInv, Tended, TypeOK
    <2>2. f = s => sub[f] \notin {"input", "found", "error"}
      BY Zenon, <1>1
    <2> QED BY Zenon, <1>1, <2>1, <2>2 DEF Owned
  <1> QED BY Zenon, <1>8, <1>9, <1>10, <1>11, <1>12 DEF QueueInv

LEMMA CreateInv ==
  ASSUME TypeOK, QueueInv, NEW s \in Subs, CreateTask(s)
  PROVE  QueueInv'
  <1>1. /\ sub[s] = "found" /\ candidate' = None
        /\ sub'[s] = "answered" /\ \A t \in Subs : t # s => sub'[t] = sub[t]
        /\ told'[s] = s /\ \A t \in Subs : t # s => told'[t] = told[t]
        /\ status'[s] = "queued" /\ \A t \in Subs : t # s => status'[t] = status[t]
        /\ content'[s] = s /\ \A t \in Subs : t # s => content'[t] = content[t]
        /\ UNCHANGED <<config, cancel_requested, active_docs, unadopted,
                       pc, task, input, handback, files, faults>>
    BY Zenon DEF CreateTask, NeedsRow, Accept, TypeOK, workerVars
  <1>2. (Calm' => Calm) /\ (Steady' => Steady)
    BY Zenon, <1>1, Undisturbing
  <1>3. /\ told[s] = None /\ status[s] = "none" /\ content[s] = None
        /\ \A t \in Subs : content[t] # s
    BY Zenon, <1>1, RowFacts DEF QueueInv, Untold
  <1>4. /\ s \in files /\ ~cancel_requested[s] /\ s \notin handback
        /\ \A w \in Workers : pc[w] # "idle" => task[w] \in Subs /\ task[w] # s
    <2>1. s \in files /\ ~cancel_requested[s]
      BY Zenon, <1>1, <1>3 DEF QueueInv, Arrived, Flags
    <2>2. s \notin handback
      BY Zenon, <1>3 DEF QueueInv, Unstarted
    <2> QED BY Zenon, <1>3, <2>1, <2>2, Holder
  <1>5. \A t \in Subs : sub[t] # "handback" /\ sub'[t] # "handback"
    <2>1. \A t \in Subs : t # s => sub[t] # "handback"
      BY Zenon, <1>1, OneEnqueues
    <2> QED BY Zenon, <1>1, <2>1
  <1>6. Rows'
    <2> SUFFICES ASSUME NEW t \in Subs
                 PROVE  /\ status'[t] = "none" => content'[t] = None
                        /\ status'[t] # "none" => /\ content'[t] \in Subs /\ told'[content'[t]] = t
                                                  /\ told'[t] = t
      BY Zenon DEF Rows
    <2>1. CASE t = s
      BY Zenon, <1>1, <2>1
    <2>2. CASE t # s
      <3>1. status'[t] = status[t] /\ content'[t] = content[t] /\ told'[t] = told[t] /\ content[t] # s
        BY Zenon, <1>1, <1>3, <2>2
      <3>2. CASE status[t] = "none" /\ content[t] = None
        BY Zenon, <3>1, <3>2
      <3>3. CASE /\ status[t] # "none" /\ content[t] \in Subs /\ told[content[t]] = t
                 /\ told[t] = t
        BY Zenon, <1>1, <3>1, <3>3
      <3> QED BY Zenon, <3>2, <3>3, RowOf
    <2> QED BY Zenon, <2>1, <2>2
  <1>7. (Untold /\ Arrived)'
    BY Zenon, <1>1 DEF QueueInv, Untold, Arrived
  <1>8. Flags'
    BY Zenon, <1>1, <1>4 DEF QueueInv, Flags
  <1>9. Enqueuing'
    BY Zenon, <1>1, <1>5 DEF QueueInv, Enqueuing
  <1>10. Apart'
    BY Zenon, <1>1 DEF QueueInv, Apart
  <1>11. Working'
    <2> SUFFICES ASSUME NEW w \in Workers, pc[w] # "idle"
                 PROVE  /\ task'[w] \in Subs /\ status'[task'[w]] # "none"
                        /\ input'[w] = content'[task'[w]]
                        /\ config'.doc[task'[w]] \in active_docs'
                        /\ Busy(w)' => status'[task'[w]] # "queued"
                        /\ pc'[w] = "release" => status'[task'[w]] \in Terminal \cup {"gone"}
                        /\ pc'[w] = "cancelled" => cancel_requested'[task'[w]]
      BY Zenon, <1>1 DEF Working, Busy
    <2>1. /\ status'[task[w]] = status[task[w]] /\ content'[task[w]] = content[task[w]]
      BY Zenon, <1>1, <1>4
    <2> QED BY Zenon, <1>1, <2>1 DEF QueueInv, Working, Busy
  <1>12. Unstarted'
    <2>1. \A t \in handback : t \in Subs /\ t # s
      BY Zenon, <1>4 DEF TypeOK
    <2> QED BY Zenon, <1>1, <2>1 DEF QueueInv, Unstarted, Busy
  <1>13. InputPresent'
    BY Zenon, <1>1, <1>4 DEF QueueInv, InputPresent
  <1>14. Tended'
    <2> SUFFICES ASSUME Calm', NEW f \in files' PROVE Owned(f)'
      BY Zenon DEF Tended
    <2>1. Owned(f) /\ f \in Subs /\ handback \subseteq Subs
      BY Zenon, <1>1, <1>2 DEF QueueInv, Tended, TypeOK
    <2>2. CASE f = s
      BY Zenon, <1>1, <2>2 DEF Owned, Live
    <2>3. CASE f # s
      <3>1. \A t \in Subs : content[t] = f => content'[t] = f /\ status'[t] = status[t]
        <4>1. content[s] # f
          BY Zenon, <1>3, <2>1, RowFacts
        <4> QED BY Zenon, <1>1, <4>1
      <3> QED BY Zenon, <1>1, <1>5, <2>1, <2>3, <3>1 DEF Owned
    <2> QED BY Zenon, <2>2, <2>3
  <1>15. Staffed'
    <2>1. \A t \in Subs : status'[t] = "processing" => status[t] = "processing"
      BY Zenon, <1>1
    <2> QED BY Zenon, <1>1, <1>2, <2>1 DEF QueueInv, Staffed, Busy
  <1> QED BY Zenon, <1>6, <1>7, <1>8, <1>9, <1>10, <1>11, <1>12, <1>13, <1>14, <1>15 DEF QueueInv

LEMMA RefusedInv ==
  ASSUME TypeOK, QueueInv, NEW s \in Subs, CreateTaskFails(s)
  PROVE  QueueInv'
  <1>1. /\ sub[s] = "found" /\ candidate' = None
        /\ sub'[s] = "error" /\ \A t \in Subs : t # s => sub'[t] = sub[t]
        /\ UNCHANGED <<config, status, content, cancel_requested, told, active_docs, unadopted,
                       pc, task, input, handback, files>>
    BY Zenon DEF CreateTaskFails, NeedsRow, TypeOK, rowVars, workerVars
  <1>2. (Calm' => Calm) /\ (Steady' => Steady)
    BY Zenon, Disturbing DEF CreateTaskFails, Kinds
  <1>3. \A t \in Subs : sub[t] # "handback" /\ sub'[t] # "handback"
    <2>1. \A t \in Subs : t # s => sub[t] # "handback"
      BY Zenon, <1>1, OneEnqueues
    <2> QED BY Zenon, <1>1, <2>1
  <1>4. Rows' /\ Flags' /\ Working' /\ Apart' /\ Unstarted' /\ Staffed'
    BY Zenon, <1>1, <1>2, RowsKept, WorkKept DEF QueueInv
  <1>5. (Untold /\ Arrived)'
    BY Zenon, <1>1 DEF QueueInv, Untold, Arrived
  <1>6. (Enqueuing /\ InputPresent)'
    BY Zenon, <1>1, <1>3 DEF QueueInv, Enqueuing, InputPresent
  <1>7. Tended'
    <2> SUFFICES ASSUME Calm', NEW f \in files' PROVE Owned(f)'
      BY Zenon DEF Tended
    <2>1. Owned(f) /\ f \in Subs
      BY Zenon, <1>1, <1>2 DEF QueueInv, Tended, TypeOK
    <2> QED BY Zenon, <1>1, <1>3, <2>1 DEF Owned
  <1> QED BY Zenon, <1>4, <1>5, <1>6, <1>7 DEF QueueInv

LEMMA InputReleaserInv ==
  ASSUME TypeOK, QueueInv, NEW s \in Subs, InputReleaser(s)
  PROVE  QueueInv'
  <1>1. /\ sub[s] = "error" /\ files' = Release(s, None)
        /\ sub'[s] = "refused" /\ \A t \in Subs : t # s => sub'[t] = sub[t]
        /\ UNCHANGED <<config, status, content, cancel_requested, told, active_docs, candidate,
                       unadopted, pc, task, input, handback, faults>>
    BY Zenon DEF InputReleaser, TypeOK, rowVars, schedVars, workerVars
  <1>2. (Calm' => Calm) /\ (Steady' => Steady)
    BY Zenon, <1>1, Undisturbing
  <1>3. told[s] = None /\ status[s] = "none" /\ \A t \in Subs : content[t] # s
    BY Zenon, <1>1, RowFacts DEF QueueInv, Untold
  <1>4. files' = files \ {s}
    BY Zenon, <1>1, <1>3 DEF Release, Live
  <1>5. \A w \in Workers : pc[w] # "idle" => input[w] # s
    BY Zenon, <1>3, Holder
  <1>6. Rows' /\ Flags' /\ Working' /\ Apart' /\ Unstarted' /\ Staffed'
    BY Zenon, <1>1, <1>2, RowsKept, WorkKept DEF QueueInv
  <1>7. (Untold /\ Arrived)'
    BY Zenon, <1>1, <1>4 DEF QueueInv, Untold, Arrived
  <1>8. Enqueuing'
    BY Zenon, <1>1 DEF QueueInv, Enqueuing
  <1>9. InputPresent'
    BY Zenon, <1>1, <1>3, <1>4, <1>5 DEF QueueInv, InputPresent
  <1>10. Tended'
    <2> SUFFICES ASSUME Calm', NEW f \in files' PROVE Owned(f)'
      BY Zenon DEF Tended
    <2>1. Owned(f) /\ f \in Subs /\ f # s
      BY Zenon, <1>1, <1>2, <1>4 DEF QueueInv, Tended, TypeOK
    <2>2. \A x \in Subs : sub[x] = "handback" => sub'[x] = "handback"
      BY Zenon, <1>1
    <2> QED BY Zenon, <1>1, <2>1, <2>2 DEF Owned
  <1> QED BY Zenon, <1>6, <1>7, <1>8, <1>9, <1>10 DEF QueueInv
-----------------------------------------------------------------------------
(* Cancellation and the cron *)

(* Only a row that was never dequeued is handed back. *)
LEMMA CancelInv ==
  ASSUME TypeOK, QueueInv, NEW s \in Subs, RequestCancel(s)
  PROVE  QueueInv'
  <1>0. /\ status[s] \in {"queued", "processing"} /\ status' \in [Subs -> Statuses]
        /\ \A t \in Subs : t # s => status'[t] = status[t]
        /\ cancel_requested'[s] /\ \A t \in Subs : t # s => cancel_requested'[t] = cancel_requested[t]
        /\ UNCHANGED <<config, content, sub, told, active_docs, candidate, unadopted,
                       pc, task, input, files>>
    BY Zenon DEF RequestCancel, TypeOK, schedVars, subVars, workerVars, Statuses, Live, Terminal
  <1>1. \/ status[s] = "queued" /\ status'[s] = "cancelled" /\ handback' = handback \cup {s}
        \/ status[s] = "processing" /\ status'[s] = "cancelling" /\ handback' = handback
    BY Zenon DEF RequestCancel, TypeOK
  <1>2. (Calm' => Calm) /\ (Steady' => Steady)
    BY Zenon, Disturbing DEF RequestCancel, Kinds
  <1>3. status[s] = "queued" => \A w \in Workers : Busy(w) => task[w] # s
    BY Zenon DEF QueueInv, Working
  <1>4. (Untold /\ Arrived /\ Apart)'
    BY Zenon, <1>0 DEF QueueInv, Untold, Arrived, Apart
  <1>5. Rows'
    <2>1. \A t \in Subs : status'[t] = "none" <=> status[t] = "none"
      BY Zenon, <1>0, <1>1
    <2> QED BY Zenon, <1>0, <2>1, RowsKept DEF QueueInv, Rows
  <1>6. Flags'
    BY Zenon, <1>0, <1>1 DEF QueueInv, Flags
  <1>7. Enqueuing'
    BY Zenon, <1>0, <1>1 DEF QueueInv, Enqueuing, TypeOK
  <1>8. Working'
    <2> SUFFICES ASSUME NEW w \in Workers, pc[w] # "idle"
                 PROVE  /\ task'[w] \in Subs /\ status'[task'[w]] # "none"
                        /\ input'[w] = content'[task'[w]]
                        /\ config'.doc[task'[w]] \in active_docs'
                        /\ Busy(w)' => status'[task'[w]] # "queued"
                        /\ pc'[w] = "release" => status'[task'[w]] \in Terminal \cup {"gone"}
                        /\ pc'[w] = "cancelled" => cancel_requested'[task'[w]]
      BY Zenon, <1>0 DEF Working, Busy
    <2>1. CASE task[w] # s
      <3>1. /\ task[w] \in Subs /\ status'[task[w]] = status[task[w]]
            /\ cancel_requested'[task[w]] = cancel_requested[task[w]]
        BY Zenon, <1>0, <2>1, Holder
      <3> QED BY Zenon, <1>0, <3>1 DEF QueueInv, Working, Busy
    <2>2. CASE task[w] = s
      <3>1. pc[w] # "release"
        BY Zenon, <1>0, <2>2 DEF QueueInv, Working, Terminal
      <3> QED BY Zenon, <1>0, <1>1, <2>2, <3>1 DEF QueueInv, Working
    <2> QED BY Zenon, <2>1, <2>2
  <1>9. Unstarted'
    <2> SUFFICES ASSUME NEW t \in handback'
                 PROVE  /\ status'[t] \in {"cancelled", "gone"}
                        /\ \A w \in Workers : Busy(w)' => task'[w] # t
      BY Zenon DEF Unstarted
    <2>1. \A w \in Workers : Busy(w)' => Busy(w) /\ task'[w] = task[w]
      BY Zenon, <1>0 DEF Busy
    <2>2. CASE t = s
      <3>1. status[s] = "queued" /\ status'[s] = "cancelled"
        BY Zenon, <1>0, <1>1, <2>2 DEF QueueInv, Unstarted
      <3> QED BY Zenon, <1>3, <2>1, <2>2, <3>1
    <2>3. CASE t # s
      <3>0. handback' \subseteq handback \cup {s}
        BY Zenon, <1>1
      <3>1. t \in handback /\ t \in Subs
        BY Zenon, <3>0, <2>3 DEF TypeOK
      <3>2. /\ status[t] \in {"cancelled", "gone"}
            /\ \A w \in Workers : Busy(w) => task[w] # t
        BY Zenon, <3>1 DEF QueueInv, Unstarted
      <3> QED BY Zenon, <1>0, <2>1, <2>3, <3>1, <3>2
    <2> QED BY Zenon, <2>2, <2>3
  <1>10. InputPresent'
    <2>1. \A t \in Subs : status'[t] \in Live => status[t] \in Live
      BY Zenon, <1>0, <1>1 DEF Live
    <2> QED BY Zenon, <1>0, <2>1 DEF QueueInv, InputPresent
  <1>11. Tended'
    <2> SUFFICES ASSUME Calm', NEW f \in files' PROVE Owned(f)'
      BY Zenon DEF Tended
    <2>1. Owned(f) /\ f \in Subs
      BY Zenon, <1>0, <1>2 DEF QueueInv, Tended, TypeOK
    <2>2. \A t \in Subs : status[t] \in Live => status'[t] \in Live \/ t \in handback'
      BY Zenon, <1>0, <1>1 DEF Live
    <2>3. \A t \in handback : t \in handback'
      BY Zenon, <1>1
    <2> QED BY Zenon, <1>0, <2>1, <2>2, <2>3, OwnedKept
  <1>12. Staffed'
    <2>1. \A t \in Subs : status'[t] = "processing" => status[t] = "processing"
      BY Zenon, <1>0, <1>1
    <2> QED BY Zenon, <1>0, <1>2, <2>1 DEF QueueInv, Staffed, Busy
  <1> QED BY Zenon, <1>4, <1>5, <1>6, <1>7, <1>8, <1>9, <1>10, <1>11, <1>12 DEF QueueInv

(* The file CancelTask removes belonged to the row it cancelled, which     *)
(* nobody processed.                                                       *)
LEMMA CancelReleasesInv ==
  ASSUME TypeOK, QueueInv, NEW s \in Subs, CancelTaskReleases(s)
  PROVE  QueueInv'
  <1> DEFINE f == content[s]
  <1>1. /\ s \in handback /\ handback' = handback \ {s} /\ files' = Release(f, s)
        /\ UNCHANGED <<config, status, content, cancel_requested, sub, told, active_docs, candidate,
                       unadopted, pc, task, input, faults>>
    BY Zenon DEF CancelTaskReleases, TypeOK, rowVars, schedVars, subVars, workerVars
  <1>2. (Calm' => Calm) /\ (Steady' => Steady)
    BY Zenon, <1>1, Undisturbing
  <1>3. status[s] \in {"cancelled", "gone"} /\ \A w \in Workers : Busy(w) => task[w] # s
    BY Zenon, <1>1 DEF QueueInv, Unstarted
  <1>4. f \in Subs /\ told[f] = s /\ \A t \in Subs : content[t] = f => t = s
    BY Zenon, <1>3, RowOf, RowFacts
  <1>5. files' = files \ {f}
    <2>1. f = s \/ status[f] = "none"
      BY Zenon, <1>4, RowOf
    <2> QED BY Zenon, <1>1, <2>1 DEF Release, Live
  <1>6. \A w \in Workers : Busy(w) => input[w] # f
    <2> SUFFICES ASSUME NEW w \in Workers, Busy(w), input[w] = f PROVE FALSE
      BY Zenon
    <2>1. pc[w] # "idle"
      BY Zenon DEF Busy
    <2>2. task[w] \in Subs /\ input[w] = content[task[w]]
      BY Zenon, <2>1, Holder
    <2> QED BY Zenon, <1>3, <1>4, <2>2
  <1>7. \A x \in Subs : sub[x] \in {"input", "found", "error"} => x # f
    BY Zenon, <1>4, RowFacts DEF QueueInv, Untold
  <1>8. Rows' /\ (Untold /\ Flags /\ Apart)'
    BY Zenon, <1>1, RowsKept DEF QueueInv, Untold, Flags, Apart
  <1>9. (Enqueuing /\ Working)'
    BY Zenon, <1>1 DEF QueueInv, Enqueuing, Working, Busy
  <1>10. Staffed'
    BY Zenon, <1>1, <1>2 DEF QueueInv, Staffed, Busy
  <1>11. Arrived'
    BY Zenon, <1>1, <1>5, <1>7 DEF QueueInv, Arrived
  <1>12. Unstarted'
    BY Zenon, <1>1 DEF QueueInv, Unstarted, Busy
  <1>13. InputPresent'
    <2>1. \A t \in Subs : status[t] \in Live => content[t] # f
      BY Zenon, <1>3, <1>4 DEF Live
    <2>2. \A w \in Workers : pc[w] = "running" => input[w] # f
      BY Zenon, <1>6 DEF Busy
    <2> QED BY Zenon, <1>1, <1>5, <2>1, <2>2 DEF QueueInv, InputPresent
  <1>14. Tended'
    <2> SUFFICES ASSUME Calm', NEW g \in files' PROVE Owned(g)'
      BY Zenon DEF Tended
    <2>1. Owned(g) /\ g # f
      BY Zenon, <1>2, <1>5 DEF QueueInv, Tended
    <2> QED BY Zenon, <1>1, <2>1, OwnedKept
  <1> QED BY Zenon, <1>8, <1>9, <1>10, <1>11, <1>12, <1>13, <1>14 DEF QueueInv

(* A row is failed or deleted by the cron, and nothing else changes.       *)
LEMMA RowEnds ==
  ASSUME TypeOK, QueueInv, NEW t \in Subs, NEW l \in {"failed", "gone"},
         status[t] \in Terminal \cup {"processing"},
         status[t] = "processing" => ~Calm',
         status[t] = "cancelled" => l = "gone",
         status' = [status EXCEPT ![t] = l],
         (Calm' => Calm) /\ (Steady' => Steady),
         UNCHANGED <<config, content, cancel_requested, sub, told, active_docs, candidate,
                     unadopted, pc, task, input, handback, files>>
  PROVE  QueueInv'
  <1>1. status'[t] = l /\ \A u \in Subs : u # t => status'[u] = status[u]
    BY Zenon DEF TypeOK
  <1>2. (Untold /\ Arrived /\ Apart)'
    BY Zenon DEF QueueInv, Untold, Arrived, Apart
  <1>3. \A u \in Subs : /\ status'[u] = "none" <=> status[u] = "none"
                        /\ status'[u] \in Live => status[u] \in Live
                        /\ status[u] \notin Live => status'[u] \notin Live
                        /\ status'[u] \in {"queued", "processing"} => status'[u] = status[u]
                        /\ status[u] \in {"cancelled", "gone"} => status'[u] \in {"cancelled", "gone"}
                        /\ status[u] \in Terminal \cup {"gone"} => status'[u] \in Terminal \cup {"gone"}
    <2> SUFFICES ASSUME NEW u \in Subs
                 PROVE  /\ status'[u] = "none" <=> status[u] = "none"
                        /\ status'[u] \in Live => status[u] \in Live
                        /\ status[u] \notin Live => status'[u] \notin Live
                        /\ status'[u] \in {"queued", "processing"} => status'[u] = status[u]
                        /\ status[u] \in {"cancelled", "gone"} => status'[u] \in {"cancelled", "gone"}
                        /\ status[u] \in Terminal \cup {"gone"} => status'[u] \in Terminal \cup {"gone"}
      BY Zenon
    <2>1. CASE u = t
      BY Zenon, <1>1, <2>1 DEF Live, Terminal
    <2>2. CASE u # t
      BY Zenon, <1>1, <2>2
    <2> QED BY Zenon, <2>1, <2>2
  <1>4. Rows' /\ Flags'
    BY Zenon, <1>3 DEF QueueInv, Rows, Flags
  <1>5. Enqueuing'
    BY Zenon, <1>3 DEF QueueInv, Enqueuing, TypeOK
  <1>6. Working'
    <2> SUFFICES ASSUME NEW w \in Workers, pc[w] # "idle"
                 PROVE  /\ task'[w] \in Subs /\ status'[task'[w]] # "none"
                        /\ input'[w] = content'[task'[w]]
                        /\ config'.doc[task'[w]] \in active_docs'
                        /\ Busy(w)' => status'[task'[w]] # "queued"
                        /\ pc'[w] = "release" => status'[task'[w]] \in Terminal \cup {"gone"}
                        /\ pc'[w] = "cancelled" => cancel_requested'[task'[w]]
      BY Zenon DEF Working, Busy
    <2> DEFINE u == task[w]
    <2>1. /\ u \in Subs /\ status[u] # "none" /\ input[w] = content[u]
          /\ config.doc[u] \in active_docs
          /\ Busy(w) => status[u] # "queued"
          /\ pc[w] = "release" => status[u] \in Terminal \cup {"gone"}
          /\ pc[w] = "cancelled" => cancel_requested[u]
      BY Zenon DEF QueueInv, Working
    <2>2. status'[u] = "queued" => status[u] = "queued"
      BY Zenon, <1>3, <2>1
    <2> QED BY Zenon, <1>3, <2>1, <2>2 DEF Busy
  <1>7. Unstarted'
    <2> SUFFICES ASSUME NEW u \in handback
                 PROVE  /\ status'[u] \in {"cancelled", "gone"}
                        /\ \A w \in Workers : Busy(w)' => task'[w] # u
      BY Zenon DEF Unstarted
    <2>1. /\ u \in Subs /\ status[u] \in {"cancelled", "gone"}
          /\ \A w \in Workers : Busy(w) => task[w] # u
      BY Zenon DEF QueueInv, Unstarted, TypeOK
    <2> QED BY Zenon, <1>3, <2>1 DEF Busy
  <1>8. InputPresent'
    BY Zenon, <1>3 DEF QueueInv, InputPresent
  <1>9. Tended'
    <2> SUFFICES ASSUME Calm', NEW f \in files' PROVE Owned(f)'
      BY Zenon DEF Tended
    <2>1. Owned(f)
      BY Zenon DEF QueueInv, Tended
    <2>2. status[t] \notin Live
      BY Zenon DEF Live, Terminal
    <2>3. \A u \in Subs : status[u] \in Live => status'[u] \in Live
      BY Zenon, <1>1, <2>2
    <2> QED BY Zenon, <2>1, <2>3, OwnedKept
  <1>10. Staffed'
    <2>1. \A u \in Subs : status'[u] = "processing" => status[u] = "processing"
      BY Zenon, <1>3
    <2> QED BY Zenon, <2>1 DEF QueueInv, Staffed, Busy
  <1> QED BY Zenon, <1>2, <1>4, <1>5, <1>6, <1>7, <1>8, <1>9, <1>10 DEF QueueInv

(* Without throws, failed persists and crashes the sweep for abandoned     *)
(* rows finds none.                                                        *)
LEMMA CronInv ==
  ASSUME TypeOK, QueueInv, NEW s \in Subs, SweepZombies(s) \/ SweepTimedOut(s) \/ DeleteExpired(s)
  PROVE  QueueInv'
  <1>1. CASE SweepZombies(s)
    <2>1. (Calm' => Calm) /\ (Steady' => Steady)
      BY Zenon, <1>1, Undisturbing DEF SweepZombies
    <2>2. ~Steady
      BY Zenon, <1>1 DEF SweepZombies, Fail, Held, QueueInv, Staffed, Busy
    <2>3. ~Calm'
      BY Zenon, <2>1, <2>2 DEF Calm, Steady, Undisturbed
    <2>4. /\ status[s] = "processing" /\ status' = [status EXCEPT ![s] = "failed"]
          /\ UNCHANGED <<config, content, cancel_requested, sub, told, active_docs, candidate,
                         unadopted, pc, task, input, handback, files>>
      BY Zenon, <1>1 DEF SweepZombies, Fail, schedVars, subVars, workerVars
    <2> QED BY Zenon, <2>1, <2>3, <2>4, RowEnds
  <1>2. CASE SweepTimedOut(s)
    <2>1. (Calm' => Calm) /\ (Steady' => Steady) /\ ~Calm'
      BY Zenon, <1>2, Disturbing DEF SweepTimedOut, Kinds
    <2>2. /\ status[s] = "processing" /\ status' = [status EXCEPT ![s] = "failed"]
          /\ UNCHANGED <<config, content, cancel_requested, sub, told, active_docs, candidate,
                         unadopted, pc, task, input, handback, files>>
      BY Zenon, <1>2 DEF SweepTimedOut, Fail, schedVars, subVars, workerVars
    <2> QED BY Zenon, <2>1, <2>2, RowEnds
  <1>3. CASE DeleteExpired(s)
    <2>1. (Calm' => Calm) /\ (Steady' => Steady)
      BY Zenon, <1>3, Disturbing DEF DeleteExpired, Kinds
    <2>2. /\ status[s] \in Terminal /\ status' = [status EXCEPT ![s] = "gone"]
          /\ UNCHANGED <<config, content, cancel_requested, sub, told, active_docs, candidate,
                         unadopted, pc, task, input, handback, files>>
      BY Zenon, <1>3 DEF DeleteExpired, schedVars, subVars, workerVars
    <2>3. status[s] # "processing"
      BY Zenon, <2>2 DEF Terminal
    <2> QED BY Zenon, <2>1, <2>2, <2>3, RowEnds
  <1> QED BY Zenon, <1>1, <1>2, <1>3
-----------------------------------------------------------------------------
(* Workers *)

(* A worker that changes only its own state and its reservation. *)
LEMMA WorkerMoves ==
  ASSUME TypeOK, QueueInv, NEW w \in Workers, pc[w] # "release",
         (Calm' => Calm) /\ (Steady' => Steady),
         \A v \in Workers : v # w => pc'[v] = pc[v] /\ task'[v] = task[v] /\ input'[v] = input[v],
         UNCHANGED <<config, status, content, cancel_requested, sub, told, candidate, unadopted,
                     handback, files>>,
         pc'[w] \notin {"idle", "selected"} => Busy(w) /\ task'[w] = task[w],
         pc'[w] \notin {"running", "release"},
         pc'[w] = "cancelled" => cancel_requested[task'[w]],
         pc'[w] # "idle" => /\ task'[w] \in Subs /\ status[task'[w]] # "none"
                            /\ input'[w] = content[task'[w]]
                            /\ config.doc[task'[w]] \in active_docs',
         \A v \in Workers : v # w /\ pc[v] # "idle" =>
             /\ config.doc[task[v]] \in active_docs'
             /\ pc'[w] # "idle" => config.doc[task'[w]] # config.doc[task[v]],
         Steady' /\ Busy(w) /\ pc[w] # "done" /\ status[task[w]] = "processing"
             => Busy(w)' /\ pc'[w] # "done"
  PROVE  QueueInv'
  <1>1. Rows' /\ (Untold /\ Flags /\ Arrived /\ Enqueuing)'
    BY Zenon, RowsKept DEF QueueInv, Untold, Flags, Arrived, Enqueuing
  <1>2. Working'
    <2> SUFFICES ASSUME NEW v \in Workers, pc'[v] # "idle"
                 PROVE  /\ task'[v] \in Subs /\ status'[task'[v]] # "none"
                        /\ input'[v] = content'[task'[v]]
                        /\ config'.doc[task'[v]] \in active_docs'
                        /\ Busy(v)' => status'[task'[v]] # "queued"
                        /\ pc'[v] = "release" => status'[task'[v]] \in Terminal \cup {"gone"}
                        /\ pc'[v] = "cancelled" => cancel_requested'[task'[v]]
      BY Zenon DEF Working, Busy
    <2>1. CASE v = w
      <3>1. Busy(w)' => status[task'[w]] # "queued"
        BY Zenon DEF QueueInv, Working, Busy
      <3> QED BY Zenon, <2>1, <3>1
    <2>2. CASE v # w
      <3>1. pc'[v] = pc[v] /\ task'[v] = task[v] /\ input'[v] = input[v] /\ config.doc[task[v]] \in active_docs'
        BY Zenon, <2>2
      <3>2. /\ task[v] \in Subs /\ status[task[v]] # "none" /\ input[v] = content[task[v]]
            /\ Busy(v) => status[task[v]] # "queued"
            /\ pc[v] = "release" => status[task[v]] \in Terminal \cup {"gone"}
            /\ pc[v] = "cancelled" => cancel_requested[task[v]]
        BY Zenon, <3>1 DEF QueueInv, Working
      <3> QED BY Zenon, <3>1, <3>2 DEF Busy
    <2> QED BY Zenon, <2>1, <2>2
  <1>3. Apart'
    <2> SUFFICES ASSUME NEW u \in Workers, NEW v \in Workers, u # v, pc'[u] # "idle", pc'[v] # "idle"
                 PROVE  config.doc[task'[u]] # config.doc[task'[v]]
      BY Zenon DEF Apart
    <2>1. CASE u = w
      BY Zenon, <2>1
    <2>2. CASE v = w
      BY Zenon, <2>2
    <2>3. CASE u # w /\ v # w
      <3>1. /\ pc[u] # "idle" /\ task'[u] = task[u]
            /\ pc[v] # "idle" /\ task'[v] = task[v]
        BY Zenon, <2>3
      <3>2. Apart
        BY Zenon DEF QueueInv
      <3>3. u \in Workers /\ v \in Workers /\ u # v
        OBVIOUS
      <3> QED BY ONLY Zenon, <3>1, <3>2, <3>3 DEF Apart
    <2> QED BY Zenon, <2>1, <2>2, <2>3
  <1>4. Unstarted'
    <2>1. \A v \in Workers : Busy(v)' => Busy(v) /\ task'[v] = task[v]
      BY Zenon DEF Busy
    <2>2. Unstarted /\ UNCHANGED <<handback, status>>
      BY Zenon DEF QueueInv
    <2> QED BY ONLY Zenon, <2>1, <2>2 DEF Unstarted
  <1>5. InputPresent'
    <2>1. /\ \A u \in Subs : status[u] \in Live => content[u] \in files
          /\ \A v \in Workers : pc[v] = "running" => input[v] \in files
      BY Zenon DEF QueueInv, InputPresent
    <2>2. \A v \in Workers : pc'[v] = "running" => pc[v] = "running" /\ input'[v] = input[v]
      BY Zenon
    <2> QED BY Zenon, <2>1, <2>2 DEF InputPresent
  <1>6. Tended'
    <2> SUFFICES ASSUME Calm', NEW f \in files' PROVE Owned(f)'
      BY Zenon DEF Tended
    <2>1. Owned(f)
      <3>1. Tended /\ Calm /\ f \in files
        BY Zenon DEF QueueInv
      <3> QED BY ONLY Zenon, <3>1 DEF Tended
    <2>2. \A v \in Workers : pc[v] = "release" /\ input[v] = f => pc'[v] = "release" /\ input'[v] = f
      BY Zenon
    <2> QED BY Zenon, <2>1, <2>2, OwnedKept
  <1>7. Staffed'
    <2> SUFFICES ASSUME Steady', NEW t \in Subs, status[t] = "processing"
                 PROVE  \E v \in Workers : Busy(v)' /\ pc'[v] # "done" /\ task'[v] = t
      BY Zenon DEF Staffed
    <2>1. PICK v \in Workers : Busy(v) /\ pc[v] # "done" /\ task[v] = t
      BY Zenon DEF QueueInv, Staffed
    <2>2. CASE v = w
      BY Zenon, <2>1, <2>2 DEF Busy
    <2>3. CASE v # w
      BY Zenon, <2>1, <2>3 DEF Busy
    <2> QED BY Zenon, <2>2, <2>3
  <1> QED BY Zenon, <1>1, <1>2, <1>3, <1>4, <1>5, <1>6, <1>7 DEF QueueInv

(* The document of a dequeued row was free. *)
LEMMA SelectInv ==
  ASSUME TypeOK, QueueInv, NEW w \in Workers, SelectOldestQueuedTask(w)
  PROVE  QueueInv'
  <1>1. PICK t \in Oldest(Queued) :
            /\ task' = [task EXCEPT ![w] = t]
            /\ input' = [input EXCEPT ![w] = content[t]]
            /\ active_docs' = active_docs \cup {config.doc[t]}
    BY Zenon DEF SelectOldestQueuedTask
  <1>2. t \in Queued
    BY Zenon DEF Oldest
  <1>3. t \in Subs /\ status[t] = "queued" /\ config.doc[t] \notin active_docs
    BY Zenon, <1>2 DEF Queued
  <1>4. /\ pc[w] = "idle" /\ pc'[w] = "selected" /\ task'[w] = t /\ input'[w] = content[t]
        /\ \A v \in Workers : v # w => pc'[v] = pc[v] /\ task'[v] = task[v] /\ input'[v] = input[v]
    BY Zenon, <1>1 DEF SelectOldestQueuedTask, Move, TypeOK
  <1>5. UNCHANGED <<config, status, content, cancel_requested, sub, told, candidate, unadopted,
                    handback, files, faults>>
    BY Zenon DEF SelectOldestQueuedTask, rowVars, subVars
  <1>6. \A v \in Workers : v # w /\ pc[v] # "idle" =>
             config.doc[task[v]] \in active_docs' /\ config.doc[t] # config.doc[task[v]]
    BY Zenon, <1>1, <1>3, Holder
  <1>7. (Calm' => Calm) /\ (Steady' => Steady)
    BY Zenon, <1>5, Undisturbing
  <1>8. ~Busy(w)
    BY Zenon, <1>4 DEF Busy
  <1>9. config.doc[t] \in active_docs'
    BY Zenon, <1>1
  <1> QED BY Zenon, <1>3, <1>4, <1>5, <1>6, <1>7, <1>8, <1>9, WorkerMoves

(* A worker gives its reservation back; nobody else reserved the same.     *)
LEMMA LeaveInv ==
  ASSUME TypeOK, QueueInv, NEW w \in Workers, MarkProcessingConflicts(w) \/ OnTaskCompleted(w)
  PROVE  QueueInv'
  <1>1. /\ pc[w] \in {"selected", "done"} /\ pc'[w] = "idle"
        /\ \A v \in Workers : v # w => pc'[v] = pc[v] /\ task'[v] = task[v] /\ input'[v] = input[v]
        /\ active_docs' = active_docs \ {config.doc[task[w]]}
    BY Zenon DEF MarkProcessingConflicts, OnTaskCompleted, Move, TypeOK
  <1>2. UNCHANGED <<config, status, content, cancel_requested, sub, told, candidate, unadopted,
                    handback, files, faults>>
    BY Zenon DEF MarkProcessingConflicts, OnTaskCompleted, rowVars, subVars
  <1>3. \A v \in Workers : v # w /\ pc[v] # "idle" => config.doc[task[v]] \in active_docs'
    <2> SUFFICES ASSUME NEW v \in Workers, v # w, pc[v] # "idle"
                 PROVE  config.doc[task[v]] \in active_docs'
      BY Zenon
    <2>1. config.doc[task[v]] # config.doc[task[w]]
      BY Zenon, <1>1 DEF QueueInv, Apart
    <2> QED BY Zenon, <1>1, <2>1, Holder
  <1>4. (Calm' => Calm) /\ (Steady' => Steady)
    BY Zenon, <1>2, Undisturbing
  <1>5. ~(Busy(w) /\ pc[w] # "done")
    BY Zenon, <1>1 DEF Busy
  <1> QED BY Zenon, <1>1, <1>2, <1>3, <1>4, <1>5, WorkerMoves

(* A worker whose outcome is decided, lost or refused keeps its row and    *)
(* its reservation.                                                        *)
LEMMA AdvanceInv ==
  ASSUME TypeOK, QueueInv, NEW w \in Workers, NEW l, pc' = [pc EXCEPT ![w] = l],
         Busy(w), pc[w] # "release", l \notin {"idle", "selected", "running", "release"},
         l = "cancelled" => cancel_requested[task[w]],
         l = "done" /\ Steady' => status[task[w]] # "processing",
         (Calm' => Calm) /\ (Steady' => Steady),
         UNCHANGED <<config, status, content, cancel_requested, sub, told, candidate, unadopted,
                     active_docs, task, input, handback, files>>
  PROVE  QueueInv'
  <1>1. /\ pc[w] # "idle" /\ pc'[w] = l
        /\ \A v \in Workers : v # w => pc'[v] = pc[v] /\ task'[v] = task[v] /\ input'[v] = input[v]
    BY Zenon DEF TypeOK, Busy
  <1>2. /\ task'[w] = task[w] /\ task[w] \in Subs /\ status[task[w]] # "none"
        /\ input'[w] = content[task[w]] /\ config.doc[task[w]] \in active_docs'
    BY Zenon, <1>1, Holder
  <1>3. \A v \in Workers : v # w /\ pc[v] # "idle" =>
            config.doc[task[v]] \in active_docs' /\ config.doc[task[w]] # config.doc[task[v]]
    <2>1. Apart
      BY Zenon DEF QueueInv
    <2>2. w \in Workers /\ pc[w] # "idle"
      BY Zenon, <1>1
    <2>3. \A v \in Workers : v # w /\ pc[v] # "idle" => config.doc[task[w]] # config.doc[task[v]]
      BY ONLY Zenon, <2>1, <2>2 DEF Apart
    <2> QED BY Zenon, <2>3, Holder
  <1>4. /\ pc'[w] \notin {"idle", "selected"} => Busy(w) /\ task'[w] = task[w]
        /\ pc'[w] \notin {"running", "release"}
        /\ pc'[w] = "cancelled" => cancel_requested[task'[w]]
    BY Zenon, <1>1, <1>2
  <1>5. Steady' /\ Busy(w) /\ pc[w] # "done" /\ status[task[w]] = "processing"
             => Busy(w)' /\ pc'[w] # "done"
    BY Zenon, <1>1 DEF Busy
  <1>6. pc'[w] # "idle" => /\ task'[w] \in Subs /\ status[task'[w]] # "none"
                           /\ input'[w] = content[task'[w]]
                           /\ config.doc[task'[w]] \in active_docs'
    BY Zenon, <1>2
  <1>7. \A v \in Workers : v # w /\ pc[v] # "idle" =>
             /\ config.doc[task[v]] \in active_docs'
             /\ pc'[w] # "idle" => config.doc[task'[w]] # config.doc[task[v]]
    BY Zenon, <1>2, <1>3
  <1> QED BY Zenon, <1>1, <1>4, <1>5, <1>6, <1>7, WorkerMoves

LEMMA OutcomeInv ==
  ASSUME TypeOK, QueueInv, NEW w \in Workers
  PROVE  \/ CancelObserved(w) \/ ParseFails(w) \/ ParseDocument(w) \/ ProcessParsedDoc(w)
         \/ ProcessParsedDocFails(w) \/ HandlerThrows(w) \/ PersistFails(w)
         => QueueInv'
  <1> DEFINE Kept == UNCHANGED <<config, status, content, cancel_requested, sub, told, candidate,
                                 unadopted, active_docs, task, input, handback, files>>
             To(l) == pc' = [pc EXCEPT ![w] = l]
             Fine == (Calm' => Calm) /\ (Steady' => Steady)
             At(L) == pc[w] \in L
  <1>1. ASSUME NEW l \in {"parsed"} \cup Terminal, To(l), At({"running", "parsed"}), Kept, Fine,
               l = "cancelled" => cancel_requested[task[w]]
        PROVE  QueueInv'
    <2>1. /\ l \notin {"idle", "selected", "running", "release"} /\ l # "done"
          /\ Busy(w) /\ pc[w] # "release"
      BY Zenon, <1>1 DEF Terminal, Busy
    <2> QED BY Zenon, <1>1, <2>1, AdvanceInv
  <1>2. ASSUME To("done"), At({"running", "parsed"} \cup Terminal), Kept, Fine, ~Steady'
        PROVE  QueueInv'
    <2>1. Busy(w) /\ pc[w] # "release"
      BY Zenon, <1>2 DEF Terminal, Busy
    <2> QED BY Zenon, <1>2, <2>1, AdvanceInv
  <1>3. CASE CancelObserved(w)
    <2>1. To("cancelled") /\ At({"running", "parsed"}) /\ cancel_requested[task[w]]
      BY Zenon, <1>3 DEF CancelObserved, Move, IsCancelRequested
    <2>2. Kept /\ Fine
      BY Zenon, <1>3, Undisturbing DEF CancelObserved, rowVars, schedVars, subVars
    <2>3. "cancelled" \in {"parsed"} \cup Terminal
      BY Zenon DEF Terminal
    <2> QED BY Zenon, <1>1, <2>1, <2>2, <2>3
  <1>4. CASE ParseFails(w) \/ ProcessParsedDocFails(w)
    <2>1. To("failed") /\ At({"running", "parsed"})
      BY Zenon, <1>4 DEF ParseFails, ProcessParsedDocFails, Move
    <2>2. Kept /\ Fine
      BY Zenon, <1>4, Undisturbing DEF ParseFails, ProcessParsedDocFails, rowVars, schedVars, subVars
    <2>3. "failed" \in {"parsed"} \cup Terminal
      BY Zenon DEF Terminal
    <2> QED BY Zenon, <1>1, <2>1, <2>2, <2>3
  <1>5. CASE ParseDocument(w)
    <2>1. To("parsed") /\ At({"running", "parsed"})
      BY Zenon, <1>5 DEF ParseDocument, Move
    <2>2. Kept /\ Fine
      BY Zenon, <1>5, Undisturbing DEF ParseDocument, rowVars, schedVars, subVars
    <2>3. "parsed" \in {"parsed"} \cup Terminal
      BY Zenon
    <2> QED BY Zenon, <1>1, <2>1, <2>2, <2>3
  <1>6. CASE ProcessParsedDoc(w)
    <2>1. To("completed") /\ At({"running", "parsed"})
      BY Zenon, <1>6 DEF ProcessParsedDoc, Move
    <2>2. Kept /\ Fine
      BY Zenon, <1>6, Undisturbing DEF ProcessParsedDoc, rowVars, schedVars, subVars
    <2>3. "completed" \in {"parsed"} \cup Terminal
      BY Zenon DEF Terminal
    <2> QED BY Zenon, <1>1, <2>1, <2>2, <2>3
  <1>7. CASE HandlerThrows(w)
    <2>1. To("done") /\ At({"running", "parsed"} \cup Terminal)
      BY Zenon, <1>7 DEF HandlerThrows
    <2>2. Kept
      BY Zenon, <1>7 DEF HandlerThrows, rowVars, schedVars, subVars
    <2>3. Fine /\ ~Steady'
      BY Zenon, <1>7, Disturbing DEF HandlerThrows, Kinds
    <2> QED BY Zenon, <1>2, <2>1, <2>2, <2>3
  <1>8. CASE PersistFails(w)
    <2>1. To("done") /\ At({"running", "parsed"} \cup Terminal)
      BY Zenon, <1>8 DEF PersistFails
    <2>2. Kept
      BY Zenon, <1>8 DEF PersistFails, rowVars, schedVars, subVars
    <2>3. Fine /\ ~Steady'
      BY Zenon, <1>8, Disturbing DEF PersistFails, Kinds
    <2> QED BY Zenon, <1>2, <2>1, <2>2, <2>3
  <1> QED BY Zenon, <1>3, <1>4, <1>5, <1>6, <1>7, <1>8

(* A worker writes the status of its row: nobody else works on it, and it  *)
(* was not handed back.                                                    *)
LEMMA WorkerWrites ==
  ASSUME TypeOK, QueueInv, NEW w \in Workers, NEW x, NEW l, pc[w] \notin {"idle", "release"},
         status[task[w]] \in Live, x \notin {"none", "queued", "cancelling"},
         \/ l = "running" /\ x = "processing" /\ pc[w] = "selected" /\ status[task[w]] = "queued"
         \/ l = "release" /\ x \in Terminal /\ Busy(w),
         status' = [status EXCEPT ![task[w]] = x], pc' = [pc EXCEPT ![w] = l],
         UNCHANGED <<config, content, cancel_requested, sub, told, candidate, unadopted,
                     active_docs, task, input, handback, files, faults>>
  PROVE  QueueInv'
  <1> DEFINE t == task[w]
  <1>0. l # "idle" /\ l # "cancelled"
    BY Zenon
  <1>1. /\ t \in Subs /\ status[t] # "none" /\ input[w] = content[t] /\ input[w] \in Subs
        /\ config.doc[t] \in active_docs
    BY Zenon, Holder
  <1>2. /\ status'[t] = x /\ \A u \in Subs : u # t => status'[u] = status[u]
        /\ pc'[w] = l /\ \A v \in Workers : v # w => pc'[v] = pc[v]
    BY Zenon, <1>1 DEF TypeOK
  <1>3. (Calm' => Calm) /\ (Steady' => Steady)
    BY Zenon, Undisturbing
  <1>4. \A v \in Workers : v # w /\ pc[v] # "idle" => task[v] # t
    <2>1. Apart
      BY Zenon DEF QueueInv
    <2>2. w \in Workers /\ pc[w] # "idle"
      BY Zenon
    <2> QED BY ONLY Zenon, <2>1, <2>2 DEF Apart
  <1>5. t \notin handback
    BY Zenon DEF QueueInv, Unstarted, Live
  <1>6. Rows' /\ (Untold /\ Arrived)'
    <2>1. \A u \in Subs : status'[u] = "none" <=> status[u] = "none"
      BY Zenon, <1>1, <1>2
    <2> QED BY Zenon, <2>1 DEF QueueInv, Rows, Untold, Arrived
  <1>7. Flags'
    <2>1. x = "processing" => status[t] = "queued"
      BY Zenon DEF Terminal
    <2> QED BY Zenon, <1>1, <1>2, <2>1 DEF QueueInv, Flags
  <1>8. Enqueuing'
    <2>1. \A u \in Subs : status[u] # "none" => status'[u] # "none"
      BY Zenon, <1>1, <1>2
    <2> QED BY Zenon, <2>1, RowFacts DEF QueueInv, Enqueuing, TypeOK
  <1>9. Working'
    <2> SUFFICES ASSUME NEW v \in Workers, pc'[v] # "idle"
                 PROVE  /\ task'[v] \in Subs /\ status'[task'[v]] # "none"
                        /\ input'[v] = content'[task'[v]]
                        /\ config'.doc[task'[v]] \in active_docs'
                        /\ Busy(v)' => status'[task'[v]] # "queued"
                        /\ pc'[v] = "release" => status'[task'[v]] \in Terminal \cup {"gone"}
                        /\ pc'[v] = "cancelled" => cancel_requested'[task'[v]]
      BY Zenon DEF Working, Busy
    <2>1. CASE v = w
      <3>1. l = "release" => x \in Terminal
        BY Zenon
      <3> QED BY Zenon, <1>0, <1>1, <1>2, <2>1, <3>1
    <2>2. CASE v # w
      <3>1. pc'[v] = pc[v] /\ pc[v] # "idle" /\ task[v] # t
        BY Zenon, <1>2, <1>4, <2>2
      <3>2. Working
        BY Zenon DEF QueueInv
      <3>3. /\ task[v] \in Subs /\ status[task[v]] # "none" /\ input[v] = content[task[v]]
            /\ config.doc[task[v]] \in active_docs
            /\ Busy(v) => status[task[v]] # "queued"
            /\ pc[v] = "release" => status[task[v]] \in Terminal \cup {"gone"}
            /\ pc[v] = "cancelled" => cancel_requested[task[v]]
        BY ONLY Zenon, <3>1, <3>2, v \in Workers DEF Working
      <3>4. status'[task[v]] = status[task[v]]
        BY Zenon, <1>2, <3>1, <3>3
      <3>5. UNCHANGED <<config, content, cancel_requested, active_docs, task, input>>
        OBVIOUS
      <3> QED BY ONLY Zenon, <3>1, <3>3, <3>4, <3>5 DEF Busy
    <2> QED BY Zenon, <2>1, <2>2
  <1>10. Apart'
    <2>1. \A v \in Workers : pc'[v] # "idle" => pc[v] # "idle"
      BY Zenon, <1>2
    <2>2. Apart /\ UNCHANGED <<config, task>>
      BY Zenon DEF QueueInv
    <2> QED BY ONLY Zenon, <2>1, <2>2 DEF Apart
  <1>11. Unstarted'
    <2> SUFFICES ASSUME NEW u \in handback
                 PROVE  /\ status'[u] \in {"cancelled", "gone"}
                        /\ \A v \in Workers : Busy(v)' => task'[v] # u
      BY Zenon DEF Unstarted
    <2>1. Unstarted /\ u \in Subs /\ u # t
      BY Zenon, <1>5 DEF QueueInv, TypeOK
    <2>2. /\ status[u] \in {"cancelled", "gone"}
          /\ \A v \in Workers : Busy(v) => task[v] # u
      BY ONLY Zenon, <2>1, u \in handback DEF Unstarted
    <2>3. \A v \in Workers : v # w => (Busy(v)' => Busy(v))
      BY Zenon, <1>2 DEF Busy
    <2> QED BY Zenon, <1>2, <2>1, <2>2, <2>3
  <1>12. InputPresent'
    <2>1. /\ \A u \in Subs : status[u] \in Live => content[u] \in files
          /\ \A v \in Workers : pc[v] = "running" => input[v] \in files
      BY Zenon DEF QueueInv, InputPresent
    <2>2. \A u \in Subs : status'[u] \in Live => status[u] \in Live
      BY Zenon, <1>1, <1>2
    <2>3. \A v \in Workers : pc'[v] = "running" => input[v] \in files
      BY Zenon, <1>1, <1>2, <2>1
    <2> QED BY Zenon, <2>1, <2>2, <2>3 DEF InputPresent
  <1>13. Tended'
    <2> SUFFICES ASSUME Calm', NEW f \in files' PROVE Owned(f)'
      BY Zenon DEF Tended
    <2>1. Owned(f)
      <3>1. Tended /\ Calm /\ f \in files
        BY Zenon, <1>3 DEF QueueInv
      <3> QED BY ONLY Zenon, <3>1 DEF Tended
    <2>2. CASE content[t] = f
      <3>1. CASE l = "running"
        <4>1. status'[t] \in Live /\ content'[t] = f
          BY Zenon, <1>2, <2>2, <3>1 DEF Live, Terminal
        <4> QED BY Zenon, <1>1, <4>1 DEF Owned
      <3>2. CASE l = "release"
        <4>1. pc'[w] = "release" /\ input'[w] = f
          BY Zenon, <1>1, <1>2, <2>2, <3>2
        <4> QED BY Zenon, <4>1 DEF Owned
      <3> QED BY Zenon, <3>1, <3>2
    <2>3. CASE content[t] # f
      <3>1. \A u \in Subs : content[u] = f => status'[u] = status[u]
        BY Zenon, <1>2, <2>3
      <3>2. \A v \in Workers : pc[v] = "release" /\ input[v] = f => pc'[v] = "release" /\ input'[v] = f
        BY Zenon, <1>2
      <3> QED BY Zenon, <2>1, <3>1, <3>2, OwnedKept
    <2> QED BY Zenon, <2>2, <2>3
  <1>14. Staffed'
    <2> SUFFICES ASSUME Steady', NEW u \in Subs, status'[u] = "processing"
                 PROVE  \E v \in Workers : Busy(v)' /\ pc'[v] # "done" /\ task'[v] = u
      BY Zenon DEF Staffed
    <2>1. CASE u = t
      <3>1. l = "running"
        BY Zenon, <1>2, <2>1 DEF Terminal
      <3> QED BY Zenon, <1>2, <2>1, <3>1 DEF Busy
    <2>2. CASE u # t
      <3>1. Staffed /\ Steady /\ status[u] = "processing" /\ u \in Subs
        BY Zenon, <1>2, <1>3, <2>2 DEF QueueInv
      <3>2. PICK v \in Workers : Busy(v) /\ pc[v] # "done" /\ task[v] = u
        BY ONLY Zenon, <3>1 DEF Staffed
      <3>3. v # w
        BY Zenon, <2>2, <3>2
      <3> QED BY Zenon, <1>2, <3>2, <3>3 DEF Busy
    <2> QED BY Zenon, <2>1, <2>2
  <1> QED BY Zenon, <1>6, <1>7, <1>8, <1>9, <1>10, <1>11, <1>12, <1>13, <1>14 DEF QueueInv

LEMMA ProcessingInv ==
  ASSUME TypeOK, QueueInv, NEW w \in Workers, MarkProcessing(w)
  PROVE  QueueInv'
  <1>1. /\ pc[w] = "selected" /\ status[task[w]] = "queued"
        /\ status' = [status EXCEPT ![task[w]] = "processing"]
        /\ pc' = [pc EXCEPT ![w] = "running"]
    BY Zenon DEF MarkProcessing, Move
  <1>2. UNCHANGED <<config, content, cancel_requested, sub, told, candidate, unadopted,
                    active_docs, task, input, handback, files, faults>>
    BY Zenon DEF MarkProcessing, subVars
  <1>3. status[task[w]] \in Live /\ pc[w] \notin {"idle", "release"}
    BY Zenon, <1>1 DEF Live
  <1>4. "processing" \notin {"none", "queued", "cancelling"}
    BY Zenon
  <1> QED BY Zenon, <1>1, <1>2, <1>3, <1>4, WorkerWrites

(* A refused finalizer means that the row is not processing any more: the  *)
(* outcomes that a processing row refuses need its cancellation first.     *)
LEMMA FinalizeInv ==
  ASSUME TypeOK, QueueInv, NEW w \in Workers, Finalize(w)
  PROVE  QueueInv'
  <1>1. UNCHANGED <<config, content, cancel_requested, sub, told, candidate, unadopted,
                    active_docs, task, input, handback, files, faults>>
    BY Zenon DEF Finalize, schedVars, subVars
  <1>2. pc[w] \in Terminal /\ pc[w] \notin {"idle", "release"} /\ Busy(w)
    BY Zenon DEF Finalize, Terminal, Busy
  <1>3. CASE /\ status[task[w]] \in AllowedFrom(pc[w])
             /\ status' = [status EXCEPT ![task[w]] = pc[w]]
             /\ pc' = [pc EXCEPT ![w] = "release"]
    <2>1. status[task[w]] \in Live /\ pc[w] \notin {"none", "queued", "cancelling"}
      BY Zenon, <1>2, <1>3 DEF AllowedFrom, Live, Terminal
    <2> QED BY Zenon, <1>1, <1>2, <1>3, <2>1, WorkerWrites
  <1>4. CASE /\ status[task[w]] \notin AllowedFrom(pc[w])
             /\ pc' = [pc EXCEPT ![w] = "done"] /\ UNCHANGED status
    <2>1. status[task[w]] # "processing"
      <3>1. CASE pc[w] = "cancelled"
        <4>1. task[w] \in Subs /\ cancel_requested[task[w]]
          BY Zenon, <1>2, <3>1, Holder DEF QueueInv, Working
        <4> QED BY Zenon, <4>1 DEF QueueInv, Flags
      <3>2. CASE pc[w] # "cancelled"
        BY Zenon, <1>4, <3>2 DEF AllowedFrom
      <3> QED BY Zenon, <3>1, <3>2
    <2>2. (Calm' => Calm) /\ (Steady' => Steady)
      BY Zenon, <1>1, Undisturbing
    <2>3. "done" \notin {"idle", "selected", "running", "release"} /\ "done" # "cancelled"
      BY Zenon
    <2> QED BY Zenon, <1>1, <1>2, <1>4, <2>1, <2>2, <2>3, AdvanceInv
  <1> QED BY Zenon, <1>3, <1>4 DEF Finalize

(* The file a finalizer removes belonged to its row only.                  *)
LEMMA ReleaseInv ==
  ASSUME TypeOK, QueueInv, NEW w \in Workers, ReleaseManagedInput(w)
  PROVE  QueueInv'
  <1> DEFINE t == task[w]
             f == input[w]
  <1>1. /\ pc[w] = "release" /\ pc'[w] = "done" /\ \A v \in Workers : v # w => pc'[v] = pc[v]
        /\ files' = Release(f, t)
    BY Zenon DEF ReleaseManagedInput, Move, TypeOK
  <1>2. UNCHANGED <<config, status, content, cancel_requested, sub, told, candidate, unadopted,
                    active_docs, task, input, handback, faults>>
    BY Zenon DEF ReleaseManagedInput, rowVars, schedVars, subVars
  <1>3. (Calm' => Calm) /\ (Steady' => Steady)
    BY Zenon, <1>2, Undisturbing
  <1>4. t \in Subs /\ f = content[t] /\ f \in Subs /\ told[f] = t /\ Busy(w)
    BY Zenon, <1>1, Holder DEF Busy
  <1>5. status[t] \in Terminal \cup {"gone"}
    BY Zenon, <1>1 DEF QueueInv, Working
  <1>6. status[t] \notin Live
    BY Zenon, <1>5 DEF Live, Terminal
  <1>7. files' = files \ {f}
    <2>1. f = t \/ status[f] = "none"
      BY Zenon, <1>4, RowOf
    <2> QED BY Zenon, <1>1, <2>1 DEF Release, Live
  <1>8. \A v \in Workers : v # w /\ pc[v] # "idle" => input[v] # f
    <2>1. Apart /\ w \in Workers /\ pc[w] # "idle"
      BY Zenon, <1>1 DEF QueueInv
    <2>2. \A v \in Workers : v # w /\ pc[v] # "idle" => task[v] # t
      BY ONLY Zenon, <2>1 DEF Apart
    <2> SUFFICES ASSUME NEW v \in Workers, v # w, pc[v] # "idle", input[v] = f PROVE FALSE
      BY Zenon
    <2>3. told[input[v]] = task[v]
      BY Zenon, Holder
    <2> QED BY Zenon, <1>4, <2>2, <2>3
  <1>9. \A x \in Subs : sub[x] \in {"input", "found", "error"} => x # f
    BY Zenon, <1>4, RowFacts DEF QueueInv, Untold
  <1>10. Rows' /\ (Untold /\ Flags /\ Enqueuing)'
    BY Zenon, <1>2, RowsKept DEF QueueInv, Untold, Flags, Enqueuing
  <1>11. Arrived'
    BY Zenon, <1>2, <1>7, <1>9 DEF QueueInv, Arrived
  <1>12. \A v \in Workers : /\ Busy(v)' <=> Busy(v)
                            /\ pc'[v] = "idle" <=> pc[v] = "idle"
                            /\ pc'[v] # "done" => pc'[v] = pc[v]
    BY Zenon, <1>1 DEF Busy
  <1>13. Working'
    <2>1. Working
      BY Zenon DEF QueueInv
    <2>2. \A v \in Workers : (pc'[v] = "release" => pc[v] = "release") /\ (pc'[v] = "cancelled" => pc[v] = "cancelled")
      BY Zenon, <1>12
    <2> QED BY ONLY Zenon, <1>2, <1>12, <2>1, <2>2 DEF Working
  <1>14. Apart'
    BY Zenon, <1>2, <1>12 DEF QueueInv, Apart
  <1>15. Unstarted'
    BY Zenon, <1>2, <1>12 DEF QueueInv, Unstarted
  <1>16. InputPresent'
    <2>1. /\ \A u \in Subs : status[u] \in Live => content[u] \in files
          /\ \A v \in Workers : pc[v] = "running" => input[v] \in files
      BY Zenon DEF QueueInv, InputPresent
    <2>2. \A u \in Subs : status[u] \in Live => content[u] # f
      BY Zenon, <1>4, <1>6, RowFacts
    <2>3. \A v \in Workers : pc'[v] = "running" => pc[v] = "running" /\ input[v] # f
      BY Zenon, <1>1, <1>8
    <2> QED BY Zenon, <1>2, <1>7, <2>1, <2>2, <2>3 DEF InputPresent
  <1>17. Tended'
    <2> SUFFICES ASSUME Calm', NEW g \in files' PROVE Owned(g)'
      BY Zenon DEF Tended
    <2>1. Owned(g) /\ g # f
      BY Zenon, <1>3, <1>7 DEF QueueInv, Tended
    <2>2. \A v \in Workers : pc[v] = "release" /\ input[v] = g => pc'[v] = "release" /\ input'[v] = g
      BY Zenon, <1>1, <1>2, <2>1
    <2> QED BY Zenon, <1>2, <2>1, <2>2, OwnedKept
  <1>18. Staffed'
    <2> SUFFICES ASSUME Steady', NEW u \in Subs, status[u] = "processing"
                 PROVE  \E v \in Workers : Busy(v)' /\ pc'[v] # "done" /\ task'[v] = u
      BY Zenon, <1>2 DEF Staffed
    <2>1. PICK v \in Workers : Busy(v) /\ pc[v] # "done" /\ task[v] = u
      BY Zenon, <1>3 DEF QueueInv, Staffed
    <2>2. v # w
      BY Zenon, <1>5, <2>1 DEF Terminal
    <2> QED BY Zenon, <1>1, <1>2, <1>12, <2>1, <2>2
  <1> QED BY Zenon, <1>10, <1>11, <1>13, <1>14, <1>15, <1>16, <1>17, <1>18 DEF QueueInv

(* A restart forgets the threads and keeps the inputs of live rows.        *)
LEMMA CrashInv ==
  ASSUME TypeOK, QueueInv, CrashRestart
  PROVE  QueueInv'
  <1>1. PICK fresh \in SUBSET Requeueable : status' = Requeue(fresh)
    BY Zenon DEF CrashRestart
  <1>2. PICK old \in SUBSET (files \ LiveTaskInputs) : files' = files \ old
    BY Zenon DEF CrashRestart
  <1>3. /\ \A v \in Workers : pc'[v] = "idle"
        /\ \A s \in Subs : /\ sub[s] \in {"input", "found", "handback", "error"} => sub'[s] = "refused"
                           /\ sub[s] \notin {"input", "found", "handback", "error"} => sub'[s] = sub[s]
        /\ handback' = {} /\ candidate' = None
        /\ UNCHANGED <<config, content, cancel_requested, told>>
    BY Zenon DEF CrashRestart, TypeOK
  <1>4. ~Calm' /\ ~Steady'
    BY Zenon, Disturbing DEF CrashRestart, Kinds
  <1>5. \A t \in Subs : /\ t \in fresh => status[t] = "processing" /\ status'[t] = "queued"
                        /\ t \notin fresh => status'[t] = status[t]
    BY Zenon, <1>1 DEF Requeue, Requeueable
  <1>6. \A s \in Subs : /\ sub'[s] \notin {"input", "found", "handback", "error"}
                        /\ sub'[s] = "idle" => sub[s] = "idle"
    BY Zenon, <1>3
  <1>7. \A t \in Subs : /\ status'[t] = "none" <=> status[t] = "none"
                        /\ status'[t] \in {"none", "queued", "processing"} => status[t] \in {"none", "queued", "processing"}
                        /\ status'[t] \in Live => status[t] \in Live
    BY Zenon, <1>5 DEF Live
  <1>8. Rows' /\ Flags'
    BY Zenon, <1>3, <1>7 DEF QueueInv, Rows, Flags
  <1>9. (Untold /\ Arrived)'
    BY Zenon, <1>3, <1>6 DEF QueueInv, Untold, Arrived
  <1>10. Enqueuing'
    BY Zenon, <1>3, <1>6 DEF Enqueuing
  <1>11. (Working /\ Apart /\ Unstarted)'
    BY Zenon, <1>3 DEF Working, Apart, Unstarted, Busy
  <1>12. InputPresent'
    <2>1. \A t \in Subs : status[t] \in Live => content[t] \in files /\ content[t] \in LiveTaskInputs
      BY Zenon DEF QueueInv, InputPresent, LiveTaskInputs
    <2> QED BY Zenon, <1>2, <1>3, <1>7, <2>1 DEF InputPresent
  <1>13. (Tended /\ Staffed)'
    BY Zenon, <1>4 DEF Tended, Staffed
  <1> QED BY Zenon, <1>8, <1>9, <1>10, <1>11, <1>12, <1>13 DEF QueueInv
-----------------------------------------------------------------------------
LEMMA QueueInit == Init => TypeOK /\ QueueInv
  <1> SUFFICES ASSUME Init PROVE TypeOK /\ QueueInv
    BY Zenon
  <1>1. TypeOK
    BY ConfigFacts DEF Init, TypeOK, Statuses, Docs
  <1>2. /\ \A s \in Subs : status[s] = "none" /\ content[s] = None /\ sub[s] = "idle"
                           /\ told[s] = None /\ cancel_requested[s] = FALSE
        /\ \A w \in Workers : pc[w] = "idle"
        /\ handback = {} /\ files = {} /\ candidate = None
    BY Zenon DEF Init
  <1>3. Rows /\ Untold /\ Arrived /\ Flags
    BY Zenon, <1>2 DEF Rows, Untold, Arrived, Flags
  <1>4. Enqueuing /\ Working /\ Apart /\ Unstarted
    BY Zenon, <1>2 DEF Enqueuing, Working, Apart, Unstarted, Busy
  <1>5. InputPresent /\ Tended /\ Staffed
    BY Zenon, <1>2 DEF InputPresent, Tended, Staffed, Live
  <1> QED BY Zenon, <1>1, <1>3, <1>4, <1>5 DEF QueueInv

LEMMA QueueStutters == TypeOK /\ QueueInv /\ UNCHANGED vars => QueueInv'
  <1> SUFFICES ASSUME TypeOK, QueueInv, UNCHANGED vars PROVE QueueInv'
    BY Zenon
  <1>1. UNCHANGED <<config, status, content, cancel_requested, sub, told, active_docs, candidate,
                    unadopted, pc, task, input, handback, files, faults>>
    BY Zenon DEF vars, rowVars, schedVars, subVars, workerVars
  <1>2. (Calm' => Calm) /\ (Steady' => Steady)
    BY Zenon, <1>1, Undisturbing
  <1>3. Flags' /\ Working' /\ Apart' /\ Unstarted' /\ Staffed'
    BY Zenon, <1>1, <1>2, WorkKept
  <1>4. Rows' /\ (Untold /\ Arrived /\ Enqueuing)'
    BY Zenon, <1>1, RowsKept DEF QueueInv, Untold, Arrived, Enqueuing
  <1>5. InputPresent'
    BY Zenon, <1>1 DEF QueueInv, InputPresent
  <1>6. Tended'
    BY Zenon, <1>1, <1>2 DEF QueueInv, Tended, Owned
  <1> QED BY Zenon, <1>3, <1>4, <1>5, <1>6 DEF QueueInv

LEMMA QueueStep == TypeOK /\ QueueInv /\ [Next]_vars => QueueInv'
  <1> SUFFICES ASSUME TypeOK, QueueInv, [Next]_vars PROVE QueueInv'
    BY Zenon
  <1>1. ASSUME NEW s \in Subs, Submitter(s) PROVE QueueInv'
    BY Zenon, <1>1, MaterializeInv, FindRecentInv, ClaimInv, RefreshInv, HandBackInv, CreateInv,
       InputReleaserInv DEF Submitter
  <1>2. ASSUME NEW s \in Subs,
               \/ CreateTaskFails(s) \/ RequestCancel(s) \/ CancelTaskReleases(s)
               \/ SweepZombies(s) \/ SweepTimedOut(s) \/ DeleteExpired(s)
        PROVE  QueueInv'
    BY Zenon, <1>2, RefusedInv, CancelInv, CancelReleasesInv, CronInv
  <1>3. ASSUME NEW w \in Workers, Process(w) PROVE QueueInv'
    BY Zenon, <1>3, ProcessingInv, LeaveInv, OutcomeInv, FinalizeInv, ReleaseInv DEF Process
  <1>4. ASSUME NEW w \in Workers, SelectOldestQueuedTask(w) \/ HandlerThrows(w) \/ PersistFails(w)
        PROVE  QueueInv'
    BY Zenon, <1>4, SelectInv, OutcomeInv
  <1>5. CASE CrashRestart
    BY Zenon, <1>5, CrashInv
  <1>6. CASE UNCHANGED vars
    BY Zenon, <1>6, QueueStutters
  <1> QED BY Zenon, <1>1, <1>2, <1>3, <1>4, <1>5, <1>6 DEF Next

(* Every variable keeps its type, and the scheduler's mutex has one holder.*)
THEOREM TypeCorrect == Spec => []TypeOK
  <1>1. Init => TypeOK
    BY Zenon, QueueInit
  <1> QED BY <1>1, TypeStep, PTL DEF Spec

(* The corresponding rows, inputs, reservations and owners, in every       *)
(* reachable state.                                                        *)
THEOREM QueueInvariant == Spec => [](TypeOK /\ QueueInv)
  <1>1. Init => TypeOK /\ QueueInv
    BY Zenon, QueueInit
  <1>2. (TypeOK /\ QueueInv) /\ [Next]_vars => (TypeOK /\ QueueInv)'
    BY Zenon, TypeStep, QueueStep
  <1> QED BY <1>1, <1>2, PTL DEF Spec

(* Two worker threads never process one document at a time: active_docs_   *)
(* keeps them apart whatever is cancelled, swept, requeued or resubmitted. *)
THEOREM OneWorker == Spec => []OneWorkerPerDoc
  <1>1. QueueInv => OneWorkerPerDoc
    BY Zenon DEF QueueInv, Apart, OneWorkerPerDoc, Busy
  <1> QED BY <1>1, QueueInvariant, PTL

(* No merge, refresh, cancel, finalizer or restart removes an input that a *)
(* live row or a parsing worker needs, and in a calm run none is leaked.   *)
THEOREM Inputs == Spec => []InputLifetime
  <1>1. TypeOK /\ QueueInv => InputLifetime
    <2> SUFFICES ASSUME TypeOK, QueueInv, Quiet, Calm PROVE files = LiveTaskInputs
      BY Zenon DEF QueueInv, InputLifetime, InputsReclaimed, Calm
    <2>1. \A t \in Subs : status[t] \in Live => content[t] \in files
      BY Zenon DEF QueueInv, InputPresent
    <2>2. LiveTaskInputs \subseteq files
      BY Zenon, <2>1 DEF LiveTaskInputs
    <2>3. ASSUME NEW f \in files PROVE f \in LiveTaskInputs
      <3>1. Owned(f) /\ f \in Subs
        BY Zenon DEF QueueInv, Tended, TypeOK
      <3>2. \E t \in Subs : status[t] \in Live /\ content[t] = f
        BY Zenon, <3>1 DEF Owned, Quiet
      <3> QED BY Zenon, <3>2 DEF LiveTaskInputs
    <2> QED BY Zenon, <2>2, <2>3
  <1> QED BY <1>1, QueueInvariant, PTL

(* The rows a step may change.                                             *)
LEMMA StatusStep ==
  ASSUME TypeOK, QueueInv, [Next]_vars
  PROVE  /\ \A s \in Subs : told'[s] # told[s]
              => status'[told'[s]] \in {"queued", "processing", "completed"}
         /\ \A t \in Subs : status[t] \in Terminal => status'[t] \in {status[t], "gone"}
  <1> DEFINE Told == \A s \in Subs : told'[s] # told[s]
                        => status'[told'[s]] \in {"queued", "processing", "completed"}
             Ends == \A t \in Subs : status[t] \in Terminal => status'[t] \in {status[t], "gone"}
  <1>1. ASSUME UNCHANGED <<status, told>> PROVE Told /\ Ends
    BY Zenon, <1>1
  <1>2. ASSUME UNCHANGED told, NEW t \in Subs, NEW x, status' = [status EXCEPT ![t] = x],
               status[t] \notin Terminal \/ x = "gone"
        PROVE  Told /\ Ends
    <2>1. status'[t] = x /\ \A u \in Subs : u # t => status'[u] = status[u]
      BY Zenon, <1>2 DEF TypeOK
    <2> QED BY Zenon, <1>2, <2>1
  <1>3. ASSUME UNCHANGED status, NEW s \in Subs, told' = [told EXCEPT ![s] = candidate],
               Eligible(candidate)
        PROVE  Told /\ Ends
    <2>1. told'[s] = candidate /\ \A u \in Subs : u # s => told'[u] = told[u]
      BY Zenon, <1>3 DEF TypeOK
    <2> QED BY Zenon, <1>3, <2>1 DEF Eligible
  <1>4. ASSUME NEW s \in Subs, Submitter(s) PROVE Told /\ Ends
    <2>1. CASE Materialize(s) \/ FindRecentTaskByDocId(s) \/ ReleaseUnadoptedInput(s) \/ InputReleaser(s)
      <3>1. UNCHANGED <<status, told>>
        BY Zenon, <2>1 DEF Materialize, FindRecentTaskByDocId, ReleaseUnadoptedInput, InputReleaser,
           rowVars, subVars
      <3> QED BY Zenon, <1>1, <3>1
    <2>2. CASE TryClaimDebounceMerge(s)
      <3>1. UNCHANGED status /\ told' = [told EXCEPT ![s] = candidate] /\ Eligible(candidate)
        BY Zenon, <2>2 DEF TryClaimDebounceMerge, Claimable, Accept, rowVars
      <3> QED BY Zenon, <1>3, <3>1
    <2>3. CASE UpdateTaskForDebounce(s)
      <3>1. UNCHANGED status /\ told' = [told EXCEPT ![s] = candidate] /\ Eligible(candidate)
        BY Zenon, <2>3 DEF UpdateTaskForDebounce, Refreshable, Eligible, Accept
      <3> QED BY Zenon, <1>3, <3>1
    <2>4. CASE CreateTask(s)
      <3>1. sub[s] = "found" /\ told' = [told EXCEPT ![s] = s] /\ status' = [status EXCEPT ![s] = "queued"]
        BY Zenon, <2>4 DEF CreateTask, NeedsRow, Accept
      <3>2. /\ told'[s] = s /\ \A u \in Subs : u # s => told'[u] = told[u]
            /\ status'[s] = "queued" /\ \A u \in Subs : u # s => status'[u] = status[u]
        BY Zenon, <3>1 DEF TypeOK
      <3>3. status[s] = "none"
        <4>1. told[s] = None
          BY Zenon, <3>1 DEF QueueInv, Untold
        <4> QED BY Zenon, <4>1, RowFacts
      <3>4. status[s] \notin Terminal
        BY Zenon, <3>3 DEF Terminal
      <3> QED BY Zenon, <3>2, <3>4
    <2> QED BY Zenon, <1>4, <2>1, <2>2, <2>3, <2>4 DEF Submitter
  <1>5. ASSUME NEW s \in Subs,
               \/ CreateTaskFails(s) \/ RequestCancel(s) \/ CancelTaskReleases(s)
               \/ SweepZombies(s) \/ SweepTimedOut(s) \/ DeleteExpired(s)
        PROVE  Told /\ Ends
    <2>1. CASE CreateTaskFails(s) \/ CancelTaskReleases(s)
      <3>1. UNCHANGED <<status, told>>
        BY Zenon, <2>1 DEF CreateTaskFails, CancelTaskReleases, rowVars, subVars
      <3> QED BY Zenon, <1>1, <3>1
    <2>2. CASE RequestCancel(s)
      <3>1. /\ UNCHANGED told /\ status[s] \notin Terminal
            /\ \E x : status' = [status EXCEPT ![s] = x]
        BY Zenon, <2>2 DEF RequestCancel, subVars, Terminal
      <3> QED BY Zenon, <1>2, <3>1
    <2>3. CASE SweepZombies(s) \/ SweepTimedOut(s)
      <3>1. UNCHANGED told /\ status[s] \notin Terminal /\ status' = [status EXCEPT ![s] = "failed"]
        BY Zenon, <2>3 DEF SweepZombies, SweepTimedOut, Fail, subVars, Terminal
      <3> QED BY Zenon, <1>2, <3>1
    <2>4. CASE DeleteExpired(s)
      <3>1. UNCHANGED told /\ status' = [status EXCEPT ![s] = "gone"]
        BY Zenon, <2>4 DEF DeleteExpired, subVars
      <3> QED BY Zenon, <1>2, <3>1
    <2> QED BY Zenon, <1>5, <2>1, <2>2, <2>3, <2>4
  <1>6. ASSUME NEW w \in Workers,
               SelectOldestQueuedTask(w) \/ Process(w) \/ HandlerThrows(w) \/ PersistFails(w)
        PROVE  Told /\ Ends
    <2>1. CASE \/ SelectOldestQueuedTask(w) \/ MarkProcessingConflicts(w) \/ CancelObserved(w)
               \/ ParseFails(w) \/ ParseDocument(w) \/ ProcessParsedDoc(w) \/ ProcessParsedDocFails(w)
               \/ HandlerThrows(w) \/ PersistFails(w) \/ ReleaseManagedInput(w) \/ OnTaskCompleted(w)
      <3>1. UNCHANGED <<status, told>>
        BY Zenon, <2>1 DEF SelectOldestQueuedTask, MarkProcessingConflicts, CancelObserved, ParseFails,
           ParseDocument, ProcessParsedDoc, ProcessParsedDocFails, HandlerThrows, PersistFails,
           ReleaseManagedInput, OnTaskCompleted, rowVars, subVars
      <3> QED BY Zenon, <1>1, <3>1
    <2>2. CASE MarkProcessing(w)
      <3>1. /\ UNCHANGED told /\ pc[w] # "idle" /\ status[task[w]] \notin Terminal
            /\ status' = [status EXCEPT ![task[w]] = "processing"]
        BY Zenon, <2>2 DEF MarkProcessing, Move, subVars, Terminal
      <3>2. task[w] \in Subs
        BY Zenon, <3>1, Holder
      <3> QED BY Zenon, <1>2, <3>1, <3>2
    <2>3. CASE Finalize(w)
      <3>1. UNCHANGED told /\ pc[w] # "idle"
        BY Zenon, <2>3 DEF Finalize, subVars, Terminal
      <3>2. task[w] \in Subs
        BY Zenon, <3>1, Holder
      <3>3. CASE UNCHANGED status
        BY Zenon, <1>1, <3>1, <3>3
      <3>4. CASE status[task[w]] \in AllowedFrom(pc[w]) /\ status' = [status EXCEPT ![task[w]] = pc[w]]
        <4>1. status[task[w]] \notin Terminal
          BY Zenon, <3>4 DEF AllowedFrom, Terminal
        <4> QED BY Zenon, <1>2, <3>1, <3>2, <3>4, <4>1
      <3> QED BY Zenon, <2>3, <3>3, <3>4 DEF Finalize
    <2> QED BY Zenon, <1>6, <2>1, <2>2, <2>3 DEF Process
  <1>7. CASE CrashRestart
    <2>1. PICK fresh \in SUBSET Requeueable : status' = Requeue(fresh)
      BY Zenon, <1>7 DEF CrashRestart
    <2>2. \A t \in Subs : status[t] \in Terminal => status'[t] = status[t]
      BY Zenon, <2>1 DEF Requeue, Requeueable, Terminal
    <2>3. UNCHANGED told
      BY Zenon, <1>7 DEF CrashRestart
    <2> QED BY Zenon, <2>2, <2>3
  <1>8. CASE UNCHANGED vars
    <2>1. UNCHANGED <<status, told>>
      BY Zenon, <1>8 DEF vars, rowVars, subVars
    <2> QED BY Zenon, <1>1, <2>1
  <1> QED BY Zenon, <1>4, <1>5, <1>6, <1>7, <1>8 DEF Next

(* Enqueue hands out only tasks that can still carry the content, and no   *)
(* cancel, sweep, finalizer or restart changes a terminal row except that  *)
(* the cron deletes it.                                                    *)
THEOREM TerminalKept == Spec => StatusSteps
  <1>1. TypeOK /\ QueueInv /\ [Next]_vars =>
          [/\ \A s \in Subs : told'[s] # told[s]
                => status'[told'[s]] \in {"queued", "processing", "completed"}
           /\ \A t \in Subs : status[t] \in Terminal
                => status'[t] \in {status[t], "gone"}]_vars
    BY Zenon, StatusStep
  <1> QED BY <1>1, QueueInvariant, PTL DEF Spec, StatusSteps
=============================================================================
