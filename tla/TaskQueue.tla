------------------------------ MODULE TaskQueue ------------------------------
(***************************************************************************)
(* The asynchronous ingest queue: BatchSubmitService materialises the      *)
(* content of a submission into an input file, TaskScheduler merges it     *)
(* into a recent task, refreshes a queued one or creates a row, the        *)
(* WorkerPool threads dequeue and process, callers cancel, the cleanup     *)
(* cron sweeps, and a restart re-queues what the last run left.            *)
(*                                                                         *)
(* Two locks matter.  The scheduler's mutex covers Enqueue and Dequeue;    *)
(* the task manager's covers one SQL statement.  A cancel, a finalizer     *)
(* and the cron take only the second, so they run between the steps of an  *)
(* Enqueue or a Dequeue: each statement is an action here.                 *)
(*                                                                         *)
(* A submission stands for its input file (a fresh ULID name), its content *)
(* and, when it creates a row, for that row's task id.                     *)
(***************************************************************************)
EXTENDS Naturals, Sequences, FiniteSets

CONSTANTS Subs,      \* submissions
          Workers,   \* threads of the WorkerPool
          None,      \* no task, no submission, mutex free
          Configs    \* workloads: see ConfigAssumption

Kinds == {"cancel", "sweep", "throw", "enqueue", "persist", "crash",
          "expire"}

ASSUME ConfigAssumption ==
    /\ None \notin Subs \cup Workers
    /\ Subs \cap Workers = {}
    /\ \A c \in Configs :
        /\ c.subs \subseteq Subs     \* the submissions that arrive
        /\ DOMAIN c.doc = Subs       \* the (namespace, doc_id) submitted
        /\ DOMAIN c.hash = Subs      \* its content_hash
        /\ c.max \in [Kinds -> Nat]  \* how often each disturbance happens

VARIABLES config,           \* the workload of this behaviour
          status,           \* tasks.status; "none" before, "gone" after the row
          content,          \* whose content_hash and filepath the row carries
          cancel_requested, \* tasks.cancel_requested
          order,            \* task ids by created_at
          recent,           \* rows created within the debounce window
          active_docs,      \* TaskScheduler::active_docs_
          mutex,            \* holder of TaskScheduler::mutex_
          candidate,        \* Enqueue's snapshot: the recent task, or None
          unadopted,        \* the input Enqueue is about to hand back
          sub,              \* where each submission is
          told,             \* the task id its caller was given
          pc,               \* where each worker is
          task,             \* the task it dequeued
          input,            \* the filepath of its copy of the row
          handback,         \* cancelled tasks whose input CancelTask releases
          files,            \* input files that exist
          stored,           \* per submission: tasks that wrote its content
          current,          \* per document: the submission last written
          latest,           \* per document: the submission last accepted
          faults            \* disturbances so far

rowVars == <<status, content, cancel_requested, order, recent>>
schedVars == <<active_docs, mutex, candidate, unadopted>>
subVars == <<sub, told, latest>>
workerVars == <<pc, task, input>>
dataVars == <<stored, current>>
vars == <<config, rowVars, schedVars, subVars, workerVars, handback, files,
          dataVars, faults>>

Docs == {config.doc[s] : s \in Subs}
Live == {"queued", "processing", "cancelling"}
Terminal == {"completed", "failed", "cancelled"}
Statuses == {"none", "gone"} \cup Live \cup Terminal

Disturb(k) == /\ faults[k] < config.max[k]
              /\ faults' = [faults EXCEPT ![k] = @ + 1]

----------------------------------------------------------------------------
(* ReleaseInputIfUnreferenced: remove the file unless another live row     *)
(* has it as its filepath_canonical.  That column is resolved when the row *)
(* is created and never again, so it names the row's first input.          *)

ReleaseCountsOwn(f, exclude) ==
    IF status[f] \in Live THEN files ELSE files \ {f}

Release(f, exclude) ==
    IF f # exclude /\ status[f] \in Live THEN files ELSE files \ {f}

----------------------------------------------------------------------------
(* Submission.                                                             *)

(* MaterializeContent: a server-minted name, never shared. *)
Materialize(s) ==
    /\ sub[s] = "idle" /\ s \in config.subs
    /\ sub' = [sub EXCEPT ![s] = "input"]
    /\ files' = files \cup {s}
    /\ UNCHANGED <<config, rowVars, schedVars, told, latest, workerVars,
                   handback, dataVars, faults>>

(* The newest row of the document that is neither cancelled, cancelling    *)
(* nor failed, unless the debounce window has passed it.                   *)
Eligible(t) == status[t] \in {"queued", "processing", "completed"}

Newest(S) == {order[i] : i \in {i \in DOMAIN order :
                  order[i] \in S /\ \A j \in i+1..Len(order) : order[j] \notin S}}

Recent(d) ==
    {None} \cup Newest({t \in recent : config.doc[t] = d /\ Eligible(t)})

FindRecentUnlocked(s) ==
    /\ sub[s] = "input"
    /\ mutex' = s
    /\ candidate' \in Recent(config.doc[s])
    /\ sub' = [sub EXCEPT ![s] = "found"]
    /\ UNCHANGED <<config, rowVars, active_docs, unadopted, told, latest,
                   workerVars, handback, files, dataVars, faults>>

FindRecentTaskByDocId(s) ==
    /\ sub[s] = "input" /\ mutex = None
    /\ mutex' = s
    /\ candidate' \in Recent(config.doc[s])
    /\ sub' = [sub EXCEPT ![s] = "found"]
    /\ UNCHANGED <<config, rowVars, active_docs, unadopted, told, latest,
                   workerVars, handback, files, dataVars, faults>>

SameContent(s) == /\ candidate # None
                  /\ config.hash[content[candidate]] = config.hash[s]

(* TryClaimDebounceMerge and UpdateTaskForDebounce re-check the row. *)
ClaimableStale(s) == SameContent(s)

Claimable(s) == SameContent(s) /\ Eligible(candidate)
Refreshable(s) == /\ candidate # None /\ ~ SameContent(s)
                  /\ status[candidate] = "queued"

Accept(s, t) == /\ told' = [told EXCEPT ![s] = t]
                /\ latest' = [latest EXCEPT ![config.doc[s]] = s]

TryClaimDebounceMerge(s) ==
    /\ sub[s] = "found" /\ Claimable(s)
    /\ Accept(s, candidate)
    /\ unadopted' = s
    /\ sub' = [sub EXCEPT ![s] = "handback"]
    /\ UNCHANGED <<config, rowVars, active_docs, mutex, candidate, workerVars,
                   handback, files, dataVars, faults>>

UpdateTaskForDebounce(s) ==
    /\ sub[s] = "found" /\ Refreshable(s)
    /\ Accept(s, candidate)
    /\ unadopted' = content[candidate]
    /\ content' = [content EXCEPT ![candidate] = s]
    /\ cancel_requested' = [cancel_requested EXCEPT ![candidate] = FALSE]
    /\ sub' = [sub EXCEPT ![s] = "handback"]
    /\ UNCHANGED <<config, status, order, recent, active_docs, mutex, candidate,
                   workerVars, handback, files, dataVars, faults>>

ReleaseUnadoptedInput(s) ==
    /\ sub[s] = "handback"
    /\ files' = Release(unadopted, candidate)
    /\ sub' = [sub EXCEPT ![s] = "answered"]
    /\ mutex' = None /\ candidate' = None /\ unadopted' = None
    /\ UNCHANGED <<config, rowVars, active_docs, told, latest, workerVars,
                   handback, dataVars, faults>>

NeedsRow(s) == sub[s] = "found" /\ ~ Claimable(s) /\ ~ Refreshable(s)

CreateTask(s) ==
    /\ NeedsRow(s)
    /\ status' = [status EXCEPT ![s] = "queued"]
    /\ content' = [content EXCEPT ![s] = s]
    /\ order' = Append(order, s) /\ recent' = recent \cup {s}
    /\ Accept(s, s)
    /\ sub' = [sub EXCEPT ![s] = "answered"]
    /\ mutex' = None /\ candidate' = None
    /\ UNCHANGED <<config, cancel_requested, active_docs, unadopted,
                   workerVars, handback, files, dataVars, faults>>

(* The row cannot be written: Enqueue answers an error ... *)
CreateTaskFails(s) ==
    /\ NeedsRow(s) /\ Disturb("enqueue")
    /\ sub' = [sub EXCEPT ![s] = "error"]
    /\ mutex' = None /\ candidate' = None
    /\ UNCHANGED <<config, rowVars, active_docs, unadopted, told, latest,
                   workerVars, handback, files, dataVars>>

(* ... and Submit hands the input back. *)
InputReleaser(s) ==
    /\ sub[s] = "error"
    /\ files' = Release(s, None)
    /\ sub' = [sub EXCEPT ![s] = "refused"]
    /\ UNCHANGED <<config, rowVars, schedVars, told, latest, workerVars,
                   handback, dataVars, faults>>

Submitter(s) == \/ Materialize(s) \/ FindRecentTaskByDocId(s)
                \/ TryClaimDebounceMerge(s) \/ UpdateTaskForDebounce(s)
                \/ ReleaseUnadoptedInput(s) \/ CreateTask(s)
                \/ InputReleaser(s)
----------------------------------------------------------------------------
(* Cancellation.                                                           *)

(* RequestCancel of a queued row ends it; CancelTask then releases the     *)
(* input.  Of a processing row it only raises the flag.                    *)
RequestCancelAtOnce(t) ==
    /\ status[t] \in {"queued", "processing"} /\ Disturb("cancel")
    /\ status' = [status EXCEPT ![t] = "cancelled"]
    /\ cancel_requested' = [cancel_requested EXCEPT ![t] = TRUE]
    /\ handback' = IF status[t] = "queued" THEN handback \cup {t} ELSE handback
    /\ UNCHANGED <<config, content, order, recent, schedVars, subVars,
                   workerVars, files, dataVars>>

RequestCancel(t) ==
    /\ status[t] \in {"queued", "processing"} /\ Disturb("cancel")
    /\ status' = [status EXCEPT ![t] = IF @ = "queued" THEN "cancelled"
                                                       ELSE "cancelling"]
    /\ cancel_requested' = [cancel_requested EXCEPT ![t] = TRUE]
    /\ handback' = IF status[t] = "queued" THEN handback \cup {t} ELSE handback
    /\ UNCHANGED <<config, content, order, recent, schedVars, subVars,
                   workerVars, files, dataVars>>

CancelTaskReleases(t) ==
    /\ t \in handback
    /\ handback' = handback \ {t}
    /\ files' = Release(content[t], t)
    /\ UNCHANGED <<config, rowVars, schedVars, subVars, workerVars, dataVars,
                   faults>>

----------------------------------------------------------------------------
(* A worker.                                                               *)

Move(w, from, to) == pc[w] = from /\ pc' = [pc EXCEPT ![w] = to]

(* Dequeue, first half: the oldest queued row of a document nobody holds. *)
QueuedAny == {t \in Subs : status[t] = "queued"}

Queued == {t \in Subs : /\ status[t] = "queued"
                        /\ config.doc[t] \notin active_docs}

Oldest(S) == {order[i] : i \in {i \in DOMAIN order :
                  order[i] \in S /\ \A j \in 1..i-1 : order[j] \notin S}}

SelectOldestQueuedTask(w) ==
    /\ Move(w, "idle", "selected") /\ mutex = None
    /\ \E t \in Oldest(Queued) :
        /\ task' = [task EXCEPT ![w] = t]
        /\ input' = [input EXCEPT ![w] = content[t]]
        /\ active_docs' = active_docs \cup {config.doc[t]}
    /\ mutex' = w
    /\ UNCHANGED <<config, rowVars, candidate, unadopted, subVars, handback,
                   files, dataVars, faults>>

(* Second half: the row may have been cancelled in between. *)
MarkProcessing(w) ==
    /\ Move(w, "selected", "running")
    /\ status[task[w]] = "queued"
    /\ status' = [status EXCEPT ![task[w]] = "processing"]
    /\ mutex' = None
    /\ UNCHANGED <<config, content, cancel_requested, order, recent,
                   active_docs, candidate, unadopted, subVars, task, input, handback,
                   files, dataVars, faults>>

MarkProcessingConflicts(w) ==
    /\ Move(w, "selected", "idle")
    /\ status[task[w]] # "queued"
    /\ active_docs' = active_docs \ {config.doc[task[w]]}
    /\ task' = [task EXCEPT ![w] = None] /\ input' = [input EXCEPT ![w] = None]
    /\ mutex' = None
    /\ UNCHANGED <<config, rowVars, candidate, unadopted, subVars, handback,
                   files, dataVars, faults>>

(* The per-page checkpoint, and the re-check after the last page. *)
IsCancelRequested(w) == /\ status[task[w]] # "gone"
                        /\ cancel_requested[task[w]]

CancelObserved(w) ==
    /\ Move(w, "running", "cancelled") /\ IsCancelRequested(w)
    /\ UNCHANGED <<config, rowVars, schedVars, subVars, task, input, handback,
                   files, dataVars, faults>>

ParseFails(w) ==
    /\ Move(w, "running", "failed")
    /\ UNCHANGED <<config, rowVars, schedVars, subVars, task, input, handback,
                   files, dataVars, faults>>

ParseDocument(w) ==
    /\ Move(w, "running", "parsed")
    /\ input[w] \in files /\ ~ IsCancelRequested(w)
    /\ UNCHANGED <<config, rowVars, schedVars, subVars, task, input, handback,
                   files, dataVars, faults>>

(* The shared post-parse stages; no cancel checkpoint from here on. *)
ProcessParsedDoc(w) ==
    /\ Move(w, "parsed", "completed")
    /\ stored' = [stored EXCEPT ![input[w]] = @ \cup {task[w]}]
    /\ current' = [current EXCEPT ![config.doc[task[w]]] = input[w]]
    /\ UNCHANGED <<config, rowVars, schedVars, subVars, task, input, handback,
                   files, faults>>

ProcessParsedDocFails(w) ==
    /\ Move(w, "parsed", "failed")
    /\ UNCHANGED <<config, rowVars, schedVars, subVars, task, input, handback,
                   files, dataVars, faults>>

(* A handler that throws: the worker survives, the row is left alone. *)
HandlerThrows(w) ==
    /\ pc[w] \in {"running", "parsed"} /\ Disturb("throw")
    /\ pc' = [pc EXCEPT ![w] = "done"]
    /\ UNCHANGED <<config, rowVars, schedVars, subVars, task, input, handback,
                   files, dataVars>>

(* MarkCompleted, MarkFailed and MarkCancelled: the states each accepts. *)
AllowedFromAny(outcome) == Live \cup Terminal

AllowedFrom(outcome) ==
    IF outcome = "cancelled" THEN {"queued", "cancelling"}
                             ELSE {"processing", "cancelling"}

(* A finalizer persists the outcome and, only if the row took it, gives up *)
(* the input.                                                              *)
Finalize(w) ==
    /\ pc[w] \in Terminal
    /\ \/ /\ status[task[w]] \in AllowedFrom(pc[w])
          /\ status' = [status EXCEPT ![task[w]] = pc[w]]
          /\ pc' = [pc EXCEPT ![w] = "release"]
       \/ /\ status[task[w]] \notin AllowedFrom(pc[w])
          /\ pc' = [pc EXCEPT ![w] = "done"]
          /\ UNCHANGED status
    /\ UNCHANGED <<config, content, cancel_requested, order, recent, schedVars,
                   subVars, task, input, handback, files, dataVars, faults>>

PersistFailsReleases(w) ==
    /\ pc[w] \in Terminal /\ Disturb("persist")
    /\ pc' = [pc EXCEPT ![w] = "release"]
    /\ UNCHANGED <<config, rowVars, schedVars, subVars, task, input, handback,
                   files, dataVars>>

PersistFails(w) ==
    /\ pc[w] \in Terminal /\ Disturb("persist")
    /\ pc' = [pc EXCEPT ![w] = "done"]
    /\ UNCHANGED <<config, rowVars, schedVars, subVars, task, input, handback,
                   files, dataVars>>

ReleaseManagedInput(w) ==
    /\ Move(w, "release", "done")
    /\ files' = Release(input[w], task[w])
    /\ UNCHANGED <<config, rowVars, schedVars, subVars, task, input, handback,
                   dataVars, faults>>

OnTaskCompletedLeaks(w) ==
    /\ Move(w, "done", "idle") /\ mutex = None
    /\ task' = [task EXCEPT ![w] = None] /\ input' = [input EXCEPT ![w] = None]
    /\ UNCHANGED <<config, rowVars, schedVars, subVars, handback, files,
                   dataVars, faults>>

OnTaskCompleted(w) ==
    /\ Move(w, "done", "idle") /\ mutex = None
    /\ active_docs' = active_docs \ {config.doc[task[w]]}
    /\ task' = [task EXCEPT ![w] = None] /\ input' = [input EXCEPT ![w] = None]
    /\ UNCHANGED <<config, rowVars, mutex, candidate, unadopted, subVars,
                   handback, files, dataVars, faults>>

Process(w) == \/ MarkProcessing(w) \/ MarkProcessingConflicts(w)
              \/ CancelObserved(w) \/ ParseFails(w) \/ ParseDocument(w)
              \/ ProcessParsedDoc(w) \/ ProcessParsedDocFails(w)
              \/ Finalize(w) \/ ReleaseManagedInput(w) \/ OnTaskCompleted(w)
----------------------------------------------------------------------------
(* The cleanup cron.  Its ages (30 minutes, a day, 30 days) are far beyond *)
(* the debounce window (5 seconds), so no row is recent any more.          *)

Held(t) == \E w \in Workers : task[w] = t /\ pc[w] # "done"

Fail(t) ==
    /\ status[t] = "processing"
    /\ status' = [status EXCEPT ![t] = "failed"] /\ recent' = {}
    /\ UNCHANGED <<config, content, cancel_requested, order, schedVars,
                   subVars, workerVars, handback, files, dataVars>>

(* A row nobody works on stops being updated, so it ages out ... *)
SweepZombies(t) == /\ ~ Held(t) /\ Fail(t)
                   /\ UNCHANGED faults

(* ... and a row whose worker is merely slow exceeds the task timeout. *)
SweepTimedOut(t) == Held(t) /\ Fail(t) /\ Disturb("sweep")

DeleteExpired(t) ==
    /\ status[t] \in Terminal /\ Disturb("expire")
    /\ status' = [status EXCEPT ![t] = "gone"] /\ recent' = {}
    /\ UNCHANGED <<config, content, cancel_requested, order, schedVars,
                   subVars, workerVars, handback, files, dataVars>>

----------------------------------------------------------------------------
(* A crash and the next start: RequeueStaleProcessing takes back the rows  *)
(* updated recently, SweepOrphanedBatchInputs removes the files, past the  *)
(* grace window, that no live row names.                                   *)

Requeue(fresh) == [t \in Subs |-> IF t \in fresh THEN "queued" ELSE status[t]]

Requeueable == {t \in Subs : status[t] = "processing"}

LiveTaskInputs == {content[t] : t \in {u \in Subs : status[u] \in Live}}

CrashRestart ==
    /\ Disturb("crash")
    /\ \E fresh \in SUBSET Requeueable :
        /\ status' = Requeue(fresh)
        /\ recent' = IF fresh = Requeueable THEN recent ELSE {}
    /\ \E old \in SUBSET (files \ LiveTaskInputs) : files' = files \ old
    /\ sub' = [s \in Subs |-> IF sub[s] \in {"input", "found", "handback",
                                             "error"}
                              THEN "refused" ELSE sub[s]]
    /\ pc' = [w \in Workers |-> "idle"]
    /\ task' = [w \in Workers |-> None] /\ input' = [w \in Workers |-> None]
    /\ active_docs' = {} /\ handback' = {}
    /\ mutex' = None /\ candidate' = None /\ unadopted' = None
    /\ UNCHANGED <<config, content, cancel_requested, order, told, latest,
                   dataVars>>

----------------------------------------------------------------------------
Init ==
    /\ config \in Configs
    /\ status = [t \in Subs |-> "none"]
    /\ content = [t \in Subs |-> None]
    /\ cancel_requested = [t \in Subs |-> FALSE]
    /\ order = <<>> /\ recent = {}
    /\ active_docs = {} /\ mutex = None /\ candidate = None /\ unadopted = None
    /\ sub = [s \in Subs |-> "idle"] /\ told = [s \in Subs |-> None]
    /\ latest = [d \in Docs |-> None]
    /\ pc = [w \in Workers |-> "idle"]
    /\ task = [w \in Workers |-> None] /\ input = [w \in Workers |-> None]
    /\ handback = {} /\ files = {}
    /\ stored = [s \in Subs |-> {}]
    /\ current = [d \in Docs |-> None]
    /\ faults = [k \in Kinds |-> 0]

Next ==
    \/ \E s \in Subs : \/ Submitter(s) \/ CreateTaskFails(s)
                       \/ RequestCancel(s) \/ CancelTaskReleases(s)
                       \/ SweepZombies(s) \/ SweepTimedOut(s)
                       \/ DeleteExpired(s)
    \/ \E w \in Workers : \/ SelectOldestQueuedTask(w) \/ Process(w)
                          \/ HandlerThrows(w) \/ PersistFails(w)
    \/ CrashRestart

Spec == Init /\ [][Next]_vars

(* The worker threads loop, a handler returns, an Enqueue that began       *)
(* finishes, and the cron keeps running; nobody has to submit or cancel.   *)
FairSpec ==
    /\ Spec
    /\ \A w \in Workers : WF_vars(Process(w))
    /\ WF_vars(\E w \in Workers : SelectOldestQueuedTask(w))
    /\ \A s \in Subs : /\ WF_vars(Submitter(s) /\ sub[s] # "idle")
                       /\ WF_vars(SweepZombies(s))

----------------------------------------------------------------------------
(* Properties.                                                             *)

(* Every variable has its type, and the scheduler's mutex is held by the   *)
(* one Enqueue or Dequeue that is in the middle of its statements.         *)
TypeOK ==
    /\ config \in Configs
    /\ status \in [Subs -> Statuses]
    /\ content \in [Subs -> Subs \cup {None}]
    /\ cancel_requested \in [Subs -> BOOLEAN]
    /\ order \in Seq(Subs) /\ recent \subseteq Subs
    /\ active_docs \subseteq Docs
    /\ mutex \in Subs \cup Workers \cup {None}
    /\ candidate \in Subs \cup {None} /\ unadopted \in Subs \cup {None}
    /\ sub \in [Subs -> {"idle", "input", "found", "handback", "error",
                         "answered", "refused"}]
    /\ told \in [Subs -> Subs \cup {None}]
    /\ latest \in [Docs -> Subs \cup {None}]
    /\ pc \in [Workers -> {"idle", "selected", "running", "parsed", "release",
                           "done"} \cup Terminal]
    /\ task \in [Workers -> Subs \cup {None}]
    /\ input \in [Workers -> Subs \cup {None}]
    /\ handback \subseteq Subs /\ files \subseteq Subs
    /\ stored \in [Subs -> SUBSET Subs]
    /\ current \in [Docs -> Subs \cup {None}]
    /\ faults \in [Kinds -> Nat]
    /\ \A s \in Subs : sub[s] \in {"found", "handback"} => mutex = s
    /\ \A w \in Workers : /\ pc[w] = "selected" => mutex = w
                          /\ pc[w] # "idle" => task[w] \in Subs

Busy(w) == pc[w] \notin {"idle", "selected"}
Undisturbed(kinds) == \A k \in kinds : faults[k] = 0

(* Two workers never process tasks of the same document at once, not even  *)
(* after the cron failed a row whose worker is still running and the       *)
(* document was submitted again (active_docs_, not the row, is the guard). *)
OneWorkerPerDoc ==
    \A v, w \in Workers :
        v # w /\ Busy(v) /\ Busy(w) => config.doc[task[v]] # config.doc[task[w]]

(* Whoever still has to read an input finds it: a live row's file exists   *)
(* and so does the one a worker is parsing, whichever merge, refresh,      *)
(* cancel, finalizer or sweep released files meanwhile.                    *)
InputPresent ==
    /\ \A t \in Subs : status[t] \in Live => content[t] \in files
    /\ \A w \in Workers : pc[w] = "running" => input[w] \in files

Quiet == /\ \A s \in Subs : sub[s] \in {"idle", "answered", "refused"}
         /\ \A w \in Workers : pc[w] = "idle"
         /\ handback = {}

(* Unless a row was swept, a persist failed or the process died, no input  *)
(* file outlives the task that owned it: merges, refreshes, cancellations  *)
(* racing a dequeue and rejected submissions all give theirs back.         *)
InputsReclaimed ==
    Quiet /\ Undisturbed({"sweep", "throw", "persist", "crash"})
        => files = LiveTaskInputs

(* An input file lives exactly as long as somebody needs it.               *)
InputLifetime == TypeOK /\ InputPresent /\ InputsReclaimed

(* The last submission wins: once nothing is in flight, if the task handed *)
(* to the document's last accepted submission completed, the document      *)
(* holds that submission's content, whether it was merged, had refreshed a *)
(* row or had its own.  A cancel that comes too late, a row left behind by *)
(* a throw or a failed persist, and a crash after a write are excepted: a  *)
(* task not counted as completed may then have written last.  And a task   *)
(* its caller was told is cancelled wrote nothing (a crash, which forgets  *)
(* that a worker had written, excepted).                                   *)
LatestWins ==
    /\ Undisturbed({"crash"}) =>
        \A t, s \in Subs : status[t] = "cancelled" => t \notin stored[s]
    /\ Quiet /\ Undisturbed({"cancel", "throw", "persist", "crash"}) =>
            \A d \in Docs :
                /\ latest[d] # None
                /\ status[told[latest[d]]] = "completed"
                /\ \A t \in Subs : config.doc[t] = d => status[t] \notin Live
                => /\ current[d] # None
                   /\ config.hash[current[d]] = config.hash[latest[d]]

(* No caller is handed a dead task: at the moment a submission is given a  *)
(* task id, that task is still going to carry the content or has done so,  *)
(* although a cancel may land between the lookup and the claim.  And a     *)
(* terminal row keeps its status until it expires: a late finalizer, a     *)
(* cancel, a sweep or the restart's re-queue never revives or relabels it. *)
StatusSteps ==
    [][/\ \A s \in Subs : told'[s] # told[s]
            => status'[told'[s]] \in {"queued", "processing", "completed"}
       /\ \A t \in Subs : status[t] \in Terminal
            => status'[t] \in {status[t], "gone"}]_vars

(* A cancelling row whose worker is gone: nothing finalizes it any more. *)
Stranded(t) == status[t] = "cancelling" /\ ~ Held(t)

(* Every accepted task ends, whatever crashes, throws or is cancelled,     *)
(* unless it is stranded in "cancelling": the re-queue and the sweeps look *)
(* at processing rows only.                                                *)
EveryTaskEnds ==
    \A t \in Subs : status[t] \in Live ~> status[t] \notin Live \/ Stranded(t)
=============================================================================
