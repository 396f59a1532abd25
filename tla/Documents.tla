------------------------------ MODULE Documents ------------------------------
(***************************************************************************)
(* The documents of one namespace as versions of their sources: the        *)
(* documents table, the SPC queue and its workers up to the publication of *)
(* a version, DELETE, restore and the garbage collector, and what a stop,  *)
(* a crash and a restart do to them.  The producers of versions are the    *)
(* modules that extend this one: Uploads and Connector.                    *)
(*                                                                         *)
(* A store call is one SQL statement or one transaction, so it is atomic   *)
(* and everything between two calls is a place where others run.  The      *)
(* write of a version's blocks is one step here; WriteCoordinator is the   *)
(* model of what happens inside it.                                        *)
(***************************************************************************)
EXTENDS Integers, Sequences, FiniteSets

CONSTANTS MaxDocs,     \* bound: document ids minted
          Sources,     \* (source_type, source_path) pairs
          Uploaded,    \* the sources of type http_upload; the rest: watch_dir
          Contents,    \* contents of a file, as told apart by content_hash
          Workers,     \* SPC worker threads
          QueueLimit,  \* spc.max_queue_size
          MaxPurge,    \* gc.max_purge_per_run
          None,        \* no content, no document
          Configs      \* workloads: how often each kind of event may happen

Docs == 1..MaxDocs
Kinds == {"make", "delete", "restore", "sweep", "purge", "expire", "stop",
          "crash", "clock", "disk", "blob", "acquire", "process", "publish",
          "withdraw", "file", "subscribe", "scan", "unsubscribe", "remove",
          "watch"}
Statuses == {"none", "pending", "processing", "ready", "error", "deleting",
             "deleted"}

ASSUME ConstantsAssumption ==
    /\ MaxDocs \in Nat /\ QueueLimit \in Nat /\ MaxPurge \in Nat
    /\ Uploaded \subseteq Sources
    /\ None \notin Contents
    /\ Configs \subseteq [Kinds -> Nat]

VARIABLES config,    \* the budget of this behaviour
          left,      \* what is left of it
          docs,      \* the documents table; status "none" is no row
          minted,    \* doc ids minted so far
          stored,    \* per document: its blob, blocks, parents and vectors
          queue,     \* SPCTaskQueue::queue_
          worker,    \* per worker: the task it holds and where it is
          server,    \* the life of the process
          saved,     \* .pending_tasks.json
          resume,    \* start-up: saved tasks not yet submitted again
          requeue,   \* start-up: the pending documents still to look at
          sweep      \* DocumentGcSweeper: its list and where it is

tableVars == <<docs, minted, stored>>
spcVars == <<queue, worker>>
lifeVars == <<server, saved, resume, requeue>>
coreVars == <<config, left, tableVars, spcVars, lifeVars, sweep>>

NoRow == [status |-> "none", source |-> None, hash |-> None, order |-> 0,
          from |-> "none", expired |-> FALSE]
Nothing == [blob |-> None, blocks |-> None, parents |-> FALSE,
            vectors |-> FALSE]
Idle == [pc |-> "idle", doc |-> 0, source |-> None, hash |-> None]
NoSweep == [pc |-> "idle", list |-> {}, doc |-> 0, done |-> 0]

Spend(k) == left[k] > 0 /\ left' = [left EXCEPT ![k] = @ - 1]
Happened(k) == left[k] < config[k]
(* None of the disturbances in kinds has happened so far.                  *)
Undisturbed(kinds) == \A k \in kinds : ~Happened(k)
-----------------------------------------------------------------------------
(* The store's document operations, as functions of the table.             *)

(* The live rows of a source, and the order (created_at, doc_id).          *)
Live(t, s) == {d \in Docs : /\ t[d].status \notin {"none", "deleted"}
                            /\ t[d].source = s}
Before(t, a, b) == \/ t[a].order < t[b].order
                   \/ t[a].order = t[b].order /\ a < b

(* doc_find_by_source: the newest live row, or 0.                          *)
doc_find_by_source(t, s) ==
    IF Live(t, s) = {} THEN 0
    ELSE CHOOSE d \in Live(t, s) : \A o \in Live(t, s) : ~Before(t, d, o)

(* doc_create stamps the row with the time.  A clock that was set back     *)
(* ("clock") puts it before every row there is.                            *)
Orders == {docs[d].order : d \in {d \in Docs : docs[d].status # "none"}} \cup {0}
Row(s, c, o) == [NoRow EXCEPT !.status = "pending", !.source = s, !.hash = c,
                              !.order = o]
doc_create(s, c) ==
    /\ minted < MaxDocs
    /\ minted' = minted + 1
    /\ \/ /\ docs' = [docs EXCEPT ![minted'] = Row(s, c,
                            (CHOOSE o \in Orders : \A p \in Orders : p <= o) + 1)]
          /\ UNCHANGED left
       \/ /\ Spend("clock")
          /\ docs' = [docs EXCEPT ![minted'] = Row(s, c,
                            (CHOOSE o \in Orders : \A p \in Orders : o <= p) - 1)]

(* UpdateStatusLocked refuses a missing and a deleted row (answer -2).     *)
Updatable(t, d) == t[d].status \notin {"none", "deleted"}
UpdateStatus(t, d, s) ==
    IF Updatable(t, d) THEN [t EXCEPT ![d].status = s] ELSE t

(* Rows that become deleted record the status they had, once.              *)
MarkDeleted(t, ds) ==
    [d \in Docs |->
        IF d \notin ds THEN t[d]
        ELSE [t[d] EXCEPT !.status = "deleted", !.expired = FALSE,
                  !.from = IF t[d].status = "deleted" THEN @ ELSE t[d].status]]

(* MUTANT of RetireOlderVersions: "not after" for "before".                *)
RetireThrough(t, keep) ==
    MarkDeleted(t, {d \in Live(t, t[keep].source) : ~Before(t, keep, d)})

RetireOlderVersions(t, keep) ==
    MarkDeleted(t, {d \in Live(t, t[keep].source) : Before(t, d, keep)})

(* MUTANT of doc_publish_version: the retirement is left to someone else.  *)
PublishOnly(t, d) == UpdateStatus(t, d, "ready")

doc_publish_version(t, d) ==
    RetireOlderVersions(UpdateStatus(t, d, "ready"), d)

CanWithdraw(t, d) ==
    /\ t[d].status \notin {"none", "deleted", "ready"}
    /\ \E o \in Live(t, t[d].source) : o # d /\ Before(t, o, d)
doc_withdraw_version(t, d) == MarkDeleted(t, {d})

(* MUTANT of CanRestore: how far the version had come is not asked.        *)
CanRestoreAny(t, d) ==
    t[d].status = "deleted" /\ ~t[d].expired /\ Live(t, t[d].source) = {}

(* DecideRestore: not past the window, whole when deleted, and no live     *)
(* version of the source (doc_restore_unless_superseded).                  *)
CanRestore(t, d) ==
    /\ t[d].status = "deleted"
    /\ ~t[d].expired
    /\ t[d].from = "ready"
    /\ Live(t, t[d].source) = {}
doc_restore(t, d) ==
    [t EXCEPT ![d] = [@ EXCEPT !.status = "ready", !.from = "none"]]

doc_delete(t, d) == [t EXCEPT ![d] = NoRow]

(* HiddenDocPredicate, and the rows of a source that retrieval serves.     *)
Hidden(t, d) ==
    \/ t[d].status = "deleted"
    \/ /\ t[d].status # "ready"
       /\ \E o \in Live(t, t[d].source) :
            o # d /\ (t[o].status = "ready" \/ Before(t, o, d))
Served(t, s) == {d \in Live(t, s) : ~Hidden(t, d)}
-----------------------------------------------------------------------------
(* SPCTaskQueue and SPCManager.                                            *)

Running == server \in {"resuming", "requeueing", "up", "stopping"}

Task(d, s, c, p) == [doc |-> d, source |-> s, hash |-> c, priority |-> p,
                     cancelled |-> FALSE]
RowTask(d, p) == Task(d, docs[d].source, docs[d].hash, p)

(* Push: the queue is sorted by priority, first come first served within.  *)
Push(t) ==
    LET n == Cardinality({i \in DOMAIN queue :
                              queue[i].priority <= t.priority})
    IN  SubSeq(queue, 1, n) \o <<t>> \o SubSeq(queue, n + 1, Len(queue))

(* MUTANT of Accepts: off by one.                                          *)
AcceptsOneMore == Running /\ Len(queue) <= QueueLimit

(* Submit: refused while stopped, at a critical disk, or at the limit,     *)
(* which cancelled tasks still waiting to be skipped count towards.        *)
Accepts == Running /\ Len(queue) < QueueLimit
Submit(t) == Accepts /\ queue' = Push(t) /\ UNCHANGED left
Refuse == /\ UNCHANGED queue
          /\ \/ ~Accepts /\ UNCHANGED left
             \/ Spend("disk")

CancelQueuedVersions(s) ==
    queue' = [i \in DOMAIN queue |->
                IF queue[i].source = s
                THEN [queue[i] EXCEPT !.cancelled = TRUE] ELSE queue[i]]

HasActiveTask(d) ==
    \/ \E i \in DOMAIN queue : queue[i].doc = d /\ ~queue[i].cancelled
    \/ \E w \in Workers : worker[w].pc # "idle" /\ worker[w].doc = d

(* Pop: the first task that is not cancelled, past the cancelled ones; a   *)
(* queue of cancelled tasks is emptied and the worker goes round again.    *)
(* The worker holds the task, so its document counts as active.            *)
Pop(w) ==
    LET ready == {i \in DOMAIN queue : ~queue[i].cancelled}
        k == CHOOSE i \in ready : \A j \in ready : i <= j
    IN  /\ Running /\ worker[w] = Idle /\ queue # <<>>
        /\ IF ready = {}
           THEN queue' = <<>> /\ UNCHANGED worker
           ELSE /\ queue' = SubSeq(queue, k + 1, Len(queue))
                /\ worker' = [worker EXCEPT ![w] =
                      [pc |-> "begin", doc |-> queue[k].doc,
                       source |-> queue[k].source, hash |-> queue[k].hash]]
        /\ UNCHANGED <<config, left, tableVars, lifeVars, sweep>>

At(w, pc) == worker[w].pc = pc
Goto(w, pc) == worker' = [worker EXCEPT ![w].pc = pc]
Finish(w) == worker' = [worker EXCEPT ![w] = Idle]
WorkerOnly == UNCHANGED <<config, minted, queue, lifeVars, sweep>>

(* WorkerLoop up to the pipeline: a namespace that cannot be acquired      *)
(* drops the task, a deleted document ends it, and an upload needs the     *)
(* blob to extract.                                                        *)
Begin(w) ==
    LET d == worker[w].doc
    IN  /\ At(w, "begin") /\ WorkerOnly /\ UNCHANGED stored
        /\ \/ Spend("acquire") /\ Finish(w) /\ UNCHANGED docs
           \/ /\ docs[d].status = "deleted"
              /\ Finish(w) /\ UNCHANGED <<left, docs>>
           \/ /\ docs[d].status # "deleted"
              /\ docs' = UpdateStatus(docs, d, "processing")
              /\ Goto(w, IF worker[w].source \in Uploaded
                            /\ stored[d].blob = None
                         THEN "fail" ELSE "parse")
              /\ UNCHANGED left

(* Process up to the write: content c is parsed, chunked, enriched and     *)
(* embedded; any of it may fail, and None cannot be parsed at all.         *)
Parse(w, c) ==
    /\ At(w, "parse") /\ WorkerOnly /\ UNCHANGED <<docs, stored>>
    /\ \/ /\ c # None
          /\ worker' = [worker EXCEPT ![w].pc = "store", ![w].hash = c]
          /\ UNCHANGED left
       \/ /\ (c = None /\ UNCHANGED left) \/ Spend("process")
          /\ Goto(w, "fail")

(* The write.  Blocks need the document's row; a second set of blocks      *)
(* collides with the document-level metadata block, and the rollback of an *)
(* ingest drops the document's parents whoever wrote them.                 *)
Store(w) ==
    LET d == worker[w].doc
    IN  /\ At(w, "store") /\ WorkerOnly /\ UNCHANGED <<docs, left>>
        /\ \/ /\ docs[d].status = "none"
              /\ Goto(w, "fail") /\ UNCHANGED stored
           \/ /\ docs[d].status # "none" /\ stored[d].blocks # None
              /\ stored' = [stored EXCEPT ![d].parents = FALSE]
              /\ Goto(w, "fail")
           \/ /\ docs[d].status # "none" /\ stored[d].blocks = None
              /\ stored' = [stored EXCEPT ![d] =
                    [@ EXCEPT !.blocks = worker[w].hash, !.parents = TRUE,
                              !.vectors = TRUE]]
              /\ Goto(w, "publish")

(* MarkDocumentReady: the publication.  A row that is gone is no failure.  *)
Publish(w) ==
    LET d == worker[w].doc
    IN  /\ At(w, "publish") /\ WorkerOnly /\ UNCHANGED stored
        /\ \/ /\ Updatable(docs, d)
              /\ docs' = doc_publish_version(docs, d)
              /\ Finish(w) /\ UNCHANGED left
           \/ /\ ~Updatable(docs, d)
              /\ IF docs[d].status = "deleted" THEN Goto(w, "fail")
                                               ELSE Finish(w)
              /\ UNCHANGED <<docs, left>>
           \/ Spend("publish") /\ Goto(w, "withdraw") /\ UNCHANGED docs

(* MarkDocumentReady after a failed publication: the version is withdrawn  *)
(* while an earlier one is live; otherwise the row is read again.          *)
Withdraw(w) ==
    LET d == worker[w].doc
    IN  /\ At(w, "withdraw") /\ WorkerOnly /\ UNCHANGED stored
        /\ \/ /\ CanWithdraw(docs, d)
              /\ docs' = doc_withdraw_version(docs, d)
              /\ Goto(w, "fail") /\ UNCHANGED left
           \/ /\ \/ ~CanWithdraw(docs, d) /\ UNCHANGED left
                 \/ Spend("withdraw")
              /\ IF docs[d].status = "ready" THEN Finish(w) ELSE Goto(w, "fail")
              /\ UNCHANGED docs

(* The error write that ends a failed task, refused by a deleted row.      *)
Fail(w) ==
    /\ At(w, "fail") /\ WorkerOnly /\ UNCHANGED <<left, stored>>
    /\ docs' = UpdateStatus(docs, worker[w].doc, "error")
    /\ Finish(w)

Work(w, c) == \/ Pop(w) \/ Begin(w) \/ Parse(w, c) \/ Store(w)
              \/ Publish(w) \/ Withdraw(w) \/ Fail(w)
-----------------------------------------------------------------------------
(* DELETE, restore and the garbage collector.                              *)

(* DELETE /documents/{id}: 404 on a missing or deleted row, else soft.     *)
DeleteDocument(d) ==
    /\ server = "up" /\ docs[d].status \notin {"none", "deleted"}
    /\ Spend("delete")
    /\ docs' = MarkDeleted(docs, {d})
    /\ UNCHANGED <<config, minted, stored, spcVars, lifeVars, sweep>>

(* The retention window (days) passes for a deleted row.                   *)
Expire(d) ==
    /\ docs[d].status = "deleted" /\ ~docs[d].expired /\ ~HasActiveTask(d)
    /\ Spend("expire")
    /\ docs' = [docs EXCEPT ![d].expired = TRUE]
    /\ UNCHANGED <<config, minted, stored, spcVars, lifeVars, sweep>>

(* POST /gc/restore, under the sweeper's mutex.  Only a restore makes a    *)
(* deleted row live, so what its reads see holds until its one write.      *)
Restore(d) ==
    /\ server = "up" /\ sweep.pc = "idle" /\ CanRestore(docs, d)
    /\ Spend("restore")
    /\ docs' = doc_restore(docs, d)
    /\ UNCHANGED <<config, minted, stored, spcVars, lifeVars, sweep>>

(* RunOnce and Purge: the list is read once, then worked off.              *)
SweepList(kind) ==
    /\ Running /\ sweep.pc = "idle"
    /\ Spend(kind)
    /\ sweep' = [NoSweep EXCEPT !.pc = "next",
                    !.list = {d \in Docs : /\ docs[d].status = "deleted"
                                           /\ docs[d].expired \/ kind = "purge"}]
    /\ UNCHANGED <<config, tableVars, spcVars, lifeVars>>

(* MUTANT of SweepMark: the file is forgotten.                             *)
SweepMarkKeepsBlob(d) ==
    /\ sweep.pc = "next" /\ d \in sweep.list /\ sweep.done < MaxPurge
    /\ stored' = [stored EXCEPT ![d].vectors = @ /\ stored[d].blocks = None]
    /\ sweep' = [sweep EXCEPT !.pc = "rows", !.doc = d]
    /\ UNCHANGED <<config, left, docs, minted, spcVars, lifeVars>>

(* The vectors of the blocks the document has now, and its blob.           *)
SweepMark(d) ==
    /\ sweep.pc = "next" /\ d \in sweep.list /\ sweep.done < MaxPurge
    /\ stored' = [stored EXCEPT ![d] =
          [@ EXCEPT !.vectors = @ /\ stored[d].blocks = None, !.blob = None]]
    /\ sweep' = [sweep EXCEPT !.pc = "rows", !.doc = d]
    /\ UNCHANGED <<config, left, docs, minted, spcVars, lifeVars>>

(* The block rows and the document row; the parents table is left alone.   *)
SweepRows ==
    /\ sweep.pc = "rows"
    /\ docs' = doc_delete(docs, sweep.doc)
    /\ stored' = [stored EXCEPT ![sweep.doc].blocks = None]
    /\ sweep' = [sweep EXCEPT !.pc = "next", !.done = @ + 1,
                    !.list = @ \ {sweep.doc}]
    /\ UNCHANGED <<config, left, minted, spcVars, lifeVars>>

SweepEnd ==
    /\ sweep.pc = "next" /\ (sweep.list = {} \/ sweep.done >= MaxPurge)
    /\ sweep' = NoSweep
    /\ UNCHANGED <<config, left, tableVars, spcVars, lifeVars>>
-----------------------------------------------------------------------------
(* The life of the process.                                                *)

WorkersIdle == \A w \in Workers : worker[w] = Idle

Crash ==
    /\ server # "down" /\ Spend("crash")
    /\ queue' = <<>> /\ worker' = [w \in Workers |-> Idle]
    /\ sweep' = NoSweep /\ server' = "down"
    /\ resume' = <<>> /\ requeue' = {}
    /\ UNCHANGED <<config, tableVars, saved>>

(* SIGTERM: the HTTP server stops; requests and sweeps under way finish,   *)
(* and until then the workers go on.                                       *)
Stop ==
    /\ server = "up" /\ Spend("stop")
    /\ server' = "stopping"
    /\ UNCHANGED <<config, tableVars, spcVars, saved, resume, requeue, sweep>>

(* SPCManager::Stop: each worker finishes the task it holds.               *)
StopWorkers ==
    /\ server = "stopping" /\ sweep.pc = "idle"
    /\ server' = "draining"
    /\ UNCHANGED <<config, left, tableVars, spcVars, saved, resume, requeue,
                   sweep>>

(* The tasks still queued, the cancelled ones left out, are written to     *)
(* .pending_tasks.json; with none the file is not written, and a failed    *)
(* write does not stop the shutdown.                                       *)
Drain ==
    LET live == SelectSeq(queue, LAMBDA t : ~t.cancelled)
    IN  /\ server = "draining" /\ WorkersIdle
        /\ \/ /\ saved' = IF live = <<>> THEN saved
                          ELSE [i \in DOMAIN live |-> live[i].doc]
              /\ UNCHANGED left
           \/ live # <<>> /\ Spend("disk") /\ UNCHANGED saved
        /\ queue' = <<>> /\ server' = "down"
        /\ UNCHANGED <<config, tableVars, worker, resume, requeue, sweep>>

(* MUTANT of Recover: documents left processing are not reset.             *)
RecoverNothing ==
    /\ server = "down" /\ server' = "resuming" /\ resume' = saved
    /\ UNCHANGED <<config, left, tableVars, spcVars, saved, requeue, sweep>>

(* The namespace is loaded: DropCrashedDocVectors, RecoverCrashedDocs.     *)
Recover ==
    LET torn == {d \in Docs : docs[d].status \in {"processing", "deleting"}}
    IN  /\ server = "down"
        /\ docs' = [d \in Docs |->
                      CASE docs[d].status = "processing" ->
                             [docs[d] EXCEPT !.status = "pending"]
                        [] docs[d].status = "deleting" -> NoRow
                        [] OTHER -> docs[d]]
        /\ stored' = [d \in Docs |->
                        IF d \in torn
                        THEN [stored[d] EXCEPT !.blocks = None,
                                  !.vectors = @ /\ stored[d].blocks = None,
                                  !.parents = @ /\ docs[d].status # "processing"]
                        ELSE stored[d]]
        /\ server' = "resuming" /\ resume' = saved
        /\ UNCHANGED <<config, left, minted, spcVars, saved, requeue, sweep>>

(* ResumeOnStartup: each saved task whose document still has a row is      *)
(* submitted, with the default priority; then the file is removed.         *)
Resume ==
    /\ server = "resuming" /\ resume # <<>>
    /\ \/ docs[Head(resume)].status = "none" /\ UNCHANGED <<queue, left>>
       \/ /\ docs[Head(resume)].status # "none"
          /\ Submit(RowTask(Head(resume), 1)) \/ Refuse
    /\ resume' = Tail(resume)
    /\ UNCHANGED <<config, tableVars, worker, server, saved, requeue, sweep>>

ResumeDone ==
    /\ server = "resuming" /\ resume = <<>>
    /\ saved' = <<>> /\ server' = "requeueing"
    /\ requeue' = {d \in Docs : /\ docs[d].status = "pending"
                                /\ docs[d].source \in Uploaded}
    /\ UNCHANGED <<config, left, tableVars, spcVars, resume, sweep>>

(* RequeuePendingUploads, one listed document: only the newest version of  *)
(* its file, only with no task, and only if it is still pending.           *)
Wanted(d) == /\ doc_find_by_source(docs, docs[d].source) = d
             /\ ~HasActiveTask(d)
             /\ docs[d].status = "pending"
Requeue(d, p) ==
    /\ server = "requeueing" /\ d \in requeue
    /\ \/ Wanted(d) /\ (Submit(RowTask(d, p)) \/ Refuse)
       \/ ~Wanted(d) /\ UNCHANGED <<queue, left>>
    /\ requeue' = requeue \ {d}
    /\ UNCHANGED <<config, tableVars, worker, server, saved, resume, sweep>>

Serve ==
    /\ server = "requeueing" /\ requeue = {}
    /\ server' = "up"
    /\ UNCHANGED <<config, left, tableVars, spcVars, saved, resume, requeue,
                   sweep>>

Restart == Recover \/ Resume \/ ResumeDone \/ Serve
-----------------------------------------------------------------------------
CoreInit ==
    /\ config \in Configs /\ left = config
    /\ docs = [d \in Docs |-> NoRow] /\ minted = 0
    /\ stored = [d \in Docs |-> Nothing]
    /\ queue = <<>> /\ worker = [w \in Workers |-> Idle]
    /\ server = "up" /\ saved = <<>> /\ resume = <<>> /\ requeue = {}
    /\ sweep = NoSweep

Rows == [status : Statuses, source : Sources \cup {None},
         hash : Contents \cup {None}, order : Int,
         from : Statuses, expired : BOOLEAN]
Tasks == [doc : Docs, source : Sources \cup {None},
          hash : Contents \cup {None}, priority : 0..2, cancelled : BOOLEAN]

(* The shape of the store, the queue, the workers and the process.         *)
CoreTypeOK ==
    /\ config \in [Kinds -> Nat] /\ left \in [Kinds -> Nat]
    /\ docs \in [Docs -> Rows] /\ minted \in 0..MaxDocs
    /\ stored \in [Docs -> [blob : Contents \cup {None},
                            blocks : Contents \cup {None},
                            parents : BOOLEAN, vectors : BOOLEAN]]
    /\ queue \in Seq(Tasks) /\ Len(queue) <= QueueLimit
    /\ worker \in [Workers ->
          [pc : {"idle", "begin", "parse", "store", "publish", "withdraw", "fail"},
           doc : Docs \cup {0}, source : Sources \cup {None},
           hash : Contents \cup {None}]]
    /\ server \in {"up", "stopping", "draining", "down", "resuming",
                   "requeueing"}
    /\ saved \in Seq(Docs) /\ resume \in Seq(Docs) /\ requeue \subseteq Docs
    /\ sweep \in [pc : {"idle", "next", "rows"}, list : SUBSET Docs,
                  doc : Docs \cup {0}, done : 0..MaxPurge]
=============================================================================
