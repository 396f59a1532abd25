------------------------------ MODULE Uploads ------------------------------
(***************************************************************************)
(* HTTP uploads of files: UploadHandler::HandleUpload run by several       *)
(* request threads against the documents of one namespace, together with   *)
(* the SPC workers, DELETE, restore, the garbage collector, shutdown,      *)
(* crash and restart of module Documents.                                  *)
(***************************************************************************)
EXTENDS Documents

CONSTANTS Uploaders,  \* request threads
          Large       \* the contents at or over upload.large_file_threshold

ASSUME UploadsAssumption == Large \subseteq Contents

VARIABLES uploader,   \* per request: what it uploads, and where it is
          promised    \* documents a client was told will be processed, until
                      \* a later upload of the same file is saved

vars == <<coreVars, uploader, promised>>

NoUpload == [pc |-> "idle", source |-> None, content |-> None, old |-> 0,
             doc |-> 0]

(* DeterminePriority: kP2 for a large file, else kP0.                      *)
DeterminePriority(c) == IF c \in Large THEN 2 ELSE 0

AtStep(u, pc) == uploader[u].pc = pc
Step(u, pc) == uploader' = [uploader EXCEPT ![u].pc = pc]
Answer(u) == uploader' = [uploader EXCEPT ![u] = NoUpload]
Promise(d) == promised' = promised \cup {d}
RequestOnly == UNCHANGED <<config, worker, lifeVars, sweep>>
-----------------------------------------------------------------------------
(* HandleUpload up to the incremental detection: the newest live version   *)
(* of the file is looked up.  A ready one of the same content is skipped.  *)
Find(u, s, c) ==
    LET old == doc_find_by_source(docs, s)
        same == old # 0 /\ docs[old].hash = c
        skip == same /\ docs[old].status = "ready"
    IN  /\ server = "up" /\ AtStep(u, "idle") /\ Spend("make")
        /\ IF skip
           THEN UNCHANGED uploader /\ Promise(old)
           ELSE /\ uploader' = [uploader EXCEPT ![u] =
                      [pc |-> CASE old = 0 -> "create"
                                [] same -> "active"
                                [] OTHER -> "cancel",
                       source |-> s, content |-> c, old |-> old, doc |-> 0]]
                /\ UNCHANGED promised
        /\ UNCHANGED <<tableVars, queue>> /\ RequestOnly

(* The same content, not ready: skipped while a task for it is active.     *)
Active(u) ==
    /\ AtStep(u, "active")
    /\ IF HasActiveTask(uploader[u].old)
       THEN Answer(u) /\ Promise(uploader[u].old)
       ELSE Step(u, "reread") /\ UNCHANGED promised
    /\ UNCHANGED <<left, tableVars, queue>> /\ RequestOnly

(* With no task active the row is read again.                              *)
Reread(u) ==
    /\ AtStep(u, "reread")
    /\ IF docs[uploader[u].old].status = "ready"
       THEN Answer(u) /\ Promise(uploader[u].old)
       ELSE Step(u, "cancel") /\ UNCHANGED promised
    /\ UNCHANGED <<left, tableVars, queue>> /\ RequestOnly

Cancel(u) ==
    /\ AtStep(u, "cancel")
    /\ CancelQueuedVersions(uploader[u].source)
    /\ Step(u, "create")
    /\ UNCHANGED <<left, tableVars, promised>> /\ RequestOnly

(* The row.  An upload whose row cannot be written is answered by an error.*)
Create(u) ==
    /\ AtStep(u, "create")
    /\ \/ /\ doc_create(uploader[u].source, uploader[u].content)
          /\ uploader' = [uploader EXCEPT ![u] =
                             [@ EXCEPT !.pc = "blob", !.doc = minted']]
       \/ /\ Spend("blob") /\ Answer(u) /\ UNCHANGED <<docs, minted>>
    /\ UNCHANGED <<stored, queue, promised>> /\ RequestOnly

(* The file.  If it cannot be stored the row is deleted again.             *)
Blob(u) ==
    LET d == uploader[u].doc
    IN  /\ AtStep(u, "blob")
        /\ \/ /\ stored' = [stored EXCEPT ![d].blob = uploader[u].content]
              /\ Step(u, "submit") /\ UNCHANGED <<left, docs>>
           \/ /\ Spend("blob")
              /\ docs' = doc_delete(docs, d)
              /\ stored' = [stored EXCEPT ![d].blocks = None]
              /\ Answer(u)
        /\ UNCHANGED <<minted, queue, promised>> /\ RequestOnly

(* The task.  A refused one is answered by an error; row and file stay.    *)
StillDue(r) == promised \ {d \in 1..(r.doc - 1) : docs[d].source = r.source}
SubmitTask(u) ==
    LET r == uploader[u]
    IN  /\ AtStep(u, "submit")
        /\ \/ /\ Submit(Task(r.doc, r.source, r.content,
                             DeterminePriority(r.content)))
              /\ promised' = StillDue(r) \cup {r.doc}
           \/ Refuse /\ promised' = StillDue(r)
        /\ Answer(u)
        /\ UNCHANGED tableVars /\ RequestOnly

Upload(u) == Active(u) \/ Reread(u) \/ Cancel(u) \/ Create(u) \/ Blob(u)
                \/ SubmitTask(u)
-----------------------------------------------------------------------------
Others == UNCHANGED <<uploader, promised>>

(* A request takes seconds, the retention window days.                     *)
Forget(d) == Expire(d) /\ (\A u \in Uploaders : uploader[u].doc # d) /\ Others

CrashAll == /\ Crash
            /\ uploader' = [u \in Uploaders |-> NoUpload]
            /\ UNCHANGED promised

Quiesce == /\ StopWorkers /\ Others
           /\ \A u \in Uploaders : AtStep(u, "idle")

RequeuePendingUploads(d) ==
    Requeue(d, DeterminePriority(docs[d].hash)) /\ Others

WorkerStep(w) == Work(w, worker[w].hash) /\ Others
(* The main thread, from the end of its requests to the next ones.         *)
Main == \/ (Drain \/ Restart) /\ Others
        \/ \E d \in Docs : RequeuePendingUploads(d)
        \/ Quiesce
Sweeper == (SweepRows \/ SweepEnd \/ \E d \in Docs : SweepMark(d)) /\ Others

(* Nothing is under way; the server waits for the next request.            *)
AtRest == /\ server = "up" /\ queue = <<>> /\ WorkersIdle /\ sweep.pc = "idle"
          /\ \A u \in Uploaders : AtStep(u, "idle")
Wait == AtRest /\ UNCHANGED vars

Next == \/ \E u \in Uploaders : \/ Upload(u)
                                \/ \E s \in Uploaded, c \in Contents : Find(u, s, c)
        \/ \E w \in Workers : WorkerStep(w)
        \/ \E d \in Docs : \/ (DeleteDocument(d) \/ Restore(d)) /\ Others
                          \/ Forget(d)
        \/ \E k \in {"sweep", "purge"} : SweepList(k) /\ Others
        \/ Sweeper \/ Main \/ (Stop /\ Others) \/ CrashAll \/ Wait

Init == CoreInit /\ uploader = [u \in Uploaders |-> NoUpload] /\ promised = {}

Spec == Init /\ [][Next]_vars

(* Threads that can run do run, and a stopped server is started again.     *)
Fairness == /\ \A u \in Uploaders : WF_vars(Upload(u))
            /\ \A w \in Workers : WF_vars(WorkerStep(w))
            /\ WF_vars(Main) /\ WF_vars(Sweeper)
LiveSpec == Spec /\ Fairness
-----------------------------------------------------------------------------
TypeOK ==
    /\ CoreTypeOK
    /\ uploader \in [Uploaders ->
          [pc : {"idle", "active", "reread", "cancel", "create", "blob",
                 "submit"},
           source : Uploaded \cup {None}, content : Contents \cup {None},
           old : Docs \cup {0}, doc : Docs \cup {0}]]
    /\ promised \subseteq Docs

(* Every file that has a live version is answered by exactly one of them,  *)
(* whatever uploads, workers, deletes, restores and restarts are doing:    *)
(* the publication retires the older versions in the same transaction, a   *)
(* restore is refused while any version is live, and the hidden-document   *)
(* predicate picks the ready one, or the oldest.  (A clock set back gives  *)
(* a new version a place before the ready one, and both are served.)       *)
OneAnswer ==
    Undisturbed({"clock"}) =>
        \A s \in Uploaded :
            Cardinality(Served(docs, s)) = IF Live(docs, s) = {} THEN 0 ELSE 1

(* A ready document has the file it was uploaded with, the blocks parsed   *)
(* from that file, their parents and their vectors: no purge, second task  *)
(* or recovery takes a part away and leaves the row.  (A purge cut short   *)
(* by a crash has removed vectors and file of a row that can still be      *)
(* restored.)                                                              *)
ReadyIsStored ==
    (Undisturbed({"purge"}) \/ Undisturbed({"crash"})) =>
        \A d \in Docs : docs[d].status = "ready" =>
            stored[d] = [blob |-> docs[d].hash, blocks |-> docs[d].hash,
                         parents |-> TRUE, vectors |-> TRUE]

(* At rest nothing is stored for a document that has no row: no file,      *)
(* block or vector outlives it.  (A purge, which does not wait for the     *)
(* window, can overtake an upload or a task of the document it removes.)   *)
NothingOrphaned ==
    AtRest /\ Undisturbed({"purge"}) =>
        \A d \in Docs : docs[d].status = "none" =>
            /\ stored[d].blob = None /\ stored[d].blocks = None
            /\ ~stored[d].vectors

(* The stores hold what the documents table says, and nothing else.        *)
StoresAgree == TypeOK /\ ReadyIsStored /\ NothingOrphaned

(* A file that has a ready version keeps one: a new version that fails, is *)
(* withdrawn, cancelled, recovered or resumed never takes the answer away; *)
(* only a DELETE does.  (A crash while the saved tasks are resumed leaves  *)
(* their file in place, and the next start runs finished tasks again.)     *)
HasReady(s) == \E d \in Live(docs, s) : docs[d].status = "ready"
AnswerKept ==
    [][ \/ \A s \in Uploaded : HasReady(s) => HasReady(s)'
        \/ left'["delete"] < left["delete"]
        \/ Happened("crash") /\ Happened("stop") ]_vars

(* What a client was told will be processed is processed, across crashes,  *)
(* shutdowns and restarts: the document ends ready, failed or deleted, or  *)
(* a later upload of the file is saved.  Excepted is an upload that a      *)
(* later one has overtaken: its task is cancelled before the later one is  *)
(* safe, and the start-up looks only at the newest row of a file.          *)
Settled(d) == docs[d].status \in {"none", "ready", "error", "deleted"}
Calm == Undisturbed({"acquire", "blob", "disk"})
Overtaken(d) == \E o \in Docs : o > d /\ docs[o].source = docs[d].source
PromisesKept ==
    \A d \in Docs : d \in promised ~>
        Settled(d) \/ d \notin promised \/ ~Calm \/ Overtaken(d)
=============================================================================
