----------------------------- MODULE Connector ------------------------------
(***************************************************************************)
(* A watched directory: DirWatcherRegistry, the InotifyWatcher's thread    *)
(* and DirectoryImporter, keeping the documents of one namespace in step   *)
(* with a file, against the SPC workers, DELETE, restore, shutdown, crash  *)
(* and restart of module Documents.                                        *)
(*                                                                         *)
(* Three threads run the importer: the watcher's event thread, a request   *)
(* (subscribe, scan, unsubscribe, remove) and the main thread (StartAll at *)
(* start-up, StopAll at shutdown).  The last two hold the registry's mu_   *)
(* for the whole operation; the event thread takes it only to copy the     *)
(* list of importers.  Each store call and each queue call is a step.      *)
(***************************************************************************)
EXTENDS Documents

CONSTANT File         \* the watched file, as a source

ASSUME ConnectorAssumption == Sources = {File} /\ Uploaded = {}

VARIABLES file,       \* the content on disk; None: there is no file
          events,     \* inotify events not yet read
          running,    \* InotifyWatcher::running_
          slot,       \* the registry has the directory
          watched,    \* watchers.json has the directory
          mu,         \* holder of DirWatcherRegistry::mu_
          job,        \* per thread: what it does, and where it is
          purged,     \* the watch was removed with its documents
          past,       \* the contents the file has had
          marks       \* what has happened to the file (see Change, ReadEvents)

registryVars == <<running, slot, watched, mu, purged>>
vars == <<coreVars, file, events, registryVars, job, past, marks>>

Threads == {"events", "request", "main"}
NoJob == [op |-> "none", pc |-> "idle", hash |-> None, old |-> 0, doc |-> 0]
NoThread == [NoJob EXCEPT !.pc = "off"]

JobAt(t, pc) == job[t].pc = pc
Move(t, pc) == job' = [job EXCEPT ![t].pc = pc]
World == UNCHANGED <<config, worker, lifeVars, sweep, file, events,
                     registryVars, past, marks>>
-----------------------------------------------------------------------------
(* ProcessFile.  After it the event thread polls again; a scan goes on to  *)
(* the documents whose files are gone.                                     *)
AfterFile(t) == IF t = "events" THEN "poll" ELSE "cleanup"

(* The content hash; without the file or the namespace it is skipped.      *)
Hash(t) ==
    /\ JobAt(t, "hash")
    /\ \/ /\ job' = [job EXCEPT ![t].hash = file,
                        ![t].pc = IF file = None THEN AfterFile(t) ELSE "find"]
          /\ UNCHANGED left
       \/ Spend("acquire") /\ Move(t, AfterFile(t))
    /\ UNCHANGED <<tableVars, queue>> /\ World

(* The newest version of the file: none, one of the same content, another. *)
Unfinished(d) == docs[d].status \in {"pending", "error", "processing"}
Find(t) ==
    LET old == doc_find_by_source(docs, File)
    IN  /\ JobAt(t, "find")
        /\ job' = [job EXCEPT ![t].old = old,
              ![t].pc = CASE old = 0 -> "create"
                          [] old # 0 /\ docs[old].hash # job[t].hash -> "cancel"
                          [] old # 0 /\ docs[old].hash = job[t].hash ->
                                IF Unfinished(old) THEN "active"
                                                   ELSE AfterFile(t)]
        /\ UNCHANGED <<left, tableVars, queue>> /\ World

(* An unfinished version that a task will process is left to it.           *)
Active(t) ==
    /\ JobAt(t, "active")
    /\ Move(t, IF HasActiveTask(job[t].old) THEN AfterFile(t) ELSE "count")
    /\ UNCHANGED <<left, tableVars, queue>> /\ World

(* One that holds the blocks of an attempt gets a new version; one that    *)
(* holds none is processed again.                                          *)
Count(t) ==
    /\ JobAt(t, "count")
    /\ Move(t, IF stored[job[t].old].blocks # None THEN "cancel" ELSE "again")
    /\ UNCHANGED <<left, tableVars, queue>> /\ World

Cancel(t) ==
    /\ JobAt(t, "cancel") \/ JobAt(t, "again")
    /\ CancelQueuedVersions(File)
    /\ IF JobAt(t, "again")
       THEN job' = [job EXCEPT ![t].pc = "submit", ![t].doc = job[t].old]
       ELSE Move(t, "create")
    /\ UNCHANGED <<left, tableVars>> /\ World

Create(t) ==
    /\ JobAt(t, "create")
    /\ \/ /\ doc_create(File, job[t].hash)
          /\ job' = [job EXCEPT ![t].pc = "submit", ![t].doc = minted']
       \/ Spend("blob") /\ Move(t, AfterFile(t)) /\ UNCHANGED <<docs, minted>>
    /\ UNCHANGED <<stored, queue>> /\ World

(* kP1 for a new version of a known file, else kP2.  A refusal is logged.  *)
SubmitTask(t) ==
    LET j == job[t]
        p == IF j.old \in {0, j.doc} THEN 2 ELSE 1
    IN  /\ JobAt(t, "submit")
        /\ Submit(Task(j.doc, File, j.hash, p)) \/ Refuse
        /\ Move(t, AfterFile(t))
        /\ UNCHANGED tableVars /\ World

ProcessFile(t) == \/ Hash(t) \/ Find(t) \/ Active(t) \/ Count(t)
                  \/ Cancel(t) \/ Create(t) \/ SubmitTask(t)
-----------------------------------------------------------------------------
(* HandleFileDeletion: every live version, newest first, is marked         *)
(* deleting, then its vectors, its row and its blob go.                    *)
Delete(t) == [job EXCEPT ![t].pc = "gone", ![t].old = 0, ![t].doc = 0]
AfterDeletion(t) == IF t = "events" THEN "poll" ELSE "end"

NextVersion(t) ==
    LET d == doc_find_by_source(docs, File)
    IN  /\ JobAt(t, "gone")
        /\ \/ /\ job' = [job EXCEPT ![t].doc = d,
                    ![t].pc = CASE d \in {0, job[t].old} -> AfterDeletion(t)
                                [] d \notin {0, job[t].old} ->
                                     IF job[t].old = 0 THEN "forget"
                                                       ELSE "mark"]
              /\ UNCHANGED left
           \/ job[t].old = 0 /\ Spend("acquire") /\ Move(t, AfterDeletion(t))
        /\ UNCHANGED <<tableVars, queue>> /\ World

CancelVersions(t) ==
    /\ JobAt(t, "forget")
    /\ CancelQueuedVersions(File)
    /\ Move(t, "mark")
    /\ UNCHANGED <<left, tableVars>> /\ World

MarkDeleting(t) ==
    /\ JobAt(t, "mark")
    /\ docs' = UpdateStatus(docs, job[t].doc, "deleting")
    /\ Move(t, "vectors")
    /\ UNCHANGED <<left, minted, stored, queue>> /\ World

DeleteVectors(t) ==
    LET d == job[t].doc
    IN  /\ JobAt(t, "vectors")
        /\ stored' = [stored EXCEPT ![d].vectors = @ /\ stored[d].blocks = None]
        /\ Move(t, "row")
        /\ UNCHANGED <<left, docs, minted, queue>> /\ World

(* A row that someone else removed ends the deletion with an error.        *)
DeleteRow(t) ==
    LET d == job[t].doc
    IN  /\ JobAt(t, "row")
        /\ docs' = doc_delete(docs, d)
        /\ stored' = [stored EXCEPT ![d].blocks = None, ![d].blob = None]
        /\ job' = [job EXCEPT ![t].old = d,
              ![t].pc = IF docs[d].status = "none" THEN AfterDeletion(t)
                                                   ELSE "gone"]
        /\ UNCHANGED <<left, minted, queue>> /\ World

HandleFileDeletion(t) == \/ NextVersion(t) \/ CancelVersions(t)
                         \/ MarkDeleting(t) \/ DeleteVectors(t) \/ DeleteRow(t)
-----------------------------------------------------------------------------
(* The registry's operations, under mu_.                                   *)
Scans == {"subscribe", "scan", "StartAll"}
Stops == {"unsubscribe", "remove", "StopAll"}
Table == UNCHANGED <<config, tableVars, spcVars, sweep>>
Disk == UNCHANGED <<file, past, marks>>

Request(op) ==
    /\ server = "up" /\ JobAt("request", "idle") /\ Spend(op)
    /\ job' = [job EXCEPT !["request"] = [NoJob EXCEPT !.op = op, !.pc = "lock"]]
    /\ UNCHANGED <<lifeVars, events, registryVars>> /\ Table /\ Disk

(* The main thread: StartAll before the server serves, StopAll after its   *)
(* last request.                                                           *)
Serving == job["main"].op = "StartAll" /\ JobAt("main", "idle")
Stopped == job["main"].op = "StopAll" /\ JobAt("main", "idle")
MainBegins ==
    /\ JobAt("main", "idle")
    /\ \E op \in {"StartAll", "StopAll"} :
          /\ IF op = "StartAll"
             THEN server = "requeueing" /\ requeue = {} /\ ~Serving
             ELSE server = "stopping" /\ JobAt("request", "idle") /\ ~Stopped
          /\ job' = [job EXCEPT !["main"] = [NoJob EXCEPT !.op = op, !.pc = "lock"]]
    /\ UNCHANGED <<left, lifeVars, events, registryVars>> /\ Table /\ Disk

(* mu_ is taken.  A directory that is not watched ends the request; a new  *)
(* one gets a slot and a scan; Stop() clears running_ and joins the event  *)
(* thread.                                                                 *)
Lock(t) ==
    LET op == job[t].op
        known == slot \/ op = "subscribe"
        scan == op \in Scans /\ ~(op = "subscribe" /\ slot)
    IN  /\ JobAt(t, "lock") /\ t # "events" /\ mu = None
        /\ mu' = IF known THEN t ELSE mu
        /\ slot' = known
        /\ running' = (running /\ op \notin Stops)
        /\ purged' = (purged /\ op # "subscribe")
        /\ Move(t, CASE ~known -> "idle"
                     [] known /\ op \in Stops -> "join"
                     [] known /\ scan -> "list"
                     [] OTHER -> "end")
        /\ UNCHANGED <<left, lifeVars, events, watched>> /\ Table /\ Disk

(* MUTANT of Join: the thread is told to stop and not waited for.          *)
JoinNot(t) ==
    /\ JobAt(t, "join")
    /\ Move(t, IF job[t].op = "remove" THEN "purge" ELSE "end")
    /\ UNCHANGED <<left, tableVars, queue>> /\ World

(* The join: the event thread has left its loop.                           *)
Join(t) ==
    /\ JobAt(t, "join") /\ JobAt("events", "off")
    /\ Move(t, IF job[t].op = "remove" THEN "purge" ELSE "end")
    /\ UNCHANGED <<left, tableVars, queue>> /\ World

(* InitialScan: the file if it is there, then CleanupStaleDocs.            *)
InitialScan(t) ==
    /\ JobAt(t, "list")
    /\ Move(t, IF file = None THEN "cleanup" ELSE "hash")
    /\ UNCHANGED <<left, tableVars, queue>> /\ World

(* The documents of the file that CleanupStaleDocs and DeleteAllDocs list. *)
Candidates == {d \in Live(docs, File) : docs[d].status # "deleting"}

CleanupStaleDocs(t) ==
    /\ JobAt(t, "cleanup")
    /\ \/ /\ IF Candidates # {} /\ file = None
             THEN job' = Delete(t) ELSE Move(t, "end")
          /\ UNCHANGED left
       \/ Spend("acquire") /\ Move(t, "end")
    /\ UNCHANGED <<tableVars, queue>> /\ World

DeleteAllDocs(t) ==
    /\ JobAt(t, "purge")
    /\ \/ /\ IF Candidates # {} THEN job' = Delete(t) ELSE Move(t, "end")
          /\ UNCHANGED left
       \/ Spend("acquire") /\ Move(t, "end")
    /\ UNCHANGED <<tableVars, queue>> /\ World

(* EnsureWatcherStarted: from here on the kernel queues events.  It may    *)
(* refuse; the subscription stays, with an error for an answer.            *)
EnsureWatcherStarted(t) ==
    /\ job[t].op \in {"subscribe", "StartAll"}
    /\ UNCHANGED <<slot, events>>
    /\ \/ /\ running' = TRUE
          /\ job' = [job EXCEPT ![t].pc = IF t = "main" THEN "idle" ELSE "save",
                !["events"] = IF running THEN @ ELSE [NoJob EXCEPT !.pc = "poll"]]
          /\ UNCHANGED left
       \/ ~running /\ Spend("watch") /\ Move(t, "idle") /\ UNCHANGED running

(* The last subscriber is gone, and with it the slot and its watcher.      *)
EraseSlot(t) ==
    /\ job[t].op \in {"unsubscribe", "remove"}
    /\ slot' = FALSE /\ events' = <<>>
    /\ Move(t, "save") /\ UNCHANGED <<left, running>>

(* The end of an operation; mu_ is released.                               *)
Unlock(t) ==
    /\ JobAt(t, "end")
    /\ mu' = None
    /\ \/ EnsureWatcherStarted(t)
       \/ EraseSlot(t)
       \/ /\ job[t].op \in {"scan", "StopAll"}
          /\ Move(t, "idle") /\ UNCHANGED <<left, slot, events, running>>
    /\ UNCHANGED <<lifeVars, watched, purged>> /\ Table /\ Disk

(* SaveState, under mu_ once more, and the answer.                         *)
SaveState ==
    /\ JobAt("request", "save") /\ mu = None
    /\ watched' = slot
    /\ purged' = (job["request"].op = "remove")
    /\ Move("request", "idle")
    /\ UNCHANGED <<left, lifeVars, events, running, slot, mu>> /\ Table /\ Disk

Operation(t) == \/ Lock(t) \/ Join(t) \/ InitialScan(t) \/ CleanupStaleDocs(t)
                \/ DeleteAllDocs(t) \/ Unlock(t) \/ ProcessFile(t)
                \/ HandleFileDeletion(t)
-----------------------------------------------------------------------------
(* The watcher's thread.                                                   *)

(* MUTANT of MergeEvent: a modification absorbs what follows it.           *)
MergeModified(prev, curr) ==
    CASE prev = "created" /\ curr = "deleted" -> "none"
      [] prev \in {"created", "modified"} -> prev
      [] OTHER -> curr

(* HandleFileEvents: events on one path are merged in order.               *)
MergeEvent(prev, curr) ==
    CASE prev = "created" /\ curr = "deleted" -> "none"
      [] prev = "created" /\ curr = "modified" -> "created"
      [] OTHER -> curr
Merge(evs) ==
    LET m[i \in 0..Len(evs)] ==
            IF i = 0 THEN "none" ELSE MergeEvent(m[i - 1], evs[i])
    IN  m[Len(evs)]

(* EventLoop: one read takes the queued events.  "merged": those on a file *)
(* that has a document came to nothing.                                    *)
ReadEvents ==
    /\ JobAt("events", "poll") /\ running /\ events # <<>>
    /\ job' = [job EXCEPT !["events"].op = Merge(events), !["events"].pc = "lock"]
    /\ events' = <<>>
    /\ marks' = marks \cup {m \in {"merged"} :
                               Merge(events) = "none" /\ Live(docs, File) # {}}
    /\ UNCHANGED <<left, lifeVars, file, registryVars, past>> /\ Table

(* MUTANT of FanOutEvents: the importers are called with mu_ held.         *)
FanOutLocked ==
    LET op == job["events"].op
    IN  /\ JobAt("events", "lock") /\ mu = None
        /\ mu' = "events"
        /\ CASE ~slot \/ op = "none" -> Move("events", "poll")
             [] slot /\ op = "deleted" -> job' = Delete("events")
             [] slot /\ op \in {"created", "modified"} -> Move("events", "hash")
        /\ UNCHANGED <<left, lifeVars, events, running, slot, watched, purged>>
        /\ Table /\ Disk

(* FanOutEvents: the importers are copied under mu_, then called.          *)
FanOutEvents ==
    LET op == job["events"].op
    IN  /\ JobAt("events", "lock") /\ mu = None
        /\ CASE ~slot \/ op = "none" -> Move("events", "poll")
             [] slot /\ op = "deleted" -> job' = Delete("events")
             [] slot /\ op \in {"created", "modified"} -> Move("events", "hash")
        /\ UNCHANGED <<left, tableVars, queue>> /\ World

(* MUTANT of ExitLoop: only when no events are waiting.                    *)
ExitDrained ==
    /\ JobAt("events", "poll") /\ ~running /\ events = <<>>
    /\ job' = [job EXCEPT !["events"] = NoThread]
    /\ UNCHANGED <<left, tableVars, queue>> /\ World

ExitLoop ==
    /\ JobAt("events", "poll") /\ ~running
    /\ job' = [job EXCEPT !["events"] = NoThread]
    /\ UNCHANGED <<left, tableVars, queue>> /\ World

EventLoop == \/ ReadEvents \/ FanOutEvents \/ ExitLoop
             \/ ProcessFile("events") \/ HandleFileDeletion("events")

(* The file changes: it is written or moved into place, rewritten, or      *)
(* removed.  Without a watch nobody hears of it.  "missed": it changed     *)
(* after the scan and before the watch; "returned": to an earlier content. *)
Unheard == /\ slot /\ ~running
           /\ ~\E t \in {"request", "main"} : mu = t /\ job[t].pc \in {"list", "hash"}
Change(c, ev) ==
    /\ Spend("file")
    /\ c # file /\ (ev = "deleted" <=> c = None) /\ (ev = "modified" => file # None)
    /\ file' = c
    /\ events' = IF running THEN Append(events, ev) ELSE events
    /\ past' = past \cup {c}
    /\ marks' = marks \cup {m \in {"missed"} : Unheard}
                      \cup {m \in {"returned"} : c \in past \ {None}}
    /\ UNCHANGED <<lifeVars, registryVars, job>> /\ Table
-----------------------------------------------------------------------------
Others == UNCHANGED <<file, events, registryVars, job, past, marks>>

(* A crash in SaveState can leave watchers.json empty.                     *)
CrashAll ==
    /\ Crash
    /\ job' = [t \in Threads |-> IF t = "events" THEN NoThread ELSE NoJob]
    /\ events' = <<>> /\ running' = FALSE /\ slot' = FALSE /\ mu' = None
    /\ \/ UNCHANGED watched
       \/ JobAt("request", "save") /\ watched' = FALSE
    /\ UNCHANGED <<file, purged, past, marks>>

(* LoadState at start-up.                                                  *)
LoadState ==
    /\ Recover /\ slot' = watched
    /\ marks' = marks \ {"merged", "missed"}
    /\ UNCHANGED <<file, events, running, watched, mu, purged, job, past>>

WorkerStep(w) == Work(w, file) /\ Others
Main == \/ MainBegins \/ Operation("main") \/ LoadState
        \/ (Resume \/ ResumeDone \/ Drain) /\ Others
        \/ Serve /\ Serving /\ Others
        \/ StopWorkers /\ Stopped /\ Others
RequestStep == Operation("request") \/ SaveState

(* A thread that joins the event thread while that one waits for mu_.      *)
Jammed == \E t \in Threads : JobAt(t, "join") /\ JobAt("events", "lock")
AtRest == /\ server = "up" /\ queue = <<>> /\ WorkersIdle
          /\ JobAt("request", "idle") /\ events = <<>>
          /\ job["events"].pc \in {"poll", "off"}
Wait == (AtRest \/ \E t \in Threads : JobAt(t, "join")) /\ UNCHANGED vars

Next == \/ EventLoop \/ RequestStep \/ Main
        \/ \E w \in Workers : WorkerStep(w)
        \/ \E op \in {"subscribe", "scan", "unsubscribe", "remove"} : Request(op)
        \/ \E c \in Contents \cup {None}, ev \in {"created", "modified", "deleted"} :
              Change(c, ev)
        \/ \E d \in Docs : (DeleteDocument(d) \/ Restore(d)) /\ Others
        \/ (Stop /\ Others) \/ CrashAll \/ Wait

Init == /\ CoreInit
        /\ file = None /\ events = <<>> /\ running = FALSE
        /\ slot = FALSE /\ watched = FALSE /\ mu = None /\ purged = FALSE
        /\ job = [t \in Threads |->
                     CASE t = "events" -> NoThread
                       [] t = "request" -> NoJob
                       [] t = "main" -> [NoJob EXCEPT !.op = "StartAll"]]
        /\ past = {} /\ marks = {}

Spec == Init /\ [][Next]_vars

(* Threads that can run do run, and a stopped server is started again.     *)
Fairness == /\ WF_vars(EventLoop) /\ WF_vars(RequestStep) /\ WF_vars(Main)
            /\ \A w \in Workers : WF_vars(WorkerStep(w))
LiveSpec == Spec /\ Fairness
-----------------------------------------------------------------------------
TypeOK ==
    /\ CoreTypeOK
    /\ file \in Contents \cup {None}
    /\ events \in Seq({"created", "modified", "deleted"})
    /\ running \in BOOLEAN /\ slot \in BOOLEAN /\ watched \in BOOLEAN
    /\ mu \in {None, "request", "main"}
    /\ job \in [Threads ->
          [op : {"none", "created", "modified", "deleted"} \cup Scans \cup Stops,
           pc : {"off", "poll", "idle", "lock", "list", "hash", "find", "active",
                 "count", "cancel", "again", "create", "submit", "cleanup",
                 "gone", "forget", "mark", "vectors", "row", "join", "purge",
                 "end", "save"},
           hash : Contents \cup {None}, old : Docs \cup {0}, doc : Docs \cup {0}]]
    /\ purged \in BOOLEAN /\ past \subseteq Contents \cup {None}
    /\ marks \subseteq {"merged", "missed", "returned"}

(* The documents follow the file.  With a watch running and nothing under  *)
(* way, a file that is gone has no live document, and one that is there is *)
(* answered by a ready document of its content: through scans, batches of  *)
(* events, cancelled tasks, deletions racing workers, a stop or a crash,   *)
(* and a restart.  (A content that returns can find its own version being  *)
(* processed from another one.  A scan can queue a version that the event  *)
(* thread has just queued, and a crash while saved tasks are resumed runs  *)
(* finished tasks again; the second task undoes what the first published.) *)
FollowsFile ==
    /\ AtRest /\ running /\ marks \cap {"merged", "missed"} = {}
    /\ Undisturbed({"acquire", "process", "publish", "withdraw", "disk", "blob",
                    "delete", "restore", "clock", "scan"})
    /\ Undisturbed({"crash"}) \/ Undisturbed({"stop"})
    => IF file = None THEN Live(docs, File) = {}
       ELSE \/ "returned" \in marks
            \/ \E d \in Served(docs, File) :
                 /\ docs[d].status = "ready" /\ stored[d].blocks = file
                 /\ stored[d].parents /\ stored[d].vectors

(* Removing a watch removes its documents, and no thread that was at work  *)
(* for it brings one back: the event thread is joined before they are      *)
(* listed, a scan that comes later finds no directory, and a task that is  *)
(* still running finds no row.                                             *)
RemovedStaysRemoved ==
    purged /\ Undisturbed({"acquire", "restore"}) => Live(docs, File) = {}

(* The registry's state keeps its types, and a removed watch stays so.     *)
WatchSound == TypeOK /\ RemovedStaysRemoved

(* Every request on a watch returns, but for one that joins the event      *)
(* thread with mu_ held while that thread waits for mu_.                   *)
Returned == JobAt("request", "idle")
RequestsReturnUnlessJammed == ~Returned ~> Returned \/ Jammed
=============================================================================
