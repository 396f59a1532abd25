------------------------------- MODULE PHnsw -------------------------------
(***************************************************************************)
(* The persistent vector index: PHnsw (src/store/phnsw/phnsw.cpp) over     *)
(* hnsw.wal (wal_writer.cpp) and its snapshots (snapshot_manager.cpp).     *)
(*                                                                         *)
(* A write is one INSERT or DELETE of a block, and its WAL record is named *)
(* by the write itself: the vector of block b is the write that stored it. *)
(* The graph is what hnswlib answers for each label: absent, marked        *)
(* deleted, or the vector.  The write lock serialises the batches of the   *)
(* flush thread and the snapshots of the snapshot thread, so one program   *)
(* counter holds the progress of whoever owns it.  The queue in front of   *)
(* the flush thread is GroupCommitWriter, modelled in full in PendingLog.  *)
(*                                                                         *)
(* The process may die between any two writes to the disk, and a power     *)
(* loss may keep any part of what was not synced.  WalWriter repairs the   *)
(* header only when its checksum is wrong or a torn record ends the file:  *)
(* a crash or a failing write that leaves a header that does not count the *)
(* records is a fault of its own kind, "header".                           *)
(***************************************************************************)
EXTENDS Integers, FiniteSets, SequencesExt

CONSTANTS
  Writes,    \* the writes callers may make
  Blocks,    \* block ids
  Absent,    \* graph: no such label
  Deleted,   \* graph: the label is marked deleted
  Torn,      \* WAL: bytes that do not decode as a record
  Configs    \* the configurations a run explores

Kinds == {"io", "torn", "crash", "header", "clock", "corrupt"}
Ops == [block : Blocks, insert : BOOLEAN]

ASSUME NamesAssumption ==
  /\ Absent \notin Writes /\ Deleted \notin Writes /\ Torn \notin Writes
  /\ Absent # Deleted
ASSUME ConfigsAssumption ==
  \A c \in Configs :
    /\ c.writes \subseteq Writes
    /\ c.max_batch \in Nat \ {0}
    /\ c.snapshot_max_wal_entries \in Nat
    /\ c.keep_count \in Nat \ {0}
    /\ c.max_faults \in [Kinds -> Nat]    \* bound, per kind
    /\ c.max_total \in Nat                \* bound, over all kinds
    /\ c.max_clock \in Nat                \* bound: snapshots taken

VARIABLES
  config,
  op,         \* what each write does
  answer,     \* its future: "none", "waiting", "ok", "error"
  queue,      \* writes submitted to the committer
  batch,      \* the batch ApplySink holds, or the records recovery replays
  next,       \* how far into the batch the apply loop is
  pc,         \* progress of the owner of mutex_, "free" when there is none
  saving,     \* the timestamp of the snapshot being saved
  mode,       \* "up" when ready_, "down" between two opens of the index
  file,       \* hnsw.wal as the process reads it
  durable,    \* hnsw.wal as of the last completed sync
  wal,        \* entry_count_ and committed_lsn_ of the WalWriter
  idx,        \* index_, deleted_count_ and applied_lsn_
  requested,  \* snapshot_requested_
  snapping,   \* the snapshot thread has consumed a request
  snaps,      \* the hnsw_<ts>.index files and their .meta
  clock,      \* NowMs of the last snapshot
  acked,      \* history: what the last acknowledged write of a block stored
  maybe,      \* history: what unacknowledged writes may have stored since
  faults      \* how many of each kind of fault have happened

callVars == <<op, answer, queue, batch, next>>
logVars == <<file, durable, wal>>
snapVars == <<requested, snapping, snaps, clock>>
pastVars == <<acked, maybe>>
vars == <<config, callVars, pc, saving, mode, logVars, idx, snapVars, pastVars, faults>>

EmptyGraph == [b \in Blocks |-> Absent]
EmptyFile == [recs |-> <<>>, count |-> 0, lsn |-> 0, trusted |-> TRUE]

Init ==
  /\ config \in Configs
  /\ op \in [Writes -> Ops]
  /\ answer = [w \in Writes |-> "none"]
  /\ queue = <<>> /\ batch = <<>> /\ next = 1
  /\ pc = "free" /\ saving = 0 /\ mode = "up"
  /\ file = EmptyFile /\ durable = EmptyFile
  /\ wal = [count |-> 0, lsn |-> 0]
  /\ idx = [graph |-> EmptyGraph, deleted |-> 0, applied |-> 0]
  /\ requested = FALSE /\ snapping = FALSE
  /\ snaps = {} /\ clock = 0
  /\ acked = EmptyGraph /\ maybe = [b \in Blocks |-> {}]
  /\ faults = [k \in Kinds |-> 0]

Total == MapThenSumSet(LAMBDA k : faults[k], Kinds)
Fault(k) ==
  /\ faults[k] < config.max_faults[k]
  /\ Total < config.max_total
  /\ faults' = [faults EXCEPT ![k] = @ + 1]

----------------------------------------------------------------------------
(* Applying a record to the graph                                          *)

DeletedIn(g) == Cardinality({b \in Blocks : g[b] = Deleted})

\* ApplyEntryLocked: an INSERT of a deleted label unmarks it first; a DELETE of
\* an absent or deleted label throws inside hnswlib and changes nothing.
ApplyEntryLocked(x, w) ==
  LET b == op[w].block
      was == x.graph[b]
  IN [applied |-> x.applied + 1,
      graph |-> [x.graph EXCEPT ![b] =
        IF op[w].insert THEN w ELSE IF was = Absent THEN Absent ELSE Deleted],
      deleted |->
        IF op[w].insert /\ was = Deleted /\ x.deleted > 0 THEN x.deleted - 1
        ELSE IF ~op[w].insert /\ was \in Writes THEN x.deleted + 1
        ELSE x.deleted]

\* What a caller sees of a label (Exists, Search).
View(g, b) == IF g[b] = Deleted THEN Absent ELSE g[b]
Stores(w) == IF op[w].insert THEN w ELSE Absent

----------------------------------------------------------------------------
(* Writes: AddPoint, AddPoints and MarkDelete submit one frame per write    *)

Submit(w) ==
  /\ mode = "up"
  /\ answer[w] = "none"
  /\ answer' = [answer EXCEPT ![w] = "waiting"]
  /\ queue' = Append(queue, w)
  /\ UNCHANGED <<config, saving, op, batch, next, pc, mode, logVars, idx, snapVars, pastVars, faults>>

\* AddPoint on an index that is not ready fails without touching the WAL.
SubmitRefused(w) ==
  /\ mode = "down"
  /\ answer[w] = "none"
  /\ answer' = [answer EXCEPT ![w] = "error"]
  /\ UNCHANGED <<config, saving, op, queue, batch, next, pc, mode, logVars, idx, snapVars, pastVars, faults>>

Answered(ws, a) == [w \in Writes |-> IF w \in ToSet(ws) THEN a ELSE answer[w]]
Stored(ws, b) == {Stores(w) : w \in {v \in ToSet(ws) : op[v].block = b}}
LastStored(ws, b) ==
  LET mine == SelectSeq(ws, LAMBDA w : op[w].block = b)
  IN IF mine = <<>> THEN acked[b] ELSE Stores(Last(mine))
Noted(ws) == [b \in Blocks |-> maybe[b] \cup Stored(ws, b)]
NextBatch == SubSeq(queue, 1, IF Len(queue) < config.max_batch THEN Len(queue) ELSE config.max_batch)

\* ApplySink::Sync takes the write lock and WriteRecordsLocked appends the
\* records of the batch at the end of the file, counting them in memory.
WriteRecords ==
  /\ mode = "up" /\ pc = "free" /\ queue # <<>>
  /\ batch' = NextBatch
  /\ queue' = SubSeq(queue, Len(NextBatch) + 1, Len(queue))
  /\ file' = [file EXCEPT !.recs = @ \o NextBatch]
  /\ wal' = [count |-> wal.count + Len(NextBatch), lsn |-> wal.lsn + Len(NextBatch)]
  /\ maybe' = Noted(NextBatch)
  /\ pc' = "records"
  /\ UNCHANGED <<config, saving, op, answer, next, mode, durable, idx, snapVars, acked, faults>>

\* The pwrite of record n + 1 fails, perhaps after storing a part of it: what
\* is in the file stays there, and is not counted.
WriteRecordsFails(n, tear) ==
  /\ mode = "up" /\ pc = "free" /\ queue # <<>>
  /\ n < Len(NextBatch)
  /\ Fault(IF n = 0 /\ ~tear THEN "io" ELSE "torn")
  /\ queue' = SubSeq(queue, Len(NextBatch) + 1, Len(queue))
  /\ file' = [file EXCEPT
       !.recs = @ \o SubSeq(NextBatch, 1, n) \o (IF tear THEN <<Torn>> ELSE <<>>)]
  /\ maybe' = Noted(SubSeq(NextBatch, 1, n))
  /\ answer' = Answered(NextBatch, "error")
  /\ UNCHANGED <<config, saving, op, batch, next, pc, mode, durable, wal, idx, snapVars, acked>>

HeaderWritten == [recs |-> file.recs, count |-> wal.count, lsn |-> wal.lsn, trusted |-> TRUE]

RewriteHeader ==
  /\ pc = "records"
  /\ file' = HeaderWritten
  /\ pc' = "header"
  /\ UNCHANGED <<config, saving, callVars, mode, durable, wal, idx, snapVars, pastVars, faults>>

\* Variant: the batch is applied and acknowledged without fdatasync.
SyncSkipped ==
  /\ pc = "header"
  /\ pc' = "synced"
  /\ UNCHANGED <<config, saving, callVars, mode, logVars, idx, snapVars, pastVars, faults>>

Sync ==
  /\ pc = "header"
  /\ durable' = file
  /\ pc' = "synced"
  /\ UNCHANGED <<config, saving, callVars, mode, file, wal, idx, snapVars, pastVars, faults>>

\* Variant: a failed batch leaves its futures unresolved.
BatchFailsSilently ==
  /\ pc \in {"records", "header"}
  /\ Fault(IF pc = "records" THEN "header" ELSE "io")
  /\ batch' = <<>>
  /\ pc' = "free"
  /\ UNCHANGED <<config, saving, op, answer, queue, next, mode, logVars, idx, snapVars, pastVars>>

\* RewriteHeaderLocked or fdatasync fails: the batch is answered with the error
\* and nothing is applied, but its records stay in the file and are counted.
BatchFails ==
  /\ pc \in {"records", "header"}
  /\ Fault(IF pc = "records" THEN "header" ELSE "io")
  /\ answer' = Answered(batch, "error")
  /\ batch' = <<>>
  /\ pc' = "free"
  /\ UNCHANGED <<config, saving, op, queue, next, mode, logVars, idx, snapVars, pastVars>>

\* One round of the loops that apply records in WAL order: a durable batch in
\* ApplySink::Sync, what recovery replays in RecoverInternal.
ApplyNext ==
  /\ pc \in {"synced", "replay"} /\ next <= Len(batch)
  /\ idx' = ApplyEntryLocked(idx, batch[next])
  /\ next' = next + 1
  /\ UNCHANGED <<config, op, answer, queue, batch, pc, saving, mode, logVars, snapVars, pastVars,
                 faults>>

\* The whole batch is applied: MaybeRequestSnapshotLocked asks for a snapshot if
\* the WAL has grown past its threshold, the lock is released and the futures
\* of the batch resolve.
FinishBatch ==
  /\ pc = "synced" /\ next > Len(batch)
  /\ requested' = (requested \/ (config.snapshot_max_wal_entries > 0 /\
                                 wal.count >= config.snapshot_max_wal_entries))
  /\ answer' = Answered(batch, "ok")
  /\ acked' = [b \in Blocks |-> LastStored(batch, b)]
  /\ maybe' = [b \in Blocks |-> IF Stored(batch, b) = {} THEN maybe[b] ELSE {}]
  /\ batch' = <<>> /\ next' = 1
  /\ pc' = "free"
  /\ UNCHANGED <<config, op, queue, saving, mode, logVars, idx, snapping, snaps, clock, faults>>

----------------------------------------------------------------------------
(* Snapshots                                                               *)

\* Variant: the request is consumed and no snapshot follows.
SnapshotLoopForgets ==
  /\ mode = "up" /\ requested /\ ~snapping
  /\ requested' = FALSE
  /\ UNCHANGED <<config, callVars, pc, saving, mode, logVars, idx, snapping, snaps, clock,
                 pastVars, faults>>

\* SnapshotLoop wakes up and consumes the request; Snapshot then waits for the
\* write lock.
SnapshotLoop ==
  /\ mode = "up" /\ requested /\ ~snapping
  /\ requested' = FALSE
  /\ snapping' = TRUE
  /\ UNCHANGED <<config, callVars, pc, saving, mode, logVars, idx, snaps, clock, pastVars, faults>>

\* The file a Save at time ts writes: an .index next to the .meta that an
\* earlier Save of the same millisecond may have left, which no longer fits it.
IndexFile(ts) ==
  [ts |-> ts, graph |-> idx.graph, lsn |-> 0,
   meta |-> IF \E s \in snaps : s.ts = ts /\ s.meta # "none" THEN "bad" ELSE "none"]
Without(ts) == {s \in snaps : s.ts # ts}

\* Save up to the rename of the .index.  The names of the files come from the
\* wall clock, which may repeat a value or go back (kind "clock").
SaveIndex(ts) ==
  /\ mode = "up" /\ pc = "free" /\ snapping
  /\ clock < config.max_clock
  /\ IF ts = clock + 1 THEN UNCHANGED faults ELSE Fault("clock")
  /\ clock' = clock + 1
  /\ snaps' = Without(ts) \cup {IndexFile(ts)}
  /\ pc' = "index" /\ saving' = ts
  /\ UNCHANGED <<config, callVars, mode, logVars, idx, requested, snapping, pastVars>>

\* CleanOldSnapshots: whatever is not among the keep_count newest goes, and an
\* orphan .index counts as one of them.
Kept(S) == {s \in S : Cardinality({t \in S : t.ts > s.ts}) < config.keep_count}

\* Variant: the footer is stamped with the LSN of the WAL's next record.
SaveMetaAhead ==
  /\ pc = "index"
  /\ snaps' = Kept(Without(saving) \cup
       {[ts |-> saving, graph |-> idx.graph, lsn |-> idx.applied + 1, meta |-> "ok"]})
  /\ pc' = "saved" /\ saving' = 0
  /\ UNCHANGED <<config, callVars, mode, logVars, idx, requested, snapping, clock, pastVars, faults>>

\* The .meta, stamped with applied_lsn_, commits the snapshot.
SaveMeta ==
  /\ pc = "index"
  /\ snaps' = Kept(Without(saving) \cup
       {[ts |-> saving, graph |-> idx.graph, lsn |-> idx.applied, meta |-> "ok"]})
  /\ pc' = "saved" /\ saving' = 0
  /\ UNCHANGED <<config, callVars, mode, logVars, idx, requested, snapping, clock, pastVars, faults>>

\* Save fails before anything is renamed, or at the .meta, when it removes the
\* .index again: Snapshot returns without truncating the WAL.
SaveFails ==
  /\ mode = "up" /\ snapping
  /\ Fault("io")
  /\ \/ pc = "free" /\ UNCHANGED snaps
     \/ pc = "index" /\ snaps' = Without(saving)
  /\ pc' = "free" /\ saving' = 0
  /\ snapping' = FALSE
  /\ UNCHANGED <<config, callVars, mode, logVars, idx, requested, clock, pastVars>>

\* Truncate: the records go and the count restarts; committed_lsn_ stays.
Truncate ==
  /\ pc = "saved"
  /\ file' = [file EXCEPT !.recs = <<>>]
  /\ wal' = [wal EXCEPT !.count = 0]
  /\ pc' = "cut"
  /\ UNCHANGED <<config, saving, callVars, mode, durable, idx, snapVars, pastVars, faults>>

TruncateHeader ==
  /\ pc = "cut"
  /\ file' = HeaderWritten
  /\ pc' = "cutheader"
  /\ UNCHANGED <<config, saving, callVars, mode, durable, wal, idx, snapVars, pastVars, faults>>

TruncateSync ==
  /\ pc = "cutheader"
  /\ durable' = file
  /\ pc' = "free"
  /\ snapping' = FALSE
  /\ UNCHANGED <<config, saving, callVars, mode, file, wal, idx, requested, snaps, clock, pastVars, faults>>

\* ftruncate, the header or the sync fails; Snapshot returns the error.
TruncateFails ==
  /\ pc \in {"saved", "cut", "cutheader"}
  /\ Fault(IF pc = "cut" THEN "header" ELSE "io")
  /\ pc' = "free"
  /\ snapping' = FALSE
  /\ UNCHANGED <<config, saving, callVars, mode, logVars, idx, requested, snaps, clock, pastVars>>

----------------------------------------------------------------------------
(* Close, crash and recovery                                               *)

\* The destructor: the committer drains its queue, the snapshot thread finishes
\* the snapshot it is taking and forgets the one it was asked for.
Close ==
  /\ mode = "up" /\ pc = "free" /\ queue = <<>> /\ ~snapping
  /\ mode' = "down"
  /\ requested' = FALSE
  /\ UNCHANGED <<config, saving, callVars, pc, logVars, idx, snapping, snaps, clock, pastVars, faults>>

Dies ==
  /\ mode = "up" \/ pc = "replay"
  /\ mode' = "down" /\ pc' = "free" /\ saving' = 0
  /\ answer' = [w \in Writes |-> IF answer[w] = "waiting" THEN "error" ELSE answer[w]]
  /\ queue' = <<>> /\ batch' = <<>> /\ next' = 1
  /\ requested' = FALSE /\ snapping' = FALSE
  /\ UNCHANGED <<config, op, wal, idx, snaps, clock, pastVars>>

HasTorn(recs) == Torn \in ToSet(recs)
Base(img) == img.lsn - img.count

\* ReadAll will not see that the header of this image is wrong, or cannot know
\* what it should be.
Skewed(img) ==
  \/ ~img.trusted
  \/ IF HasTorn(img.recs) THEN Base(img) # wal.lsn - wal.count ELSE img.count # Len(img.recs)

\* The process is killed: what it wrote is still there.
Kill ==
  /\ Dies
  /\ Fault(IF Skewed(file) THEN "header" ELSE "crash")
  /\ UNCHANGED <<file, durable>>

\* What a power loss may leave of hnsw.wal: of the records not synced a part,
\* perhaps torn; the header of before or after, or torn.
Records ==
  LET n == Len(LongestCommonPrefix({file.recs, durable.recs}))
      cuts == {SubSeq(file.recs, 1, k) : k \in n..Len(file.recs)}
  IN {file.recs, durable.recs} \cup cuts
     \cup {Append(r, Torn) : r \in {c \in cuts : Len(c) < Len(file.recs)}}
PowerImages ==
  {[h EXCEPT !.recs = r] : r \in Records, h \in {file, durable}}
  \cup (IF file = durable THEN {}
        ELSE {[recs |-> r, count |-> 0, lsn |-> 0, trusted |-> FALSE] : r \in Records})

PowerLoss(img) ==
  /\ Dies
  /\ Fault(IF Skewed(img) THEN "header" ELSE "crash")
  /\ file' = img /\ durable' = img

\* The disk damages the newest committed snapshot.
Corrupt ==
  /\ mode = "down" /\ pc = "free"
  /\ Fault("corrupt")
  /\ \E s \in snaps :
       /\ s.meta = "ok" /\ \A t \in snaps : t.meta = "ok" => t.ts <= s.ts
       /\ snaps' = (snaps \ {s}) \cup {[s EXCEPT !.meta = "bad"]}
  /\ UNCHANGED <<config, callVars, pc, saving, mode, logVars, idx, requested, snapping, clock, pastVars>>

\* Variant: decoding runs on past a record that does not decode.
FirstTornNever(recs) == 0

\* ReadAll: the records before the first one that does not decode.  Open takes
\* the counts from a header it trusts; a torn tail or an untrusted header makes
\* ReadAll count again, from the base the header gives.
FirstTorn(recs) == SelectInSeq(recs, LAMBDA r : r = Torn)
ReadAll ==
  LET n == FirstTorn(file.recs)
      recs == IF n = 0 THEN file.recs ELSE SubSeq(file.recs, 1, n - 1)
  IN IF n = 0 /\ file.trusted THEN file
     ELSE [recs |-> recs, count |-> Len(recs), lsn |-> Base(file) + Len(recs), trusted |-> TRUE]

\* Load: the newest snapshot whose .meta fits its .index; none at all means an
\* empty graph, but a .meta with no good .index refuses to open.
Loadable == {s \in snaps : s.meta = "ok"}
NoSnapshot == [ts |-> 0, graph |-> EmptyGraph, lsn |-> 0, meta |-> "ok"]
Load ==
  IF Loadable # {} THEN {s \in Loadable : \A t \in Loadable : t.ts <= s.ts}
  ELSE IF \A t \in snaps : t.meta = "none" THEN {NoSnapshot} ELSE {}

\* Variant: deleted_count_ restarts at zero.
SeededZero(s) == [graph |-> s.graph, deleted |-> 0, applied |-> s.lsn]

Seeded(s) == [graph |-> s.graph, deleted |-> DeletedIn(s.graph), applied |-> s.lsn]

\* The records RecoverInternal applies: those past the snapshot's LSN.
Unseen(img, lsn) ==
  SubSeq(img.recs, IF lsn > Base(img) THEN lsn - Base(img) + 1 ELSE 1, Len(img.recs))

\* WalWriter::Open and RecoverInternal up to the replay: the index starts from
\* the newest snapshot, and the records after it are to be applied.
Open ==
  /\ mode = "down" /\ pc = "free"
  /\ \E s \in Load :
       /\ idx' = Seeded(s)
       /\ batch' = Unseen(ReadAll, s.lsn)
  /\ file' = ReadAll
  /\ durable' = IF ReadAll = file THEN durable ELSE ReadAll
  /\ wal' = [count |-> ReadAll.count, lsn |-> ReadAll.lsn]
  /\ pc' = "replay"
  /\ UNCHANGED <<config, op, answer, queue, next, saving, mode, snapVars, pastVars, faults>>

\* The replay is over: the threads start and the index is ready.
Ready ==
  /\ pc = "replay" /\ next > Len(batch)
  /\ batch' = <<>> /\ next' = 1
  /\ pc' = "free" /\ mode' = "up"
  /\ UNCHANGED <<config, op, answer, queue, saving, logVars, idx, snapVars, pastVars, faults>>

----------------------------------------------------------------------------
FlushThread ==
  \/ WriteRecords
  \/ \E n \in 0..config.max_batch - 1, tear \in BOOLEAN : WriteRecordsFails(n, tear)
  \/ RewriteHeader
  \/ Sync
  \/ BatchFails
  \/ ApplyNext
  \/ FinishBatch

SnapshotThread ==
  \/ SnapshotLoop
  \/ \E ts \in 1..clock + 1 : SaveIndex(ts)
  \/ SaveMeta
  \/ SaveFails
  \/ Truncate
  \/ TruncateHeader
  \/ TruncateSync
  \/ TruncateFails

Restart == Open \/ Ready

Next ==
  \/ \E w \in config.writes : Submit(w) \/ SubmitRefused(w)
  \/ FlushThread
  \/ SnapshotThread
  \/ Close
  \/ Kill
  \/ \E img \in PowerImages : PowerLoss(img)
  \/ Corrupt
  \/ Restart

Spec == Init /\ [][Next]_vars

\* Both threads run; the flush thread and the snapshot thread compete for a
\* lock that each releases after finitely many steps, and neither is starved of
\* it.  Whoever opens the index keeps at it.
FairSpec ==
  /\ Spec
  /\ SF_vars(FlushThread) /\ SF_vars(SnapshotThread) /\ WF_vars(Restart)

----------------------------------------------------------------------------
(* Properties                                                              *)

Seqs == Seq(Writes \cup {Torn})
Files == [recs : Seqs, count : Nat, lsn : Int, trusted : BOOLEAN]
Graphs == [Blocks -> Writes \cup {Absent, Deleted}]

CallsOK ==
  /\ op \in [Writes -> Ops]
  /\ answer \in [Writes -> {"none", "waiting", "ok", "error"}]
  /\ queue \in Seq(Writes) /\ batch \in Seq(Writes) /\ next \in Nat \ {0}
  /\ pc \in {"free", "records", "header", "synced", "index", "saved", "cut", "cutheader", "replay"}
  /\ mode \in {"up", "down"}
LogOK ==
  /\ file \in Files /\ durable \in Files
  /\ wal \in [count : Nat, lsn : Int]
IndexOK ==
  /\ idx \in [graph : Graphs, deleted : Nat, applied : Nat]
  /\ acked \in [Blocks -> Writes \cup {Absent}]
  /\ maybe \in [Blocks -> SUBSET (Writes \cup {Absent})]
SnapsOK ==
  /\ requested \in BOOLEAN /\ snapping \in BOOLEAN
  /\ clock \in Nat /\ saving \in Nat
  /\ \A s \in snaps :
       s \in [ts : Nat, graph : Graphs, lsn : Nat, meta : {"none", "ok", "bad"}]
FaultsOK == config \in Configs /\ faults \in [Kinds -> Nat]

\* Every variable has its type.
TypeOK == CallsOK /\ LogOK /\ IndexOK /\ SnapsOK /\ FaultsOK

\* "a write returns once it is BOTH durable and visible" (phnsw.cpp): at every
\* moment the index is ready, also after any number of crashes, power losses and
\* restarts, a block shows its last acknowledged write or one that was under way
\* or failed after it.
DurableAndVisible ==
  mode = "up" => \A b \in Blocks : View(idx.graph, b) \in {acked[b]} \cup maybe[b]

\* No fault of a kind the WAL and the snapshots do not survive has happened.
Intact == \A k \in Kinds \ {"io", "crash"} : faults[k] = 0

\* DurableAndVisible under failing writes, syncs, snapshots and truncations,
\* kills at any step and power losses, as long as the header and the records of
\* hnsw.wal stay together, no record is torn by a failing write, the clock
\* moves on between snapshots and no snapshot is damaged.
AckedSurvive == Intact => DurableAndVisible

\* deleted_count_ is exactly the number of labels marked deleted in the graph,
\* so SearchLocked never asks hnswlib for more than the live elements: through
\* re-inserts, repeated deletes, snapshots that hold deleted labels, and replay.
DeletedCountExact == idx.deleted = DeletedIn(idx.graph)

\* "the next WAL records keep ascending consistently" (Snapshot): the next
\* record gets an LSN above that of every committed snapshot, or recovery would
\* skip it, and applied_lsn_ never passes the LSN of the last record.
LsnAscends ==
  mode = "up" /\ Intact =>
    /\ idx.applied <= wal.lsn
    /\ \A s \in snaps : s.meta = "ok" => s.lsn <= wal.lsn

\* What recovery relies on, through failures, kills and power losses: the index,
\* its counter and the numbering of the WAL agree.
IndexSound == TypeOK /\ DeletedCountExact /\ LsnAscends

\* AddPoint and MarkDelete block on their future: it is resolved, whatever
\* fails, crashes or snapshots meanwhile.  And a WAL that has passed its threshold
\* is snapshotted and truncated, unless the snapshot fails or the process ends
\* first (MaybeRequestSnapshotLocked, SnapshotLoop, Snapshot).
IndexProgress ==
  /\ \A w \in Writes : answer[w] = "waiting" ~> answer[w] # "waiting"
  /\ requested ~> (wal.count = 0 \/ mode = "down" \/ faults["io"] > 0 \/ clock = config.max_clock)
=============================================================================
