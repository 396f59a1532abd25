-------------------------- MODULE WriteCoordinator --------------------------
(***************************************************************************)
(* A document write across the vector index, the SQLite store and the      *)
(* pending write log, and the recovery a namespace runs when it loads.     *)
(*                                                                         *)
(*   src/store/write_coordinator.cpp    BeginWrite, Commit, Rollback,      *)
(*                                      Recover                            *)
(*   src/spc/spc_pipeline.cpp           the stores an ingest writes        *)
(*   src/spc/spc_manager.cpp            the document status around it      *)
(*   src/resource/namespace_pool.cpp    rollback cleanup, load order       *)
(*                                                                         *)
(* A write is one attempt of one thread.  An ingest ("document" scope)     *)
(* writes the full-text row, the vectors, the parents and the blocks of    *)
(* its document; a repair ("blocks" scope) adds blocks and vectors to a    *)
(* document that is ready.  The vectors and the block rows of a write are  *)
(* several, and are abstracted to "none", "some" or "all" of them.  A      *)
(* crash is the death of the process: what a store accepted is kept.       *)
(* An append to the log is what DurableAppend promises: durable when Ok,   *)
(* and durable or not when it reports an error.                            *)
(***************************************************************************)
EXTENDS Integers, FiniteSets

CONSTANTS
  Writes,      \* write attempts
  Docs,
  Doc,         \* Doc[w]: the document of a write
  Scope,       \* Scope[w]: "document" or "blocks"
  Vectored,    \* writes whose every block has a vector (level 3)
  Configs,     \* the WriteCoordinatorConfig, workload and fault bounds to explore
  None         \* no write, no transaction

Amounts == {"none", "some", "all"}
Records == [st : {"P", "C", "R"}, id : Nat, w : Writes]

\* Faults: appends that fail and leave nothing ("append") or their record ("late"),
\* stores that fail ("store"), vector deletes of a cleanup that fail ("clean").
Kinds == {"append", "late", "store", "clean", "crash"}

ASSUME ConstantsAssumption ==
  /\ Doc \in [Writes -> Docs]
  /\ Scope \in [Writes -> {"document", "blocks"}]
  /\ Vectored \subseteq Writes
  /\ None \notin Writes /\ None \notin Records
  /\ \A c \in Configs :
       /\ c.writes \subseteq Writes
       /\ c.commit_max_retries \in Nat
       /\ c.compact_threshold \in Nat       \* 0 disables inline compaction
       /\ c.max_recovery_entries \in Nat
       /\ c.strict_recovery \in BOOLEAN
       /\ c.max_faults \in [Kinds -> Nat]

VARIABLES
  config,        \* a member of Configs
  wal,           \* pending.wal: set of [st |-> "P", "C" or "R", id, w]
  next,          \* next_txn_id_
  holder,        \* active_docs_: the write that holds each document
  txns,          \* active_txns_: state of each write's transaction
  sinceCompact,  \* committed_since_compact_
  pc, id, tries, \* where each write's thread is, its txn_id, its failed appends
  vec, blocks,   \* how much of each write the vector index and `blocks` hold
  parents,       \* writes whose rows are in `parents`
  fts,           \* the write behind each document's doc_fts5_index row
  status,        \* documents.status
  published,     \* history: the ingest that last made the document ready
  mode,          \* "up", or the stage of the namespace load
  todo, cur,     \* Recover: transactions to resolve, the one being finalized
  faults         \* how many faults of each kind have happened

memory == <<next, holder, txns, sinceCompact>>
threads == <<pc, id, tries>>
rows == <<parents, fts, status, published>>
stores == <<vec, blocks, rows>>
load == <<mode, todo, cur>>
vars == <<config, wal, memory, threads, stores, load, faults>>

Init ==
  /\ config \in Configs
  /\ wal = {} /\ next = 1
  /\ holder = [d \in Docs |-> None]
  /\ txns = [w \in Writes |-> "none"]
  /\ sinceCompact = 0
  /\ pc = [w \in Writes |-> "idle"]
  /\ id = [w \in Writes |-> 0]
  /\ tries = [w \in Writes |-> 0]
  /\ vec = [w \in Writes |-> "none"] /\ blocks = [w \in Writes |-> "none"]
  /\ parents = {}
  /\ fts = [d \in Docs |-> None]
  /\ status = [d \in Docs |-> "none"]
  /\ published = [d \in Docs |-> None]
  /\ mode = "up" /\ todo = {} /\ cur = None
  /\ faults = [k \in Kinds |-> 0]

----------------------------------------------------------------------------
(* Helpers                                                                 *)

At(w, p) == mode = "up" /\ pc[w] = p
Go(w, p) == pc' = [pc EXCEPT ![w] = p]
Fault(k) ==
  /\ faults[k] < config.max_faults[k]
  /\ faults' = [faults EXCEPT ![k] = @ + 1]

Record(st, w) == [st |-> st, id |-> id[w], w |-> w]

\* PendingLogWriter::Append as its caller sees it.
AppendOk(r) == wal' = wal \cup {r} /\ UNCHANGED faults
AppendFails(r) ==
  \/ Fault("append") /\ UNCHANGED wal
  \/ Fault("late") /\ wal' = wal \cup {r}

\* PendingLogWriter::Compact: PENDING records without a terminal record stay.
Terminated(L) == {r.id : r \in {q \in L : q.st # "P"}}
Live(L) == {r \in L : r.st = "P" /\ r.id \notin Terminated(L)}

Ingest(w) == Scope[w] = "document"
InFlight(w) == pc[w] \notin {"idle", "done"}
Siblings(w) == {v \in Writes : Doc[v] = Doc[w]}

Release(w) == holder' = [holder EXCEPT ![Doc[w]] = None]

----------------------------------------------------------------------------
(* A write, from its task to its end                                       *)

\* SPCManager::ProcessParsedDoc marks the document as processing.  Its callers
\* run one ingest of a document at a time.  A repair finds a ready document.
Start(w) ==
  /\ At(w, "idle") /\ w \in config.writes
  /\ IF Ingest(w)
     THEN /\ \A v \in Siblings(w) : Ingest(v) => ~InFlight(v)
          /\ status' = [status EXCEPT ![Doc[w]] = "processing"]
     ELSE /\ status[Doc[w]] = "ready"
          /\ UNCHANGED status
  /\ Go(w, "begin")
  /\ UNCHANGED <<wal, memory, id, tries, vec, blocks, parents, fts, published, load, faults>>

\* Variant of BeginWrite without the live-transaction check.
BeginWriteUnguarded(w) ==
  /\ At(w, "begin")
  /\ holder' = [holder EXCEPT ![Doc[w]] = w]
  /\ txns' = [txns EXCEPT ![w] = "pending"]
  /\ id' = [id EXCEPT ![w] = next]
  /\ next' = next + 1
  /\ Go(w, "pending")
  /\ UNCHANGED <<wal, sinceCompact, tries, stores, load, faults>>

\* BeginWrite under txn_map_mu_: reserve the document and draw a txn_id.
BeginWrite(w) ==
  /\ At(w, "begin")
  /\ holder[Doc[w]] = None
  /\ holder' = [holder EXCEPT ![Doc[w]] = w]
  /\ txns' = [txns EXCEPT ![w] = "pending"]
  /\ id' = [id EXCEPT ![w] = next]
  /\ next' = next + 1
  /\ Go(w, "pending")
  /\ UNCHANGED <<wal, sinceCompact, tries, stores, load, faults>>

BeginRejected(w) ==
  /\ At(w, "begin")
  /\ holder[Doc[w]] # None
  /\ Go(w, "fail")
  /\ UNCHANGED <<wal, memory, id, tries, stores, load, faults>>

AppendPending(w) ==
  /\ At(w, "pending")
  /\ AppendOk(Record("P", w))
  /\ Go(w, IF Ingest(w) THEN "fts" ELSE "vec")
  /\ UNCHANGED <<memory, id, tries, stores, load>>

AppendPendingFails(w) ==
  /\ At(w, "pending")
  /\ AppendFails(Record("P", w))
  /\ Release(w)
  /\ txns' = [txns EXCEPT ![w] = "none"]
  /\ Go(w, "fail")
  /\ UNCHANGED <<next, sinceCompact, id, tries, stores, load>>

\* UpsertDocFts5Row: delete by doc_id, then insert.
WriteFts(w) ==
  /\ At(w, "fts")
  /\ fts' = [fts EXCEPT ![Doc[w]] = w]
  /\ Go(w, "vec")
  /\ UNCHANGED <<wal, memory, id, tries, vec, blocks, parents, status, published, load, faults>>

WriteFtsFails(w) ==
  /\ At(w, "fts")
  /\ Fault("store")
  /\ \/ UNCHANGED fts
     \/ fts' = [fts EXCEPT ![Doc[w]] = None]
  /\ Go(w, "rollback")
  /\ UNCHANGED <<wal, memory, id, tries, vec, blocks, parents, status, published, load>>

More(amount) == IF amount = "none" THEN "some" ELSE "all"
AfterVectors(w) == IF Ingest(w) THEN "parents" ELSE "blocks"

\* AddPoints, point by point; a write without embeddings skips it.
AddPoints(w) ==
  /\ At(w, "vec")
  /\ IF w \in Vectored
     THEN /\ vec' = [vec EXCEPT ![w] = More(@)]
          /\ Go(w, IF vec[w] = "some" THEN AfterVectors(w) ELSE "vec")
     ELSE /\ UNCHANGED vec
          /\ Go(w, AfterVectors(w))
  /\ UNCHANGED <<wal, memory, id, tries, blocks, rows, load, faults>>

InsertParents(w) ==
  /\ At(w, "parents")
  /\ parents' = parents \cup {w}
  /\ Go(w, "blocks")
  /\ UNCHANGED <<wal, memory, id, tries, vec, blocks, fts, status, published, load, faults>>

\* block_insert, row by row, each in its own SQLite transaction.
InsertBlock(w) ==
  /\ At(w, "blocks")
  /\ blocks' = [blocks EXCEPT ![w] = More(@)]
  /\ Go(w, IF blocks[w] = "some" THEN "commit" ELSE "blocks")
  /\ UNCHANGED <<wal, memory, id, tries, vec, rows, load, faults>>

\* A store refuses a vector, a parent or a block: what landed stays for now.
StoreFails(w) ==
  /\ mode = "up"
  /\ pc[w] \in {"vec", "parents", "blocks"}
  /\ pc[w] = "vec" => w \in Vectored
  /\ Fault("store")
  /\ Go(w, "rollback")
  /\ UNCHANGED <<wal, memory, id, tries, stores, load>>

----------------------------------------------------------------------------
(* Commit                                                                  *)

MarkCommitted(w) ==
  /\ At(w, "commit")
  /\ txns[w] = "pending"
  /\ txns' = [txns EXCEPT ![w] = "committed"]
  /\ Go(w, "committed")
  /\ UNCHANGED <<wal, next, holder, sinceCompact, id, tries, stores, load, faults>>

AppendCommitted(w) ==
  /\ At(w, "committed")
  /\ AppendOk(Record("C", w))
  /\ Go(w, "release")
  /\ UNCHANGED <<memory, id, tries, stores, load>>

\* After the last retry the document is released and the error surfaced.
AppendCommittedFails(w) ==
  /\ At(w, "committed")
  /\ AppendFails(Record("C", w))
  /\ tries' = [tries EXCEPT ![w] = @ + 1]
  /\ IF tries[w] < config.commit_max_retries
     THEN UNCHANGED <<pc, holder>>
     ELSE Release(w) /\ Go(w, "fail")
  /\ UNCHANGED <<next, txns, sinceCompact, id, stores, load>>

AfterCommit(w) == IF Ingest(w) THEN "publish" ELSE "done"

ReleaseCommitted(w) ==
  /\ At(w, "release")
  /\ Release(w)
  /\ LET due == config.compact_threshold > 0 /\ sinceCompact + 1 >= config.compact_threshold
     IN /\ sinceCompact' = IF due THEN 0 ELSE sinceCompact + 1
        /\ Go(w, IF due THEN "compact" ELSE AfterCommit(w))
  /\ UNCHANGED <<wal, next, txns, id, tries, stores, load, faults>>

\* Variant of CompactInline that forgets live transactions too.
CompactInlineForgets(w) ==
  /\ At(w, "compact")
  /\ wal' = Live(wal)
  /\ txns' = [v \in Writes |-> "none"]
  /\ Go(w, AfterCommit(w))
  /\ UNCHANGED <<next, holder, sinceCompact, id, tries, stores, load, faults>>

\* Inline compaction, then the finalized entries leave active_txns_.
CompactInline(w) ==
  /\ At(w, "compact")
  /\ wal' = Live(wal)
  /\ txns' = [v \in Writes |-> IF txns[v] = "pending" THEN "pending" ELSE "none"]
  /\ Go(w, AfterCommit(w))
  /\ UNCHANGED <<next, holder, sinceCompact, id, tries, stores, load, faults>>

\* A failed compaction is swallowed: the commit has succeeded.
CompactFails(w) ==
  /\ At(w, "compact")
  /\ Fault("append")
  /\ Go(w, AfterCommit(w))
  /\ UNCHANGED <<wal, memory, id, tries, stores, load>>

\* MarkDocumentReady: doc_publish_version.
Publish(w) ==
  /\ At(w, "publish")
  /\ status' = [status EXCEPT ![Doc[w]] = "ready"]
  /\ published' = [published EXCEPT ![Doc[w]] = w]
  /\ Go(w, "done")
  /\ UNCHANGED <<wal, memory, id, tries, vec, blocks, parents, fts, load, faults>>

\* The ready write fails: an upload reports the failure, other tasks leave the
\* row processing until the next load.
PublishFails(w) ==
  /\ At(w, "publish")
  /\ Fault("store")
  /\ Go(w, "fail") \/ Go(w, "done")
  /\ UNCHANGED <<wal, memory, id, tries, stores, load>>

----------------------------------------------------------------------------
(* Rollback                                                                *)

MarkRolledBack(w) ==
  /\ At(w, "rollback")
  /\ txns[w] = "pending"
  /\ txns' = [txns EXCEPT ![w] = "rollback"]
  /\ Go(w, "rolledback")
  /\ UNCHANGED <<wal, next, holder, sinceCompact, id, tries, stores, load, faults>>

AppendRollback(w) ==
  /\ At(w, "rolledback")
  /\ AppendOk(Record("R", w))
  /\ Go(w, "unhold")
  /\ UNCHANGED <<memory, id, tries, stores, load>>

\* The error is returned at once: no release, no cleanup.
AppendRollbackFails(w) ==
  /\ At(w, "rolledback")
  /\ AppendFails(Record("R", w))
  /\ Go(w, "fail")
  /\ UNCHANGED <<memory, id, tries, stores, load>>

\* Variant of ReleaseRolledBack that keeps the document reserved.
ReleaseRolledBackHeld(w) ==
  /\ At(w, "unhold")
  /\ Go(w, "clean_vectors")
  /\ UNCHANGED <<wal, memory, id, tries, stores, load, faults>>

\* The document is released before the cleanup runs.
ReleaseRolledBack(w) ==
  /\ At(w, "unhold")
  /\ Release(w)
  /\ Go(w, "clean_vectors")
  /\ UNCHANGED <<wal, next, txns, sinceCompact, id, tries, stores, load, faults>>

\* MarkDelete of every vector of w; its result is not looked at.
DeleteVectors(w) ==
  \/ vec' = [vec EXCEPT ![w] = "none"] /\ UNCHANGED faults
  \/ Fault("clean") /\ UNCHANGED vec

\* The rollback callback: vectors by block id, block rows, and for an ingest the
\* parents and the full-text row by document id.
CleanVectors(w) ==
  /\ At(w, "clean_vectors")
  /\ DeleteVectors(w)
  /\ Go(w, "clean_blocks")
  /\ UNCHANGED <<wal, memory, id, tries, blocks, rows, load>>

CleanBlocks(w) ==
  /\ At(w, "clean_blocks")
  /\ blocks' = [blocks EXCEPT ![w] = "none"]
  /\ Go(w, IF Ingest(w) THEN "clean_document" ELSE "fail")
  /\ UNCHANGED <<wal, memory, id, tries, vec, rows, load, faults>>

CleanDocument(w) ==
  /\ At(w, "clean_document")
  /\ parents' = parents \ Siblings(w)
  /\ fts' = [fts EXCEPT ![Doc[w]] = None]
  /\ Go(w, "fail")
  /\ UNCHANGED <<wal, memory, id, tries, vec, blocks, status, published, load, faults>>

\* The task ends with an error, which a failed ingest writes on its document.
Fail(w) ==
  /\ At(w, "fail")
  /\ status' = IF Ingest(w) THEN [status EXCEPT ![Doc[w]] = "error"] ELSE status
  /\ Go(w, "done")
  /\ UNCHANGED <<wal, memory, id, tries, vec, blocks, parents, fts, published, load, faults>>

----------------------------------------------------------------------------
(* Crash and load                                                          *)

\* Threads and tables are gone; the next load reads the log.
Crash ==
  /\ Fault("crash")
  /\ pc' = [w \in Writes |-> IF pc[w] = "idle" THEN "idle" ELSE "done"]
  /\ holder' = [d \in Docs |-> None]
  /\ txns' = [w \in Writes |-> "none"]
  /\ sinceCompact' = 0
  /\ mode' = "recover"
  /\ todo' = {r.id : r \in wal}
  /\ cur' = None
  /\ UNCHANGED <<wal, next, id, tries, stores>>

Has(i, st) == \E r \in wal : r.id = i /\ r.st = st
\* Variant of AllStoresHave satisfied by any block row.
AllStoresHaveAny(w) == blocks[w] # "none" /\ vec[w] = "all"

\* Variant of AllStoresHave that never infers a commit.
AllStoresHaveNever(w) == w \notin Writes

AllStoresHave(w) == blocks[w] = "all" /\ vec[w] = "all"

\* Variant of Cleanup that drops the document's rows whatever the scope.
CleanupUnscoped(w) ==
  /\ DeleteVectors(w)
  /\ blocks' = [blocks EXCEPT ![w] = "none"]
  /\ parents' = parents \ Siblings(w)
  /\ fts' = [fts EXCEPT ![Doc[w]] = None]
  /\ UNCHANGED <<status, published>>

\* The rollback callback again, with nobody else running.
Cleanup(w) ==
  /\ DeleteVectors(w)
  /\ blocks' = [blocks EXCEPT ![w] = "none"]
  /\ parents' = IF Ingest(w) THEN parents \ Siblings(w) ELSE parents
  /\ fts' = IF Ingest(w) THEN [fts EXCEPT ![Doc[w]] = None] ELSE fts
  /\ UNCHANGED <<status, published>>

\* Recover refuses a log with too many records: the namespace does not load.
RecoverRefuses ==
  /\ mode = "recover"
  /\ Cardinality(wal) > config.max_recovery_entries
  /\ mode' = "refused"
  /\ UNCHANGED <<wal, memory, threads, stores, todo, cur, faults>>

\* Variant of Resolving that does not advance.
ResolvingAgain(i) ==
  /\ mode = "recover"
  /\ Cardinality(wal) <= config.max_recovery_entries
  /\ cur = None
  /\ i \in todo
  /\ UNCHANGED todo

Resolving(i) ==
  /\ mode = "recover"
  /\ Cardinality(wal) <= config.max_recovery_entries
  /\ cur = None
  /\ i \in todo
  /\ todo' = todo \ {i}

RecoverCommitted(i) ==
  /\ Resolving(i)
  /\ Has(i, "C")
  /\ UNCHANGED <<wal, memory, threads, stores, mode, cur, faults>>

\* The PENDING record of a transaction, whose payload names what to clean.
PendingOf(i) == {r \in wal : r.id = i /\ r.st = "P"}

RecoverRolledBack(i) ==
  /\ Resolving(i)
  /\ ~Has(i, "C") /\ Has(i, "R")
  /\ \E r \in PendingOf(i) : Cleanup(r.w)
  /\ UNCHANGED <<wal, memory, threads, mode, cur>>

\* PENDING only: every store has the data, so only the COMMITTED record was lost ...
RecoverInferCommitted(i) ==
  /\ Resolving(i)
  /\ ~Has(i, "C") /\ ~Has(i, "R")
  /\ \E r \in PendingOf(i) :
       /\ AllStoresHave(r.w)
       /\ cur' = [st |-> "C", id |-> i, w |-> r.w]
  /\ UNCHANGED <<wal, memory, threads, stores, mode, faults>>

\* ... or the crash landed mid-write.
RecoverMidWrite(i) ==
  /\ Resolving(i)
  /\ ~Has(i, "C") /\ ~Has(i, "R")
  /\ \E r \in PendingOf(i) :
       /\ ~AllStoresHave(r.w)
       /\ cur' = [st |-> "R", id |-> i, w |-> r.w]
       /\ Cleanup(r.w)
  /\ UNCHANGED <<wal, memory, threads, mode>>

RecoverFinalize ==
  /\ mode = "recover" /\ cur # None
  /\ \/ AppendOk(cur) /\ cur' = None /\ UNCHANGED mode
     \/ /\ AppendFails(cur)
        /\ cur' = None
        /\ mode' = IF config.strict_recovery THEN "refused" ELSE "recover"
  /\ UNCHANGED <<memory, threads, stores, todo>>

\* Variant of RecoverFinish that starts the counter over.
RecoverFinishFromOne ==
  /\ mode = "recover" /\ cur = None /\ todo = {}
  /\ Cardinality(wal) <= config.max_recovery_entries
  /\ wal' = Live(wal)
  /\ next' = 1
  /\ mode' = "drop_vectors"
  /\ UNCHANGED <<holder, txns, sinceCompact, threads, stores, todo, cur, faults>>

\* Compact, reseed the counter past every id read.
RecoverFinish ==
  /\ mode = "recover" /\ cur = None /\ todo = {}
  /\ Cardinality(wal) <= config.max_recovery_entries
  /\ wal' = Live(wal)
  /\ \E max_txn \in {0} \cup {r.id : r \in wal} :
       /\ \A r \in wal : r.id <= max_txn
       /\ next' = max_txn + 1
  /\ mode' = "drop_vectors"
  /\ UNCHANGED <<holder, txns, sinceCompact, threads, stores, todo, cur, faults>>

RecoverCompactFails ==
  /\ mode = "recover" /\ cur = None /\ todo = {}
  /\ Cardinality(wal) <= config.max_recovery_entries
  /\ Fault("append")
  /\ mode' = "refused"
  /\ UNCHANGED <<wal, memory, threads, stores, todo, cur>>

Interrupted(w) == status[Doc[w]] = "processing"

\* Step 8b, first half: the vectors whose block rows belong to an interrupted
\* document, and the parents of interrupted documents.
DropCrashedDocVectors ==
  /\ mode = "drop_vectors"
  /\ vec' = [w \in Writes |->
       CASE ~Interrupted(w) \/ blocks[w] = "none" -> vec[w]
         [] Interrupted(w) /\ blocks[w] = "some" -> IF vec[w] = "all" THEN "some" ELSE vec[w]
         [] Interrupted(w) /\ blocks[w] = "all" -> "none"]
  /\ parents' = {w \in parents : ~Interrupted(w)}
  /\ mode' = "reset_docs"
  /\ UNCHANGED <<wal, memory, threads, blocks, fts, status, published, todo, cur, faults>>

\* Step 8b, second half.
RecoverCrashedDocs ==
  /\ mode = "reset_docs"
  /\ blocks' = [w \in Writes |-> IF Interrupted(w) THEN "none" ELSE blocks[w]]
  /\ status' = [d \in Docs |-> IF status[d] = "processing" THEN "pending" ELSE status[d]]
  /\ mode' = "up"
  /\ UNCHANGED <<wal, memory, threads, vec, parents, fts, published, todo, cur, faults>>

----------------------------------------------------------------------------
Step(w) ==
  \/ BeginWrite(w) \/ BeginRejected(w)
  \/ AppendPending(w) \/ AppendPendingFails(w)
  \/ WriteFts(w) \/ WriteFtsFails(w)
  \/ AddPoints(w) \/ InsertParents(w) \/ InsertBlock(w) \/ StoreFails(w)
  \/ MarkCommitted(w) \/ AppendCommitted(w) \/ AppendCommittedFails(w)
  \/ ReleaseCommitted(w) \/ CompactInline(w) \/ CompactFails(w)
  \/ Publish(w) \/ PublishFails(w)
  \/ MarkRolledBack(w) \/ AppendRollback(w) \/ AppendRollbackFails(w)
  \/ ReleaseRolledBack(w)
  \/ CleanVectors(w) \/ CleanBlocks(w) \/ CleanDocument(w)
  \/ Fail(w)

Load ==
  \/ RecoverRefuses
  \/ \E i \in todo : \/ RecoverCommitted(i) \/ RecoverRolledBack(i)
                     \/ RecoverInferCommitted(i) \/ RecoverMidWrite(i)
  \/ RecoverFinalize
  \/ RecoverFinish \/ RecoverCompactFails
  \/ DropCrashedDocVectors
  \/ RecoverCrashedDocs

Next ==
  /\ UNCHANGED config
  /\ \/ \E w \in Writes : Start(w) \/ Step(w)
     \/ Crash
     \/ Load

Spec == Init /\ [][Next]_vars

\* Every writer thread and the loading thread keep running.
FairSpec ==
  /\ Spec
  /\ \A w \in Writes : WF_vars(UNCHANGED config /\ Step(w))
  /\ WF_vars(UNCHANGED config /\ Load)

----------------------------------------------------------------------------
(* Properties                                                              *)

Holding == {"pending", "fts", "vec", "parents", "blocks", "commit", "committed",
            "release", "rollback", "rolledback", "unhold"}
Places == Holding \cup {"idle", "begin", "compact", "publish", "clean_vectors",
                        "clean_blocks", "clean_document", "fail", "done"}

TablesOK ==
  /\ wal \subseteq Records
  /\ next \in Nat
  /\ sinceCompact \in Nat
  /\ config.compact_threshold > 0 => sinceCompact < config.compact_threshold
  /\ holder \in [Docs -> Writes \cup {None}]
  /\ txns \in [Writes -> {"none", "pending", "committed", "rollback"}]
ThreadsOK ==
  /\ pc \in [Writes -> Places]
  /\ id \in [Writes -> Nat]
  /\ tries \in [Writes -> Nat]
  /\ \A w \in Writes : tries[w] <= config.commit_max_retries + 1
  /\ \A w \in Writes : pc[w] \notin {"fail", "done"} => tries[w] <= config.commit_max_retries
StoresOK ==
  /\ vec \in [Writes -> Amounts]
  /\ blocks \in [Writes -> Amounts]
  /\ parents \subseteq Writes
  /\ fts \in [Docs -> Writes \cup {None}]
  /\ status \in [Docs -> {"none", "pending", "processing", "ready", "error"}]
  /\ published \in [Docs -> Writes \cup {None}]
LoadOK ==
  /\ mode \in {"up", "recover", "refused", "drop_vectors", "reset_docs"}
  /\ todo \subseteq Nat
  /\ cur \in Records \cup {None}
FaultsOK == faults \in [Kinds -> Nat]

\* The types of the coordinator's tables, the threads, the stores and the load, with
\* the bounds the code keeps: the commit counter stays below the compaction
\* threshold and no commit is retried more often than configured.
TypeOK ==
  config \in Configs /\ TablesOK /\ ThreadsOK /\ StoresOK /\ LoadOK /\ FaultsOK

\* BeginWrite's Q2 guard: between its BeginWrite and the release of its document
\* by Commit or Rollback a write is the document's only holder, whatever other
\* writes of the document are started, rejected, failed or cleaned up meanwhile.
OneWriterPerDoc ==
  \A w \in Writes : pc[w] \in Holding => holder[Doc[w]] = w

\* A txn_id in pending.wal means one write: the counter that Recover reseeds never
\* hands out the id of a record that is still in the log, so no terminal record
\* can finalize somebody else's PENDING record.
IdsUnique ==
  \A r, q \in wal : r.id = q.id => r.w = q.w

\* Writers stay apart: one per document, and no two behind one id.
WritersApart == OneWriterPerDoc /\ IdsUnique

\* Why ids are unique: every id in the log was drawn from the counter, a write that
\* may still append owns its id, and nothing appends while the counter is reseeded.
IdInv ==
  /\ \A r \in wal : r.id < next
  /\ \A r, q \in wal : r.id = q.id => r.w = q.w
  /\ \A w \in Writes : pc[w] \in Holding =>
       mode = "up" /\ id[w] < next /\ \A r \in wal : r.id = id[w] => r.w = w
  /\ \A v, w \in Writes : pc[v] \in Holding /\ pc[w] \in Holding /\ id[v] = id[w] => v = w
  /\ cur # None => mode \in {"recover", "refused"} /\ cur.id < next
                   /\ \A r \in wal : r.id = cur.id => r.w = cur.w

Whole(w) == blocks[w] = "all" /\ (w \in Vectored => vec[w] = "all")
Absent(w) == blocks[w] = "none" /\ vec[w] = "none" /\ w \notin parents
CleanupDue(w) ==
  \E r \in wal : r.w = w /\ r.st = "P" /\ ~\E q \in wal : q.id = r.id /\ q.st = "C"

\* One ingest of the document failed, at a store or at the log, and then the process
\* died: Recover undoes the failed one again, and takes along the rows of the one that
\* succeeded since.
UndoneAgain(d) ==
  /\ \E k \in {"store", "append", "late"} : faults[k] > 0
  /\ faults["crash"] > 0
  /\ \E v, w \in config.writes : v # w /\ Doc[v] = d /\ Doc[w] = d /\ Ingest(v) /\ Ingest(w)

\* The document a reader sees as ready has everything its ingest wrote: all blocks,
\* all vectors, its parents and its own full-text row, across crashes, failed
\* repairs, failed re-ingests and the recovery of any of them, but for UndoneAgain.
ReadyIsWhole ==
  \A d \in Docs : status[d] = "ready" /\ ~UndoneAgain(d) =>
    LET w == published[d]
    IN w # None /\ Whole(w) /\ w \in parents /\ fts[d] = w

\* The two ways to lose a cleanup: a vector delete fails, which the cleanup ignores, or
\* an inline compaction drops a ROLLBACK record before the cleanup has run, which then
\* never does because the process died or the append had reported an error.
CleanupLost ==
  \/ faults["clean"] > 0
  \/ /\ config.compact_threshold > 0 /\ faults["store"] > 0
     /\ faults["crash"] > 0 \/ faults["late"] > 0

\* A write that is over has all of its blocks and vectors in both stores or none in
\* either (and no parents), unless the log still holds the record that makes the
\* next load clean it up, or its cleanup was lost.
AllOrNothing ==
  mode = "up" /\ ~CleanupLost =>
    \A w \in Writes : pc[w] = "done" => Whole(w) \/ Absent(w) \/ CleanupDue(w)

\* Commit whose every append failed: the stores hold the data and no recovery takes
\* a block of it away, unless the document is being ingested again.  Of a write without
\* vectors Recover misses the vectors, and undoes it.
CommitFailureKeepsData ==
  [][\A w \in Vectored :
       tries[w] > config.commit_max_retries /\ blocks[w] = "all" /\ ~Interrupted(w)
         => blocks'[w] = "all"]_vars

\* Every write comes to an end, with failing appends, stores and compactions and
\* crashes in between; every load brings the namespace up; and no write keeps its
\* document reserved for ever (active_docs_).
WriteProgress ==
  /\ \A w \in Writes : InFlight(w) ~> ~InFlight(w)
  /\ mode # "up" ~> mode = "up"
  /\ \A d \in Docs : holder[d] # None ~> holder[d] = None
=============================================================================
