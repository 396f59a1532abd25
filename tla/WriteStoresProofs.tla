-------------------------- MODULE WriteStoresProofs --------------------------
(***************************************************************************)
(* Proofs about what a write leaves in the stores, for any set of writes,  *)
(* documents and configurations: ready documents are whole, finished       *)
(* writes are whole or absent, failed commits keep their data.             *)
(***************************************************************************)
EXTENDS WriteCoordinatorProofs

(* A transaction is opened by its own AppendPending and by nothing else. *)
LEMMA DueKept ==
  ASSUME TypeOK, IdInv, LogInv, (\E w \in Writes : Start(w) \/ Step(w)) \/ Crash \/ Load,
         NEW v \in Writes, Due(v)', pc[v] # "pending"
  PROVE  Due(v)
  <1>1. ASSUME NEW w \in Writes, Start(w) \/ Step(w), v # w PROVE Due(v)
    BY Zenon, <1>1, LogOthers DEF Due, Sts
  <1>2. ASSUME Start(v) \/ Step(v) PROVE Due(v)
    <2>1. ~Adding(v, "P")
      BY Zenon DEF Adding
    <2>2. CASE \A st \in Sts : Logged(st, v)' <=> Logged(st, v)
      BY Zenon, <2>2 DEF Due, Sts
    <2>3. ASSUME NEW t \in Sts, Adding(v, t), \A st \in Sts : Logged(st, v)' <=> Logged(st, v) \/ st = t
          PROVE  Due(v)
      BY Zenon, <2>1, <2>3 DEF Due, Sts
    <2>4. CASE Logged("P", v)' <=> Logged("P", v) /\ ~Logged("C", v) /\ ~Logged("R", v)
      BY Zenon, <2>4 DEF Due
    <2> QED BY Zenon, <1>2, <2>2, <2>3, <2>4, LogOwn
  <1>3. CASE Crash
    BY Zenon, <1>3, LogKept DEF Crash, Due, Sts
  <1>4. CASE Load
    <2>1. cur # None => cur.st # "P"
      BY Zenon DEF LogInv
    <2> QED BY Zenon, <1>4, <2>1, LogLoads DEF Due, Sts
  <1> QED BY Zenon, <1>1, <1>2, <1>3, <1>4

(* A document becomes ready by Publish, after the COMMITTED record. *)
LEMMA PublishOwn ==
  ASSUME TypeOK, NEW w \in Writes, Start(w) \/ Step(w)
  PROVE  /\ pc[w] # "done"
         /\ pc'[w] \in {"release", "compact", "publish"} =>
              pc[w] \in {"release", "compact", "publish"} \/ AppendCommitted(w)
         /\ \/ Publish(w)
            \/ UNCHANGED published /\ \A d \in Docs : status'[d] = "ready" => status[d] = "ready"
  <1>t. /\ pc \in [Writes -> Places] /\ Doc[w] \in Docs
        /\ status \in [Docs -> {"none", "pending", "processing", "ready", "error"}]
    BY ONLY Zenon, TypeOK, ConstantsAssumption DEF TypeOK, ThreadsOK, StoresOK
  <1> USE <1>t DEF At, Go, rows, stores
  <1>1. CASE Start(w)
    BY Zenon, <1>1 DEF Start
  <1>2. CASE BeginWrite(w)
    BY Zenon, <1>2 DEF BeginWrite
  <1>3. CASE BeginRejected(w)
    BY Zenon, <1>3 DEF BeginRejected
  <1>4. CASE AppendPending(w)
    BY Zenon, <1>4 DEF AppendPending, AppendOk, Ingest
  <1>5. CASE AppendPendingFails(w)
    BY Zenon, <1>5 DEF AppendPendingFails, AppendFails, Fault
  <1>6. CASE WriteFts(w)
    BY Zenon, <1>6 DEF WriteFts
  <1>7. CASE WriteFtsFails(w)
    BY Zenon, <1>7 DEF WriteFtsFails
  <1>8. CASE AddPoints(w)
    BY Zenon, <1>8 DEF AddPoints, AfterVectors, More, Ingest
  <1>9. CASE InsertParents(w)
    BY Zenon, <1>9 DEF InsertParents
  <1>10. CASE InsertBlock(w)
    BY Zenon, <1>10 DEF InsertBlock, More
  <1>11. CASE StoreFails(w)
    BY Zenon, <1>11 DEF StoreFails
  <1>12. CASE MarkCommitted(w)
    BY Zenon, <1>12 DEF MarkCommitted
  <1>13. CASE AppendCommitted(w)
    BY Zenon, <1>13 DEF AppendCommitted, AppendOk
  <1>14. CASE AppendCommittedFails(w)
    BY Zenon, <1>14 DEF AppendCommittedFails, AppendFails, Fault
  <1>15. CASE ReleaseCommitted(w)
    BY Zenon, <1>15 DEF ReleaseCommitted, AfterCommit
  <1>16. CASE CompactInline(w)
    BY Zenon, <1>16 DEF CompactInline, AfterCommit
  <1>17. CASE CompactFails(w)
    BY Zenon, <1>17 DEF CompactFails, AfterCommit
  <1>18. CASE Publish(w)
    BY Zenon, <1>18 DEF Publish
  <1>19. CASE PublishFails(w)
    BY Zenon, <1>19 DEF PublishFails
  <1>20. CASE MarkRolledBack(w)
    BY Zenon, <1>20 DEF MarkRolledBack
  <1>21. CASE AppendRollback(w)
    BY Zenon, <1>21 DEF AppendRollback, AppendOk
  <1>22. CASE AppendRollbackFails(w)
    BY Zenon, <1>22 DEF AppendRollbackFails, AppendFails, Fault
  <1>23. CASE ReleaseRolledBack(w)
    BY Zenon, <1>23 DEF ReleaseRolledBack
  <1>24. CASE CleanVectors(w)
    BY Zenon, <1>24 DEF CleanVectors, DeleteVectors
  <1>25. CASE CleanBlocks(w)
    BY Zenon, <1>25 DEF CleanBlocks, Ingest
  <1>26. CASE CleanDocument(w)
    BY Zenon, <1>26 DEF CleanDocument, Siblings
  <1>27. CASE Fail(w)
    BY Zenon, <1>27 DEF Fail
  <1> HIDE DEF At, Go, rows, stores
  <1> QED BY Zenon, <1>1, <1>2, <1>3, <1>4, <1>5, <1>6, <1>7, <1>8, <1>9, <1>10, <1>11, <1>12, <1>13, <1>14,
     <1>15, <1>16, <1>17, <1>18, <1>19, <1>20, <1>21, <1>22, <1>23, <1>24, <1>25, <1>26,
     <1>27 DEF Step

(* A load makes no document ready and no ready document anything else. *)
LEMMA LoadRows ==
  ASSUME TypeOK, Load
  PROVE  UNCHANGED published /\ \A d \in Docs : status'[d] = "ready" <=> status[d] = "ready"
  <1> USE DEF stores, rows
  <1>1. CASE RecoverRefuses \/ RecoverFinalize \/ RecoverFinish \/ RecoverCompactFails
    BY Zenon, <1>1 DEF RecoverRefuses, RecoverFinalize, RecoverFinish, RecoverCompactFails
  <1>2. ASSUME NEW i \in todo, RecoverCommitted(i) \/ RecoverInferCommitted(i)
        PROVE  UNCHANGED <<status, published>>
    BY Zenon, <1>2 DEF RecoverCommitted, RecoverInferCommitted
  <1>3. ASSUME NEW i \in todo, RecoverRolledBack(i) \/ RecoverMidWrite(i)
        PROVE  UNCHANGED <<status, published>>
    BY Zenon, <1>3 DEF RecoverRolledBack, RecoverMidWrite, Cleanup
  <1>4. CASE DropCrashedDocVectors
    BY Zenon, <1>4 DEF DropCrashedDocVectors
  <1>5. CASE RecoverCrashedDocs
    BY Zenon, <1>5 DEF RecoverCrashedDocs
  <1> QED BY Zenon, <1>1, <1>2, <1>3, <1>4, <1>5 DEF Load

(* PublishedInv is kept. *)
LEMMA PublishedStep ==
  ASSUME TypeOK, IdInv, LogInv, StageInv, PublishedInv, Next
  PROVE  PublishedInv'
  <1>n. (\E w \in Writes : Start(w) \/ Step(w)) \/ Crash \/ Load
    BY Zenon DEF Next
  <1>d. \A v \in Writes : pc[v] # "pending" /\ Due(v)' => Due(v)
    BY Zenon, <1>n, DueKept
  <1>p. /\ \A d \in Docs : status[d] = "ready" => published[d] # None
        /\ \A d \in Docs, v \in Writes : published[d] = v =>
             Doc[v] = d /\ Ingest(v) /\ pc[v] = "done" /\ ~Due(v)
        /\ \A w \in Writes : pc[w] \in {"release", "compact", "publish"} => ~Due(w)
    BY Zenon DEF PublishedInv
  <1> SUFFICES
        /\ \A d \in Docs : status'[d] = "ready" => published'[d] # None
        /\ \A d \in Docs, v \in Writes : published'[d] = v =>
             Doc[v] = d /\ Ingest(v) /\ pc'[v] = "done" /\ ~Due(v)'
        /\ \A w \in Writes : pc'[w] \in {"release", "compact", "publish"} => ~Due(w)'
    BY Zenon DEF PublishedInv
  <1>1. ASSUME NEW w \in Writes, Start(w) \/ Step(w)
        PROVE  /\ \A d \in Docs : status'[d] = "ready" => published'[d] # None
               /\ \A d \in Docs, v \in Writes : published'[d] = v =>
                    Doc[v] = d /\ Ingest(v) /\ pc'[v] = "done" /\ ~Due(v)'
               /\ \A v \in Writes : pc'[v] \in {"release", "compact", "publish"} => ~Due(v)'
    <2>1. \A v \in Writes : v # w => pc'[v] = pc[v]
      BY Zenon, <1>1, Others
    <2>2. pc[w] # "done"
      BY Zenon, <1>1, PublishOwn
    <2>3. ASSUME NEW v \in Writes, pc'[v] \in {"release", "compact", "publish"} PROVE ~Due(v)'
      <3>1. CASE pc[v] \in {"release", "compact", "publish"}
        BY Zenon, <3>1, <1>d, <1>p
      <3>2. CASE v = w /\ AppendCommitted(w)
        <4>1. Logged("C", w)'
          BY Zenon, <3>2 DEF AppendCommitted, AppendOk, Logged, Record
        <4> QED BY Zenon, <3>2, <4>1 DEF Due
      <3> QED BY Zenon, <1>1, <2>1, <2>3, <3>1, <3>2, PublishOwn
    <2>4. ASSUME NEW d \in Docs, NEW v \in Writes, published[d] = v
          PROVE  Doc[v] = d /\ Ingest(v) /\ pc'[v] = "done" /\ ~Due(v)'
      BY Zenon, <1>d, <1>p, <2>1, <2>2, <2>4
    <2>5. CASE UNCHANGED published /\ \A d \in Docs : status'[d] = "ready" => status[d] = "ready"
      BY Zenon, <1>p, <2>3, <2>4, <2>5
    <2>6. CASE Publish(w)
      <3>1. /\ pc[w] = "publish" /\ pc'[w] = "done" /\ published'[Doc[w]] = w /\ UNCHANGED <<wal, id>>
            /\ \A d \in Docs : d # Doc[w] => published'[d] = published[d] /\ status'[d] = status[d]
        BY Zenon, <2>6, ConstantsAssumption DEF Publish, At, Go, TypeOK, StoresOK, ThreadsOK
      <3>2. Ingest(w) /\ ~Due(w)'
        BY Zenon, <1>d, <1>p, <3>1 DEF StageInv, Stage
      <3>3. w # None
        BY Zenon, ConstantsAssumption
      <3>4. ASSUME NEW d \in Docs, status'[d] = "ready" PROVE published'[d] # None
        <4>1. CASE d = Doc[w]
          BY ONLY Zenon, <3>1, <3>3, <4>1
        <4>2. CASE d # Doc[w]
          BY ONLY Zenon, <1>p, <3>1, <3>4, <4>2, d \in Docs
        <4> QED BY Zenon, <4>1, <4>2
      <3>5. ASSUME NEW d \in Docs, NEW v \in Writes, published'[d] = v
            PROVE  Doc[v] = d /\ Ingest(v) /\ pc'[v] = "done" /\ ~Due(v)'
        <4>1. CASE d = Doc[w]
          BY Zenon, <3>1, <3>2, <3>5, <4>1
        <4>2. CASE d # Doc[w]
          BY Zenon, <2>4, <3>1, <3>5, <4>2
        <4> QED BY Zenon, <4>1, <4>2
      <3> QED BY Zenon, <2>3, <3>4, <3>5
    <2> QED BY Zenon, <1>1, <2>5, <2>6, PublishOwn
  <1>2. CASE Crash
    <2>1. /\ UNCHANGED <<status, published>>
          /\ \A v \in Writes : pc'[v] \in {"idle", "done"} /\ (pc[v] = "done" => pc'[v] = "done")
      BY Zenon, <1>2 DEF Crash, stores, rows
    <2> QED BY Zenon, <1>d, <1>p, <2>1
  <1>3. CASE Load
    <2>1. pc' = pc /\ published' = published /\ \A d \in Docs : status'[d] = "ready" => status[d] = "ready"
      BY Zenon, <1>3, Loads, LoadRows
    <2>2. \A v \in Writes : pc[v] \in {"release", "compact", "publish", "done"} /\ ~Due(v) => ~Due(v)'
      BY ONLY Zenon, <1>d
    <2>3. \A d \in Docs, v \in Writes : published'[d] = v =>
             Doc[v] = d /\ Ingest(v) /\ pc'[v] = "done" /\ ~Due(v)'
      BY ONLY Zenon, <1>p, <2>1, <2>2
    <2> QED BY ONLY Zenon, <1>p, <2>1, <2>2, <2>3
  <1> QED BY Zenon, <1>n, <1>1, <1>2, <1>3
-----------------------------------------------------------------------------
(* The faults that happened stay counted. *)
LEMMA FaultsKept ==
  ASSUME TypeOK, Next
  PROVE  \A k \in Kinds : faults[k] > 0 => faults'[k] > 0
  <1>1. ASSUME NEW j \in Kinds, Fault(j) PROVE \A k \in Kinds : faults[k] > 0 => faults'[k] > 0
    BY <1>1 DEF Fault, TypeOK, FaultsOK
  <1>2. UNCHANGED faults \/ \E j \in Kinds : Fault(j)
    <2> USE DEF AppendOk, AppendFails, DeleteVectors, Kinds
    <2>1. ASSUME NEW w \in Writes, Start(w) \/ Step(w) PROVE UNCHANGED faults \/ \E j \in Kinds : Fault(j)
      <3>1. CASE Start(w)
        BY Zenon, <3>1 DEF Start
      <3>2. CASE BeginWrite(w)
        BY Zenon, <3>2 DEF BeginWrite
      <3>3. CASE BeginRejected(w)
        BY Zenon, <3>3 DEF BeginRejected
      <3>4. CASE AppendPending(w)
        BY Zenon, <3>4 DEF AppendPending, AppendOk, Ingest
      <3>5. CASE AppendPendingFails(w)
        BY Zenon, <3>5 DEF AppendPendingFails, AppendFails, Fault
      <3>6. CASE WriteFts(w)
        BY Zenon, <3>6 DEF WriteFts
      <3>7. CASE WriteFtsFails(w)
        BY Zenon, <3>7 DEF WriteFtsFails
      <3>8. CASE AddPoints(w)
        BY Zenon, <3>8 DEF AddPoints, AfterVectors, More, Ingest
      <3>9. CASE InsertParents(w)
        BY Zenon, <3>9 DEF InsertParents
      <3>10. CASE InsertBlock(w)
        BY Zenon, <3>10 DEF InsertBlock, More
      <3>11. CASE StoreFails(w)
        BY Zenon, <3>11 DEF StoreFails
      <3>12. CASE MarkCommitted(w)
        BY Zenon, <3>12 DEF MarkCommitted
      <3>13. CASE AppendCommitted(w)
        BY Zenon, <3>13 DEF AppendCommitted, AppendOk
      <3>14. CASE AppendCommittedFails(w)
        BY Zenon, <3>14 DEF AppendCommittedFails, AppendFails, Fault
      <3>15. CASE ReleaseCommitted(w)
        BY Zenon, <3>15 DEF ReleaseCommitted, AfterCommit
      <3>16. CASE CompactInline(w)
        BY Zenon, <3>16 DEF CompactInline, AfterCommit
      <3>17. CASE CompactFails(w)
        BY Zenon, <3>17 DEF CompactFails, AfterCommit
      <3>18. CASE Publish(w)
        BY Zenon, <3>18 DEF Publish
      <3>19. CASE PublishFails(w)
        BY Zenon, <3>19 DEF PublishFails
      <3>20. CASE MarkRolledBack(w)
        BY Zenon, <3>20 DEF MarkRolledBack
      <3>21. CASE AppendRollback(w)
        BY Zenon, <3>21 DEF AppendRollback, AppendOk
      <3>22. CASE AppendRollbackFails(w)
        BY Zenon, <3>22 DEF AppendRollbackFails, AppendFails, Fault
      <3>23. CASE ReleaseRolledBack(w)
        BY Zenon, <3>23 DEF ReleaseRolledBack
      <3>24. CASE CleanVectors(w)
        BY Zenon, <3>24 DEF CleanVectors, DeleteVectors
      <3>25. CASE CleanBlocks(w)
        BY Zenon, <3>25 DEF CleanBlocks, Ingest
      <3>26. CASE CleanDocument(w)
        BY Zenon, <3>26 DEF CleanDocument, Siblings
      <3>27. CASE Fail(w)
        BY Zenon, <3>27 DEF Fail
      <3> HIDE DEF AppendOk, AppendFails, DeleteVectors, Kinds
      <3> QED BY Zenon, <2>1, <3>1, <3>2, <3>3, <3>4, <3>5, <3>6, <3>7, <3>8, <3>9, <3>10, <3>11, <3>12, <3>13, <3>14,
     <3>15, <3>16, <3>17, <3>18, <3>19, <3>20, <3>21, <3>22, <3>23, <3>24, <3>25, <3>26,
     <3>27 DEF Step
    <2>2. CASE Crash
      BY Zenon, <2>2 DEF Crash
    <2>3. CASE RecoverRefuses \/ RecoverFinish \/ DropCrashedDocVectors \/ RecoverCrashedDocs
      BY Zenon, <2>3 DEF RecoverRefuses, RecoverFinish, DropCrashedDocVectors, RecoverCrashedDocs
    <2>4. CASE RecoverFinalize \/ RecoverCompactFails
      BY Zenon, <2>4 DEF RecoverFinalize, RecoverCompactFails
    <2>5. ASSUME NEW i \in todo, RecoverCommitted(i) \/ RecoverInferCommitted(i) PROVE UNCHANGED faults
      BY Zenon, <2>5 DEF RecoverCommitted, RecoverInferCommitted
    <2>6. ASSUME NEW i \in todo, RecoverRolledBack(i) \/ RecoverMidWrite(i)
          PROVE  UNCHANGED faults \/ \E j \in Kinds : Fault(j)
      BY Zenon, <2>6 DEF RecoverRolledBack, RecoverMidWrite, Cleanup
    <2> QED BY Zenon, <2>1, <2>2, <2>3, <2>4, <2>5, <2>6 DEF Next, Load
  <1> QED BY Zenon, <1>1, <1>2

(* A fault that a step takes is counted. *)
LEMMA FaultCounts ==
  ASSUME TypeOK, NEW k \in Kinds, Fault(k)
  PROVE  faults'[k] > 0
  BY DEF Fault, TypeOK, FaultsOK

(* A run without faults had none before, and takes none. *)
LEMMA FreeBefore ==
  ASSUME TypeOK, TypeOK', Next, FaultFree'
  PROVE  FaultFree /\ \A k \in {"store", "append", "late"} : ~Fault(k)
  <1>1. \A k \in {"store", "append", "late"} : k \in Kinds /\ ~(faults'[k] > 0)
    BY DEF FaultFree, Kinds
  <1>2. \A k \in {"store", "append", "late"} : ~(faults[k] > 0)
    BY Zenon, <1>1, FaultsKept
  <1>3. \A k \in {"store", "append", "late"} : ~Fault(k)
    BY Zenon, <1>1, FaultCounts
  <1>4. FaultFree
    BY <1>2 DEF FaultFree, TypeOK, FaultsOK, Kinds
  <1> QED BY Zenon, <1>3, <1>4

(* A write that undoes itself has met a store that failed; without faults  *)
(* a write ends where it was refused or was finished with.                 *)
LEMMA OpenOwn ==
  ASSUME TypeOK, NEW w \in Writes, Start(w) \/ Step(w)
  PROVE  /\ pc'[w] \in Undoing \cup {"rollback", "rolledback"} =>
              pc[w] \in Undoing \cup {"rollback", "rolledback"} \/ Fault("store")
         /\ pc'[w] # "idle"
         /\ pc'[w] \in {"fail", "done"} =>
              \/ pc[w] \in {"begin", "release", "compact", "publish", "fail"} \cup Undoing
              \/ \E k \in {"store", "append", "late"} : Fault(k)
  <1>t. pc \in [Writes -> Places]
    BY ONLY Zenon, TypeOK DEF TypeOK, ThreadsOK
  <1> USE <1>t DEF At, Go, Undoing
  <1>1. CASE Start(w)
    BY Zenon, <1>1 DEF Start
  <1>2. CASE BeginWrite(w)
    BY Zenon, <1>2 DEF BeginWrite
  <1>3. CASE BeginRejected(w)
    BY Zenon, <1>3 DEF BeginRejected
  <1>4. CASE AppendPending(w)
    BY Zenon, <1>4 DEF AppendPending, AppendOk, Ingest
  <1>5. CASE AppendPendingFails(w)
    BY Zenon, <1>5 DEF AppendPendingFails, AppendFails, Fault
  <1>6. CASE WriteFts(w)
    BY Zenon, <1>6 DEF WriteFts
  <1>7. CASE WriteFtsFails(w)
    BY Zenon, <1>7 DEF WriteFtsFails
  <1>8. CASE AddPoints(w)
    BY Zenon, <1>8 DEF AddPoints, AfterVectors, More, Ingest
  <1>9. CASE InsertParents(w)
    BY Zenon, <1>9 DEF InsertParents
  <1>10. CASE InsertBlock(w)
    BY Zenon, <1>10 DEF InsertBlock, More
  <1>11. CASE StoreFails(w)
    BY Zenon, <1>11 DEF StoreFails
  <1>12. CASE MarkCommitted(w)
    BY Zenon, <1>12 DEF MarkCommitted
  <1>13. CASE AppendCommitted(w)
    BY Zenon, <1>13 DEF AppendCommitted, AppendOk
  <1>14. CASE AppendCommittedFails(w)
    BY Zenon, <1>14 DEF AppendCommittedFails, AppendFails, Fault
  <1>15. CASE ReleaseCommitted(w)
    BY Zenon, <1>15 DEF ReleaseCommitted, AfterCommit
  <1>16. CASE CompactInline(w)
    BY Zenon, <1>16 DEF CompactInline, AfterCommit
  <1>17. CASE CompactFails(w)
    BY Zenon, <1>17 DEF CompactFails, AfterCommit
  <1>18. CASE Publish(w)
    BY Zenon, <1>18 DEF Publish
  <1>19. CASE PublishFails(w)
    BY Zenon, <1>19 DEF PublishFails
  <1>20. CASE MarkRolledBack(w)
    BY Zenon, <1>20 DEF MarkRolledBack
  <1>21. CASE AppendRollback(w)
    BY Zenon, <1>21 DEF AppendRollback, AppendOk
  <1>22. CASE AppendRollbackFails(w)
    BY Zenon, <1>22 DEF AppendRollbackFails, AppendFails, Fault
  <1>23. CASE ReleaseRolledBack(w)
    BY Zenon, <1>23 DEF ReleaseRolledBack
  <1>24. CASE CleanVectors(w)
    BY Zenon, <1>24 DEF CleanVectors, DeleteVectors
  <1>25. CASE CleanBlocks(w)
    BY Zenon, <1>25 DEF CleanBlocks, Ingest
  <1>26. CASE CleanDocument(w)
    BY Zenon, <1>26 DEF CleanDocument, Siblings
  <1>27. CASE Fail(w)
    BY Zenon, <1>27 DEF Fail
  <1> HIDE DEF At, Go, Undoing
  <1> QED BY Zenon, <1>1, <1>2, <1>3, <1>4, <1>5, <1>6, <1>7, <1>8, <1>9, <1>10, <1>11, <1>12, <1>13, <1>14,
     <1>15, <1>16, <1>17, <1>18, <1>19, <1>20, <1>21, <1>22, <1>23, <1>24, <1>25, <1>26,
     <1>27 DEF Step

OpenOK(w) ==
  \/ mode = "up" /\ InFlight(w) /\ pc[w] # "fail"
  \/ /\ mode \in Loading
     /\ Ingest(w) => status[Doc[w]] = "processing"
     /\ id[w] \in todo \/ Logged("R", w) \/ (cur # None /\ cur.w = w)

(* Without faults, the transactions the writers leave open are in flight. *)
LEMMA OpenThread ==
  ASSUME TypeOK, TypeOK', IdInv, LogInv, PublishedInv, OpenInv, Next,
         NEW w \in Writes, Start(w) \/ Step(w), FaultFree', NEW v \in Writes, Due(v)'
  PROVE  OpenOK(v)'
  <1>0. FaultFree /\ \A k \in {"store", "append", "late"} : ~Fault(k)
    BY Zenon, FreeBefore
  <1>1. mode = "up" /\ mode' = "up" /\ \A u \in Writes : u # w => pc'[u] = pc[u]
    BY Zenon, Others
  <1>2. ASSUME NEW u \in Writes, Due(u) PROVE InFlight(u) /\ pc[u] # "fail"
    BY Zenon, <1>0, <1>1, <1>2 DEF OpenInv, Loading
  <1>3. pc[v] # "pending" => Due(v)
    BY Zenon, DueKept
  <1>4. CASE v # w
    <2>1. InFlight(v) /\ pc[v] # "fail"
      BY Zenon, <1>2, <1>3 DEF InFlight
    <2> QED BY Zenon, <1>1, <1>4, <2>1 DEF OpenOK, InFlight
  <1>5. CASE v = w
    <2>1. ASSUME pc'[w] \in {"fail", "done"} PROVE FALSE
      <3>1. pc[w] \in {"begin", "release", "compact", "publish", "fail"} \cup Undoing
        BY Zenon, <1>0, <2>1, OpenOwn
      <3>2. Due(w)
        BY Zenon, <1>3, <1>5, <3>1 DEF Undoing
      <3>3. CASE pc[w] = "begin"
        BY Zenon, <3>2, <3>3, NotLogged DEF Due, Early, Sts
      <3>4. CASE pc[w] \in {"release", "compact", "publish"}
        BY Zenon, <3>2, <3>4 DEF PublishedInv
      <3>5. CASE pc[w] = "fail"
        BY Zenon, <1>2, <3>2, <3>5
      <3>6. CASE pc[w] \in Undoing
        <4>1. faults["store"] > 0 /\ faults["store"] = 0
          BY Zenon, <1>0, <3>6 DEF OpenInv, FaultFree
        <4> QED BY <4>1
      <3> QED BY Zenon, <3>1, <3>3, <3>4, <3>5, <3>6
    <2> QED BY Zenon, <1>1, <1>5, <2>1, OpenOwn DEF OpenOK, InFlight
  <1> QED BY Zenon, <1>4, <1>5

(* The records with the id of an open transaction are its own. *)
LEMMA Tied ==
  ASSUME TypeOK, IdInv, LogInv, NEW w \in Writes, Logged("P", w), NEW q \in wal, q.id = id[w]
  PROVE  q.w = w /\ Logged(q.st, w)
  <1>1. Record("P", w) \in wal /\ Record("P", w).id = id[w] /\ Record("P", w).w = w
    BY DEF Logged, Record
  <1>2. q.w = w
    BY Zenon, <1>1 DEF IdInv
  <1> QED BY Zenon, <1>2, Named

(* A crash leaves them to the load, with their documents processing. *)
LEMMA OpenCrash ==
  ASSUME TypeOK, LogInv, IngestInv, OpenInv, Crash, FaultFree, NEW v \in Writes, Due(v)'
  PROVE  OpenOK(v)'
  <1>1. /\ UNCHANGED <<wal, id, status>> /\ mode' = "recover" /\ todo' = {r.id : r \in wal}
    BY Zenon DEF Crash, stores, rows
  <1>2. Due(v)
    BY Zenon, <1>1, LogKept DEF Due, Sts
  <1>3. Record("P", v) \in wal /\ Record("P", v).id = id[v]
    BY <1>2 DEF Due, Logged, Record
  <1>4. id'[v] \in todo'
    BY Zenon, <1>1, <1>3
  <1>5. Ingest(v) => status[Doc[v]] = "processing"
    BY Zenon, <1>2 DEF OpenInv, IngestInv
  <1> QED BY Zenon, <1>1, <1>4, <1>5 DEF OpenOK, Loading

(* The load resolves every one of them before it compacts. *)
LEMMA OpenLoad ==
  ASSUME TypeOK, TypeOK', IdInv, LogInv, OpenInv, Next, Load, FaultFree', NEW v \in Writes, Due(v)'
  PROVE  OpenOK(v)'
  <1>0. FaultFree /\ \A k \in {"store", "append", "late"} : ~Fault(k)
    BY Zenon, FreeBefore
  <1>1. mode # "up" /\ UNCHANGED <<pc, id, tries>> /\ pc[v] \in {"idle", "done"}
    BY Zenon, Loads DEF LogInv
  <1>2. Due(v)
    BY Zenon, <1>1, DueKept
  <1>3. OpenOK(v)
    BY Zenon, <1>0, <1>2 DEF OpenInv, OpenOK
  <1>4. /\ mode \in Loading /\ (Ingest(v) => status[Doc[v]] = "processing")
        /\ id[v] \in todo \/ Logged("R", v) \/ (cur # None /\ cur.w = v)
    BY Zenon, <1>1, <1>3 DEF OpenOK
  <1>5. Logged("P", v) /\ ~Logged("C", v)
    BY Zenon, <1>2 DEF Due
  <1>6. CASE RecoverRefuses
    <2>1. mode' = "refused" /\ UNCHANGED <<wal, status, todo, cur>>
      BY Zenon, <1>6 DEF RecoverRefuses, stores, rows
    <2>2. Logged("R", v)' <=> Logged("R", v)
      BY Zenon, <1>1, <2>1, LogKept DEF Sts
    <2> QED BY Zenon, <1>1, <1>4, <2>1, <2>2 DEF OpenOK, Loading
  <1>7. ASSUME NEW i \in todo, \/ RecoverCommitted(i) \/ RecoverRolledBack(i)
                               \/ RecoverInferCommitted(i) \/ RecoverMidWrite(i)
        PROVE  OpenOK(v)'
    <2>1. /\ mode = "recover" /\ mode' = mode /\ cur = None /\ todo' = todo \ {i}
          /\ UNCHANGED <<wal, status>>
      BY Zenon, <1>7 DEF RecoverCommitted, RecoverRolledBack, RecoverInferCommitted, RecoverMidWrite,
         Resolving, Cleanup, stores, rows
    <2>2. Logged("R", v)' <=> Logged("R", v)
      BY Zenon, <1>1, <2>1, LogKept DEF Sts
    <2>3. ASSUME id[v] = i PROVE Logged("R", v) \/ (cur' # None /\ cur'.w = v)
      <3>1. \A q \in wal : q.id = i => q.w = v /\ Logged(q.st, v)
        BY Zenon, <1>5, <2>3, Tied
      <3>2. ~Has(i, "C") /\ (Has(i, "R") => Logged("R", v))
        BY Zenon, <1>5, <3>1 DEF Has
      <3>3. CASE RecoverCommitted(i) \/ RecoverRolledBack(i)
        BY Zenon, <3>2, <3>3 DEF RecoverCommitted, RecoverRolledBack
      <3>4. ASSUME NEW r \in PendingOf(i), NEW st \in {"C", "R"}, cur' = [st |-> st, id |-> i, w |-> r.w]
            PROVE  cur' # None /\ cur'.w = v
        <4>1. r.w = v
          BY Zenon, <3>1, <3>4 DEF PendingOf
        <4>2. cur'.w = v
          BY <3>4, <4>1
        <4>3. cur' \in Records
          <5>1. v \in Writes /\ i \in Nat
            BY Zenon DEF TypeOK, LoadOK
          <5> QED BY <3>4, <4>1, <5>1 DEF Records
        <4> QED BY Zenon, <4>2, <4>3, ConstantsAssumption
      <3>5. CASE RecoverInferCommitted(i) \/ RecoverMidWrite(i)
        BY Zenon, <3>4, <3>5 DEF RecoverInferCommitted, RecoverMidWrite
      <3> QED BY Zenon, <1>7, <3>3, <3>5
    <2> QED BY Zenon, <1>1, <1>4, <2>1, <2>2, <2>3 DEF OpenOK
  <1>8. CASE RecoverFinalize
    <2>1. mode = "recover" /\ cur # None /\ wal' = wal \cup {cur} /\ mode' = mode /\ UNCHANGED <<status, todo>>
      BY Zenon, <1>0, <1>8 DEF RecoverFinalize, AppendOk, AppendFails, stores, rows
    <2>2. cur.w = v => Logged("R", v)'
      <3> SUFFICES ASSUME cur.w = v PROVE Logged("R", v)'
        BY Zenon
      <3>1. cur \in Records /\ cur.id = id[v] /\ cur.st # "P"
        BY Zenon, <2>1 DEF TypeOK, LoadOK, LogInv
      <3>2. cur = Record(cur.st, v) /\ cur.st \in {"C", "R"}
        BY <3>1 DEF Records, Record
      <3>3. wal' = wal \cup {Record(cur.st, v)} /\ UNCHANGED id
        BY Zenon, <1>1, <2>1, <3>2
      <3>4. \A st \in Sts, u \in Writes : Logged(st, u)' <=> Logged(st, u) \/ (st = cur.st /\ u = v)
        BY Zenon, <3>3, LogAdds
      <3> QED BY Zenon, <3>2, <3>4 DEF Due, Sts
    <2>3. Logged("R", v) => Logged("R", v)'
      BY Zenon, <1>1, <2>1 DEF Logged, Record
    <2> QED BY Zenon, <1>1, <1>4, <2>1, <2>2, <2>3 DEF OpenOK
  <1>9. ~RecoverFinish
    <2> SUFFICES ASSUME RecoverFinish PROVE FALSE
      BY Zenon
    <2>1. cur = None /\ todo = {} /\ wal' = Live(wal)
      BY Zenon DEF RecoverFinish
    <2>2. Logged("R", v)
      BY Zenon, <1>4, <2>1
    <2> QED BY Zenon, <1>1, <2>1, <2>2, LogCompacts DEF Due
  <1>10. ~RecoverCompactFails /\ ~DropCrashedDocVectors /\ ~RecoverCrashedDocs
    BY Zenon, <1>0, <1>4 DEF RecoverCompactFails, DropCrashedDocVectors, RecoverCrashedDocs, Loading
  <1> QED BY Zenon, <1>6, <1>7, <1>8, <1>9, <1>10 DEF Load

(* OpenInv is kept. *)
LEMMA OpenStep ==
  ASSUME TypeOK, TypeOK', IdInv, LogInv, IngestInv, PublishedInv, OpenInv, Next
  PROVE  OpenInv'
  <1>n. (\E w \in Writes : Start(w) \/ Step(w)) \/ Crash \/ Load
    BY Zenon DEF Next
  <1>k. "store" \in Kinds /\ "crash" \in Kinds
    BY Zenon DEF Kinds
  <1>1. ASSUME NEW v \in Writes, pc'[v] \in Undoing \cup {"rollback", "rolledback"}
        PROVE  faults'["store"] > 0
    <2>1. CASE pc[v] \in Undoing \cup {"rollback", "rolledback"}
      BY Zenon, <2>1, <1>k, FaultsKept DEF OpenInv
    <2>2. CASE Fault("store")
      BY Zenon, <2>2, <1>k, FaultCounts
    <2>3. ASSUME NEW w \in Writes, Start(w) \/ Step(w)
          PROVE  pc[v] \in Undoing \cup {"rollback", "rolledback"} \/ Fault("store")
      <3>1. CASE v = w
        BY Zenon, <1>1, <2>3, <3>1, OpenOwn
      <3>2. CASE v # w
        BY Zenon, <1>1, <2>3, <3>2, Others
      <3> QED BY Zenon, <3>1, <3>2
    <2>4. CASE Crash
      <3>1. pc'[v] \in {"idle", "done"}
        BY Zenon, <2>4 DEF Crash
      <3> QED BY Zenon, <1>1, <3>1 DEF Undoing
    <2>5. CASE Load
      BY Zenon, <1>1, <2>1, <2>5, Loads
    <2> QED BY Zenon, <1>n, <2>1, <2>2, <2>3, <2>4, <2>5
  <1>2. mode' # "up" => faults'["crash"] > 0
    <2>1. CASE Crash
      BY Zenon, <2>1, <1>k, FaultCounts DEF Crash
    <2>2. CASE ~Crash
      <3>1. mode' # "up" => mode # "up"
        BY Zenon, <1>n, <2>2, Others, Loads
      <3> QED BY Zenon, <1>k, <3>1, FaultsKept DEF OpenInv
    <2> QED BY Zenon, <2>1, <2>2
  <1>3. ASSUME FaultFree', NEW v \in Writes, Due(v)' PROVE OpenOK(v)'
    <2>1. FaultFree
      BY Zenon, <1>3, FreeBefore
    <2> QED BY Zenon, <1>n, <1>3, <2>1, OpenThread, OpenCrash, OpenLoad
  <1> QED BY Zenon, <1>1, <1>2, <1>3 DEF OpenInv, OpenOK
-----------------------------------------------------------------------------
(* Recover cleans up after transactions the log has open. *)
LEMMA Cleans ==
  ASSUME TypeOK, LogInv, NEW i \in todo, RecoverRolledBack(i) \/ RecoverMidWrite(i)
  PROVE  \E x \in Writes : Due(x) /\ id[x] = i /\ Cleanup(x) /\ (RecoverMidWrite(i) => ~AllStoresHave(x))
  <1>1. PICK r \in PendingOf(i) : Cleanup(r.w) /\ (RecoverMidWrite(i) => ~AllStoresHave(r.w))
    <2>1. CASE RecoverMidWrite(i)
      BY Zenon, <2>1 DEF RecoverMidWrite
    <2>2. CASE RecoverRolledBack(i) /\ ~RecoverMidWrite(i)
      BY Zenon, <2>2 DEF RecoverRolledBack
    <2> QED BY Zenon, <2>1, <2>2
  <1>2. r \in wal /\ r.st = "P" /\ r.id = i /\ ~Has(i, "C")
    BY Zenon, <1>1 DEF PendingOf, RecoverRolledBack, RecoverMidWrite
  <1>3. r.w \in Writes /\ id[r.w] = i /\ Logged("P", r.w)
    BY Zenon, <1>2, Named
  <1>4. ~Logged("C", r.w)
    <2>1. Record("C", r.w).id = i /\ Record("C", r.w).st = "C"
      BY <1>3 DEF Record
    <2> QED BY Zenon, <1>2, <2>1 DEF Has, Logged
  <1> QED BY Zenon, <1>1, <1>3, <1>4 DEF Due

(* A cleanup takes from another write at most the rows of a shared         *)
(* document.                                                               *)
LEMMA CleanupSpares ==
  ASSUME TypeOK, NEW x \in Writes, Cleanup(x), NEW v \in Writes, v # x
  PROVE  /\ vec'[v] = vec[v] /\ blocks'[v] = blocks[v]
         /\ ~(Ingest(x) /\ Doc[v] = Doc[x]) =>
              (v \in parents' <=> v \in parents) /\ fts'[Doc[v]] = fts[Doc[v]]
  <1>1. /\ vec \in [Writes -> Amounts] /\ blocks \in [Writes -> Amounts]
        /\ fts \in [Docs -> Writes \cup {None}] /\ Doc[v] \in Docs /\ Doc[x] \in Docs
    BY Zenon, ConstantsAssumption DEF TypeOK, StoresOK
  <1>2. vec'[v] = vec[v] /\ blocks'[v] = blocks[v]
    BY Zenon, <1>1 DEF Cleanup, DeleteVectors
  <1>3. CASE Ingest(x) /\ Doc[v] # Doc[x]
    BY Zenon, <1>1, <1>2, <1>3 DEF Cleanup, Siblings
  <1>4. CASE ~Ingest(x)
    BY Zenon, <1>2, <1>4 DEF Cleanup
  <1> QED BY Zenon, <1>2, <1>3, <1>4

(* The exception, once made, stays. *)
LEMMA UndoneStays ==
  ASSUME TypeOK, Next, NEW d \in Docs, UndoneAgain(d)
  PROVE  UndoneAgain(d)'
  <1>1. config' = config
    BY Zenon DEF Next
  <1>2. \A k \in {"store", "append", "late", "crash"} : faults[k] > 0 => faults'[k] > 0
    BY Zenon, FaultsKept DEF Kinds
  <1> QED BY Zenon, <1>1, <1>2 DEF UndoneAgain

(* The ingest behind a ready document, whole. *)
Kept(v) == Whole(v) /\ v \in parents /\ fts[Doc[v]] = v

(* No writer touches the rows of a ready document but an ingest that       *)
(* replaces it.                                                            *)
LEMMA ReadyThread ==
  ASSUME TypeOK, StageInv, IngestInv, NEW w \in Writes, Start(w) \/ Step(w),
         NEW v \in Writes, v # w, Kept(v), status[Doc[v]] = "ready", status'[Doc[v]] = "ready"
  PROVE  Kept(v)'
  <1>1. vec'[v] = vec[v] /\ blocks'[v] = blocks[v]
    BY Zenon, Others
  <1>2. ~(Ingest(w) /\ Doc[v] = Doc[w])
    <2> SUFFICES ASSUME Ingest(w), Doc[v] = Doc[w] PROVE FALSE
      BY Zenon
    <2>1. ~InFlight(w)
      BY Zenon DEF IngestInv
    <2>2. ~Start(w)
      BY Zenon, ConstantsAssumption DEF Start, TypeOK, StoresOK
    <2> QED BY Zenon, <2>1, <2>2, StepsInFlight
  <1>3. (v \in parents' <=> v \in parents) /\ fts'[Doc[v]] = fts[Doc[v]]
    BY Zenon, <1>2, RowsKept DEF StageInv
  <1> QED BY Zenon, <1>1, <1>3 DEF Kept, Whole

(* Recover undoes no ingest of a ready document, but for UndoneAgain. *)
LEMMA ReadyLoad ==
  ASSUME TypeOK, LogInv, IngestInv, PublishedInv, OpenInv, Load,
         NEW d \in Docs, ~UndoneAgain(d), NEW v \in Writes, published[d] = v, Kept(v),
         status[d] = "ready"
  PROVE  Kept(v)'
  <1>1. Doc[v] = d /\ Ingest(v) /\ pc[v] = "done" /\ ~Due(v)
    BY Zenon DEF PublishedInv
  <1>2. CASE RecoverRefuses \/ RecoverFinalize \/ RecoverFinish \/ RecoverCompactFails
    BY Zenon, <1>2 DEF RecoverRefuses, RecoverFinalize, RecoverFinish, RecoverCompactFails,
       stores, rows, Kept, Whole
  <1>3. ASSUME NEW i \in todo, RecoverCommitted(i) \/ RecoverInferCommitted(i) PROVE Kept(v)'
    BY Zenon, <1>3 DEF RecoverCommitted, RecoverInferCommitted, stores, rows, Kept, Whole
  <1>4. ASSUME NEW i \in todo, RecoverRolledBack(i) \/ RecoverMidWrite(i) PROVE Kept(v)'
    <2>1. PICK x \in Writes : Due(x) /\ Cleanup(x)
      BY Zenon, <1>4, Cleans
    <2>2. v # x
      BY Zenon, <1>1, <2>1
    <2>3. ~(Ingest(x) /\ Doc[v] = Doc[x])
      <3> SUFFICES ASSUME Ingest(x), Doc[x] = d PROVE FALSE
        BY Zenon, <1>1
      <3>1. Record("P", x) \in wal /\ Record("P", x).w = x
        BY <2>1 DEF Due, Logged, Record
      <3>2. pc[x] # "idle"
        BY Zenon, <3>1 DEF LogInv, Early
      <3>3. x \in config.writes /\ v \in config.writes
        BY Zenon, <1>1, <3>2 DEF IngestInv
      <3>4. faults["crash"] > 0
        BY Zenon, Loads DEF OpenInv
      <3>5. \A k \in {"store", "append", "late"} : ~(faults[k] > 0)
        BY Zenon, <1>1, <2>2, <3>3, <3>4 DEF UndoneAgain
      <3>6. FaultFree
        BY <3>5 DEF FaultFree, TypeOK, FaultsOK, Kinds
      <3>7. status[Doc[x]] = "processing"
        BY Zenon, <2>1, <3>6, Loads DEF OpenInv
      <3> QED BY Zenon, <3>7
    <2>4. /\ vec'[v] = vec[v] /\ blocks'[v] = blocks[v]
          /\ (v \in parents' <=> v \in parents) /\ fts'[Doc[v]] = fts[Doc[v]]
      BY Zenon, <2>1, <2>2, <2>3, CleanupSpares
    <2> QED BY Zenon, <2>4 DEF Kept, Whole
  <1>5. CASE DropCrashedDocVectors
    <2>1. ~Interrupted(v)
      BY Zenon, <1>1 DEF Interrupted
    <2>2. vec'[v] = vec[v]
      BY <1>5, <2>1 DEF DropCrashedDocVectors
    <2> QED BY Zenon, <1>5, <2>1, <2>2 DEF DropCrashedDocVectors, Kept, Whole
  <1>6. CASE RecoverCrashedDocs
    <2>1. ~Interrupted(v)
      BY Zenon, <1>1 DEF Interrupted
    <2> QED BY Zenon, <1>6, <2>1 DEF RecoverCrashedDocs, Kept, Whole
  <1> QED BY Zenon, <1>2, <1>3, <1>4, <1>5, <1>6 DEF Load

(* ReadyIsWhole is kept. *)
LEMMA ReadyStep ==
  ASSUME TypeOK, TypeOK', IdInv, LogInv, StageInv, IngestInv, PublishedInv, PublishedInv', OpenInv,
         ReadyIsWhole, Next
  PROVE  ReadyIsWhole'
  <1> SUFFICES ASSUME NEW d \in Docs, status'[d] = "ready", ~UndoneAgain(d)',
                      NEW v \in Writes, published'[d] = v
               PROVE  Kept(v)'
    <2>1. ASSUME NEW d \in Docs, status'[d] = "ready", ~UndoneAgain(d)'
          PROVE  /\ published'[d] # None /\ Whole(published[d])' /\ published'[d] \in parents'
                 /\ fts'[d] = published'[d]
      <3>1. published'[d] # None /\ published' \in [Docs -> Writes \cup {None}]
        BY Zenon, <2>1 DEF PublishedInv, TypeOK, StoresOK
      <3>2. \A v \in Writes : published'[d] = v => Kept(v)' /\ Doc[v] = d
        BY Zenon, <2>1 DEF PublishedInv
      <3>3. PICK v \in Writes : published'[d] = v
        BY Zenon, <3>1
      <3>4. Kept(v)' /\ Doc[v] = d
        BY Zenon, <3>2, <3>3
      <3> QED BY Zenon, <3>1, <3>3, <3>4 DEF Kept, Whole
    <2> QED BY Zenon, <2>1 DEF ReadyIsWhole
  <1>n. (\E w \in Writes : Start(w) \/ Step(w)) \/ Crash \/ Load
    BY Zenon DEF Next
  <1>1. ~UndoneAgain(d)
    BY Zenon, UndoneStays
  <1>2. ASSUME published[d] = v, status[d] = "ready" PROVE Kept(v) /\ Doc[v] = d /\ pc[v] = "done"
    <2>1. published[d] # None /\ Whole(published[d]) /\ published[d] \in parents /\ fts[d] = published[d]
      BY Zenon, <1>1, <1>2 DEF ReadyIsWhole
    <2>2. Doc[v] = d /\ pc[v] = "done"
      BY Zenon, <1>2 DEF PublishedInv
    <2> QED BY Zenon, <1>2, <2>1, <2>2 DEF Kept
  <1>3. ASSUME NEW w \in Writes, Start(w) \/ Step(w) PROVE Kept(v)'
    <2>1. CASE Publish(w) /\ d = Doc[w]
      <3>1. /\ v = w /\ pc[w] = "publish" /\ UNCHANGED <<vec, blocks, parents, fts>>
        BY Zenon, <2>1, ConstantsAssumption DEF Publish, At, TypeOK, StoresOK
      <3>2. Whole(w) /\ Ingest(w)
        BY Zenon, <3>1 DEF StageInv, Stage, Committing
      <3>3. w \in parents /\ fts[Doc[w]] = w
        BY Zenon, <3>1, <3>2 DEF IngestInv, AfterFts, AfterParents, Committing
      <3> QED BY Zenon, <3>1, <3>2, <3>3 DEF Kept, Whole
    <2>2. CASE ~(Publish(w) /\ d = Doc[w])
      <3>1. published[d] = v /\ status[d] = "ready"
        <4>1. CASE Publish(w)
          BY Zenon, <2>2, <4>1, ConstantsAssumption DEF Publish, TypeOK, StoresOK
        <4>2. CASE ~Publish(w)
          BY Zenon, <1>3, <4>2, PublishOwn
        <4> QED BY Zenon, <4>1, <4>2
      <3>2. Kept(v) /\ Doc[v] = d /\ v # w
        BY Zenon, <1>2, <1>3, <3>1, PublishOwn
      <3> QED BY Zenon, <1>3, <3>1, <3>2, ReadyThread
    <2> QED BY Zenon, <2>1, <2>2
  <1>4. CASE Crash
    <2>1. UNCHANGED <<status, published, vec, blocks, parents, fts>>
      BY Zenon, <1>4 DEF Crash, stores, rows
    <2> QED BY Zenon, <1>2, <2>1 DEF Kept, Whole
  <1>5. CASE Load
    <2>1. published[d] = v /\ status[d] = "ready"
      BY Zenon, <1>5, LoadRows
    <2> QED BY Zenon, <1>1, <1>2, <1>5, <2>1, ReadyLoad
  <1> QED BY Zenon, <1>n, <1>3, <1>4, <1>5
-----------------------------------------------------------------------------
(* Only a failed commit counts a try, and a write that failed just ends. *)
LEMMA TriesOwn ==
  ASSUME TypeOK, NEW w \in Writes, Start(w) \/ Step(w)
  PROVE  AppendCommittedFails(w) \/ (tries'[w] = tries[w] /\ (pc[w] \in {"fail", "done"} => Fail(w)))
  <1> USE DEF At, threads
  <1>1. CASE Start(w)
    BY Zenon, <1>1 DEF Start
  <1>2. CASE BeginWrite(w)
    BY Zenon, <1>2 DEF BeginWrite
  <1>3. CASE BeginRejected(w)
    BY Zenon, <1>3 DEF BeginRejected
  <1>4. CASE AppendPending(w)
    BY Zenon, <1>4 DEF AppendPending, AppendOk, Ingest
  <1>5. CASE AppendPendingFails(w)
    BY Zenon, <1>5 DEF AppendPendingFails, AppendFails, Fault
  <1>6. CASE WriteFts(w)
    BY Zenon, <1>6 DEF WriteFts
  <1>7. CASE WriteFtsFails(w)
    BY Zenon, <1>7 DEF WriteFtsFails
  <1>8. CASE AddPoints(w)
    BY Zenon, <1>8 DEF AddPoints, AfterVectors, More, Ingest
  <1>9. CASE InsertParents(w)
    BY Zenon, <1>9 DEF InsertParents
  <1>10. CASE InsertBlock(w)
    BY Zenon, <1>10 DEF InsertBlock, More
  <1>11. CASE StoreFails(w)
    BY Zenon, <1>11 DEF StoreFails
  <1>12. CASE MarkCommitted(w)
    BY Zenon, <1>12 DEF MarkCommitted
  <1>13. CASE AppendCommitted(w)
    BY Zenon, <1>13 DEF AppendCommitted, AppendOk
  <1>14. CASE AppendCommittedFails(w)
    BY Zenon, <1>14 DEF AppendCommittedFails, AppendFails, Fault
  <1>15. CASE ReleaseCommitted(w)
    BY Zenon, <1>15 DEF ReleaseCommitted, AfterCommit
  <1>16. CASE CompactInline(w)
    BY Zenon, <1>16 DEF CompactInline, AfterCommit
  <1>17. CASE CompactFails(w)
    BY Zenon, <1>17 DEF CompactFails, AfterCommit
  <1>18. CASE Publish(w)
    BY Zenon, <1>18 DEF Publish
  <1>19. CASE PublishFails(w)
    BY Zenon, <1>19 DEF PublishFails
  <1>20. CASE MarkRolledBack(w)
    BY Zenon, <1>20 DEF MarkRolledBack
  <1>21. CASE AppendRollback(w)
    BY Zenon, <1>21 DEF AppendRollback, AppendOk
  <1>22. CASE AppendRollbackFails(w)
    BY Zenon, <1>22 DEF AppendRollbackFails, AppendFails, Fault
  <1>23. CASE ReleaseRolledBack(w)
    BY Zenon, <1>23 DEF ReleaseRolledBack
  <1>24. CASE CleanVectors(w)
    BY Zenon, <1>24 DEF CleanVectors, DeleteVectors
  <1>25. CASE CleanBlocks(w)
    BY Zenon, <1>25 DEF CleanBlocks, Ingest
  <1>26. CASE CleanDocument(w)
    BY Zenon, <1>26 DEF CleanDocument, Siblings
  <1>27. CASE Fail(w)
    BY Zenon, <1>27 DEF Fail
  <1> HIDE DEF At, threads
  <1> QED BY Zenon, <1>1, <1>2, <1>3, <1>4, <1>5, <1>6, <1>7, <1>8, <1>9, <1>10, <1>11, <1>12, <1>13, <1>14,
     <1>15, <1>16, <1>17, <1>18, <1>19, <1>20, <1>21, <1>22, <1>23, <1>24, <1>25, <1>26,
     <1>27 DEF Step

(* What a load leaves of the blocks and vectors of a write. *)
LEMMA LoadStores ==
  ASSUME TypeOK, IdInv, LogInv, Load, NEW v \in Writes
  PROVE  \/ vec'[v] = vec[v] /\ blocks'[v] = blocks[v] /\ status' = status /\ mode' # "up"
         \/ /\ Due(v) /\ (Logged("R", v) \/ ~AllStoresHave(v))
            /\ blocks'[v] = "none" /\ status' = status /\ mode' # "up"
         \/ /\ DropCrashedDocVectors /\ blocks'[v] = blocks[v] /\ status' = status /\ mode' = "reset_docs"
            /\ ~Interrupted(v) => vec'[v] = vec[v]
         \/ /\ RecoverCrashedDocs /\ vec'[v] = vec[v] /\ mode' = "up"
            /\ blocks'[v] = (IF Interrupted(v) THEN "none" ELSE blocks[v])
  <1> USE DEF stores, rows
  <1>0. mode # "up"
    BY Zenon, Loads
  <1>1. CASE RecoverRefuses \/ RecoverFinalize \/ RecoverFinish \/ RecoverCompactFails
    BY Zenon, <1>0, <1>1 DEF RecoverRefuses, RecoverFinalize, RecoverFinish, RecoverCompactFails
  <1>2. ASSUME NEW i \in todo, RecoverCommitted(i) \/ RecoverInferCommitted(i)
        PROVE  UNCHANGED <<vec, blocks, status, mode>>
    BY Zenon, <1>2 DEF RecoverCommitted, RecoverInferCommitted
  <1>3. ASSUME NEW i \in todo, RecoverRolledBack(i) \/ RecoverMidWrite(i)
        PROVE  /\ UNCHANGED <<status, mode>>
               /\ \/ vec'[v] = vec[v] /\ blocks'[v] = blocks[v]
                  \/ Due(v) /\ (Logged("R", v) \/ ~AllStoresHave(v)) /\ blocks'[v] = "none"
    <2>1. PICK x \in Writes :
             Due(x) /\ id[x] = i /\ Cleanup(x) /\ (RecoverMidWrite(i) => ~AllStoresHave(x))
      BY Zenon, <1>3, Cleans
    <2>2. UNCHANGED <<status, mode>>
      BY Zenon, <1>3 DEF RecoverRolledBack, RecoverMidWrite, Cleanup
    <2>3. CASE v # x
      BY Zenon, <2>1, <2>2, <2>3, CleanupSpares
    <2>4. CASE v = x
      <3>1. blocks'[v] = "none"
        BY Zenon, <2>1, <2>4 DEF Cleanup, TypeOK, StoresOK
      <3>2. RecoverRolledBack(i) => Logged("R", v)
        <4> SUFFICES ASSUME RecoverRolledBack(i) PROVE Logged("R", v)
          BY Zenon
        <4>1. PICK q \in wal : q.id = i /\ q.st = "R"
          BY Zenon DEF RecoverRolledBack, Has
        <4>2. Logged("P", v)
          BY Zenon, <2>1, <2>4 DEF Due
        <4>3. Logged(q.st, v)
          BY Zenon, <2>1, <2>4, <4>1, <4>2, Tied
        <4> QED BY Zenon, <4>1, <4>3
      <3> QED BY Zenon, <1>3, <2>1, <2>2, <2>4, <3>1, <3>2
    <2> QED BY Zenon, <2>3, <2>4
  <1>4. CASE DropCrashedDocVectors
    <2>1. ~Interrupted(v) => vec'[v] = vec[v]
      BY <1>4 DEF DropCrashedDocVectors
    <2> QED BY Zenon, <1>4, <2>1 DEF DropCrashedDocVectors
  <1>5. CASE RecoverCrashedDocs
    BY Zenon, <1>5 DEF RecoverCrashedDocs
  <1> QED BY Zenon, <1>0, <1>1, <1>2, <1>3, <1>4, <1>5 DEF Load

(* A write whose commit failed, with all of its blocks. *)
Spent(v) == tries[v] > config.commit_max_retries /\ blocks[v] = "all"

(* The writers keep what a failed commit left. *)
LEMMA KeepThread ==
  ASSUME TypeOK, TypeOK', IdInv, LogInv, StageInv, KeepInv, Next, NEW w \in Writes, Start(w) \/ Step(w),
         NEW v \in Vectored, Spent(v)'
  PROVE  ~Logged("R", v)' /\ vec'[v] = "all" /\ cur' = None
  <1>t. v \in Writes /\ config' = config
    BY Zenon, ConstantsAssumption DEF Next
  <1>1. mode = "up" /\ cur' = None
    BY Zenon, Others DEF IdInv
  <1>2. ASSUME Spent(v) PROVE ~Logged("R", v) /\ vec[v] = "all"
    BY Zenon, <1>1, <1>2 DEF KeepInv, Spent
  <1>3. CASE v # w
    <2>1. tries'[v] = tries[v] /\ blocks'[v] = blocks[v] /\ vec'[v] = vec[v]
      BY Zenon, <1>3, <1>t, Others
    <2>2. Spent(v)
      BY Zenon, <1>t, <2>1 DEF Spent
    <2> QED BY Zenon, <1>t, <1>1, <1>2, <1>3, <2>1, <2>2, LogOthers DEF Sts
  <1>4. CASE v = w /\ AppendCommittedFails(w)
    <2>1. pc[w] = "committed" /\ vec' = vec /\ UNCHANGED id
          /\ (UNCHANGED wal \/ wal' = wal \cup {Record("C", w)})
      BY Zenon, <1>4 DEF AppendCommittedFails, AppendFails, At, stores
    <2>2. ~Logged("R", w) /\ vec[w] = "all"
      BY Zenon, <1>4, <2>1 DEF LogInv, StageInv, Stage, Committing, Whole
    <2>3. ~Logged("R", w)'
      <3>1. CASE UNCHANGED wal
        BY Zenon, <2>1, <2>2, <3>1, LogKept DEF Sts
      <3>2. CASE wal' = wal \cup {Record("C", w)}
        BY Zenon, <2>1, <2>2, <3>2, LogAdds DEF Sts
      <3> QED BY Zenon, <2>1, <3>1, <3>2
    <2> QED BY Zenon, <1>1, <1>4, <2>1, <2>2, <2>3
  <1>5. CASE v = w /\ ~AppendCommittedFails(w)
    <2>1. tries'[w] = tries[w] /\ (pc[w] \in {"fail", "done"} => Fail(w))
      BY Zenon, <1>5, TriesOwn
    <2>2. pc[w] \in {"fail", "done"}
      <3>1. tries[w] > config.commit_max_retries /\ tries[w] \in Nat /\ config.commit_max_retries \in Nat
        BY Zenon, <1>t, <1>5, <2>1, ConstantsAssumption DEF Spent, TypeOK, ThreadsOK
      <3>2. pc[w] \notin {"fail", "done"} => tries[w] <= config.commit_max_retries
        BY Zenon DEF TypeOK, ThreadsOK
      <3> QED BY <3>1, <3>2
    <2>3. UNCHANGED <<wal, id, vec, blocks>>
      BY Zenon, <2>1, <2>2 DEF Fail
    <2>4. Spent(v)
      BY Zenon, <1>t, <1>5, <2>1, <2>3 DEF Spent
    <2> QED BY Zenon, <1>t, <1>1, <1>2, <2>3, <2>4, LogKept DEF Sts
  <1> QED BY Zenon, <1>3, <1>4, <1>5

(* KeepInv is kept: Recover finds such a write whole and infers its        *)
(* commit.                                                                 *)
LEMMA KeepStep ==
  ASSUME TypeOK, TypeOK', IdInv, LogInv, StageInv, KeepInv, Next
  PROVE  KeepInv'
  <1> SUFFICES ASSUME NEW v \in Vectored, Spent(v)'
               PROVE  /\ ~Logged("R", v)' /\ (cur' # None /\ cur'.w = v => cur'.st = "C")
                      /\ vec'[v] = "all" \/ (mode' # "up" /\ Interrupted(v)')
    BY Zenon DEF KeepInv, Spent
  <1>t. v \in Writes /\ config' = config
    BY Zenon, ConstantsAssumption DEF Next
  <1>k. ASSUME Spent(v) PROVE /\ ~Logged("R", v) /\ (cur # None /\ cur.w = v => cur.st = "C")
                              /\ vec[v] = "all" \/ (mode # "up" /\ Interrupted(v))
    BY Zenon, <1>k DEF KeepInv, Spent
  <1>1. ASSUME NEW w \in Writes, Start(w) \/ Step(w)
        PROVE  ~Logged("R", v)' /\ vec'[v] = "all" /\ cur' = None
    BY Zenon, <1>1, KeepThread
  <1>2. CASE Crash
    <2>1. UNCHANGED <<tries, wal, id, vec, blocks, status>> /\ mode' = "recover" /\ cur' = None
      BY Zenon, <1>2 DEF Crash, stores, rows
    <2>2. Spent(v)
      BY Zenon, <1>t, <2>1 DEF Spent
    <2>3. ~Logged("R", v)'
      BY Zenon, <1>t, <1>k, <2>1, <2>2, LogKept DEF Sts
    <2> QED BY Zenon, <1>k, <2>1, <2>2, <2>3 DEF Interrupted
  <1>3. CASE Load
    <2>1. mode # "up" /\ UNCHANGED <<pc, id, tries>>
      BY Zenon, <1>3, Loads
    <2>2. Spent(v)
      BY Zenon, <1>3, <1>t, <2>1, LoadStores DEF Spent
    <2>3. ~Logged("R", v)'
      BY Zenon, <1>3, <1>t, <1>k, <2>2, LogLoads DEF Sts
    <2>4. ASSUME cur' # None, cur'.w = v PROVE cur'.st = "C"
      <3>1. CASE cur' = cur
        BY Zenon, <1>k, <2>2, <2>4, <3>1
      <3>2. CASE cur' # cur
        <4>1. PICK i \in todo : RecoverInferCommitted(i) \/ RecoverMidWrite(i)
          BY Zenon, <1>3, <2>4, <3>2 DEF Load, RecoverRefuses, RecoverCommitted, RecoverRolledBack,
             RecoverFinalize, RecoverFinish, RecoverCompactFails, DropCrashedDocVectors, RecoverCrashedDocs
        <4>2. CASE RecoverInferCommitted(i)
          BY <4>2 DEF RecoverInferCommitted
        <4>3. CASE RecoverMidWrite(i)
          <5>1. PICK r \in PendingOf(i) : cur' = [st |-> "R", id |-> i, w |-> r.w] /\ Cleanup(r.w)
            BY Zenon, <4>3 DEF RecoverMidWrite
          <5>2. r.w = v
            BY <2>4, <5>1
          <5>3. blocks'[v] = "none"
            BY Zenon, <1>t, <5>1, <5>2 DEF Cleanup, TypeOK, StoresOK
          <5> QED BY Zenon, <5>3 DEF Spent
        <4> QED BY Zenon, <4>1, <4>2, <4>3
      <3> QED BY Zenon, <3>1, <3>2
    <2>5. vec'[v] = "all" \/ (mode' # "up" /\ Interrupted(v)')
      <3>1. vec[v] = "all" \/ Interrupted(v)
        BY Zenon, <1>k, <2>2
      <3>2. blocks'[v] = "all"
        BY Zenon DEF Spent
      <3> QED BY Zenon, <1>3, <1>t, <3>1, <3>2, LoadStores DEF Interrupted
    <2> QED BY Zenon, <2>3, <2>4, <2>5
  <1> QED BY Zenon, <1>1, <1>2, <1>3 DEF Next

(* No step takes a block of such a write away. *)
LEMMA KeepsBlocks ==
  ASSUME TypeOK, IdInv, LogInv, KeepInv, Next, NEW v \in Vectored, Spent(v), ~Interrupted(v)
  PROVE  blocks'[v] = "all"
  <1>t. v \in Writes /\ blocks[v] = "all"
    BY Zenon, ConstantsAssumption DEF Spent
  <1>k. ~Logged("R", v) /\ vec[v] = "all"
    BY Zenon DEF KeepInv, Spent
  <1>1. ASSUME NEW w \in Writes, Start(w) \/ Step(w) PROVE blocks'[v] = blocks[v]
    <2>1. CASE v # w
      BY Zenon, <1>t, <1>1, <2>1, Others
    <2>2. CASE v = w
      <3>1. tries[w] > config.commit_max_retries /\ tries[w] \in Nat /\ config.commit_max_retries \in Nat
        BY Zenon, <2>2, ConstantsAssumption DEF Spent, TypeOK, ThreadsOK
      <3>2. pc[w] \notin {"fail", "done"} => tries[w] <= config.commit_max_retries
        BY Zenon DEF TypeOK, ThreadsOK
      <3>3. pc[w] \in {"fail", "done"}
        BY <3>1, <3>2
      <3>4. Fail(w)
        BY Zenon, <1>1, <3>3, TriesOwn DEF AppendCommittedFails, At
      <3> QED BY Zenon, <3>4 DEF Fail
    <2> QED BY Zenon, <2>1, <2>2
  <1>2. CASE Crash
    BY Zenon, <1>2, <1>t DEF Crash, stores
  <1>3. CASE Load
    <2>1. AllStoresHave(v)
      BY Zenon, <1>t, <1>k DEF AllStoresHave
    <2> QED BY Zenon, <1>3, <1>t, <1>k, <2>1, LoadStores
  <1> QED BY Zenon, <1>t, <1>1, <1>2, <1>3 DEF Next
-----------------------------------------------------------------------------
(* A lost cleanup stays lost, and what loses one. *)
LEMMA LostStays ==
  ASSUME TypeOK, Next, ~CleanupLost'
  PROVE  /\ ~CleanupLost /\ ~Fault("clean")
         /\ config.compact_threshold > 0 /\ faults["store"] > 0 =>
              ~Crash /\ ~Fault("late")
  <1>1. config' = config
    BY Zenon DEF Next
  <1>2. \A k \in Kinds : faults[k] > 0 => faults'[k] > 0
    BY Zenon, FaultsKept
  <1>3. \A k \in Kinds : Fault(k) => faults'[k] > 0
    BY Zenon, FaultCounts
  <1>4. "clean" \in Kinds /\ "store" \in Kinds /\ "crash" \in Kinds /\ "late" \in Kinds
    BY Zenon DEF Kinds
  <1>5. Crash => Fault("crash")
    BY Zenon DEF Crash
  <1> QED BY Zenon, <1>1, <1>2, <1>3, <1>4, <1>5 DEF CleanupLost

(* How the stores' part in a write that ends came about. *)
LEMMA EndsOwn ==
  ASSUME TypeOK, NEW w \in Writes, Start(w) \/ Step(w), Stage(w),
         pc[w] \in {"clean_blocks", "clean_document"} => vec[w] = "none",
         pc[w] = "clean_document" => blocks[w] = "none",
         pc'[w] \in {"fail", "done"}
  PROVE  Settled(w)' \/ Fail(w) \/ AppendRollbackFails(w)
  <1>t. /\ pc \in [Writes -> Places] /\ vec \in [Writes -> Amounts] /\ blocks \in [Writes -> Amounts]
    BY ONLY Zenon, TypeOK DEF TypeOK, ThreadsOK, StoresOK
  <1> USE <1>t DEF At, Go, rows, stores, Stage, Settled, Whole, Absent, Early, Committing
  <1>1. CASE Start(w)
    BY Zenon, <1>1 DEF Start
  <1>2. CASE BeginWrite(w)
    BY Zenon, <1>2 DEF BeginWrite
  <1>3. CASE BeginRejected(w)
    BY Zenon, <1>3 DEF BeginRejected
  <1>4. CASE AppendPending(w)
    BY Zenon, <1>4 DEF AppendPending, AppendOk, Ingest
  <1>5. CASE AppendPendingFails(w)
    BY Zenon, <1>5 DEF AppendPendingFails, AppendFails, Fault
  <1>6. CASE WriteFts(w)
    BY Zenon, <1>6 DEF WriteFts
  <1>7. CASE WriteFtsFails(w)
    BY Zenon, <1>7 DEF WriteFtsFails
  <1>8. CASE AddPoints(w)
    BY Zenon, <1>8 DEF AddPoints, AfterVectors, More, Ingest
  <1>9. CASE InsertParents(w)
    BY Zenon, <1>9 DEF InsertParents
  <1>10. CASE InsertBlock(w)
    BY Zenon, <1>10 DEF InsertBlock, More
  <1>11. CASE StoreFails(w)
    BY Zenon, <1>11 DEF StoreFails
  <1>12. CASE MarkCommitted(w)
    BY Zenon, <1>12 DEF MarkCommitted
  <1>13. CASE AppendCommitted(w)
    BY Zenon, <1>13 DEF AppendCommitted, AppendOk
  <1>14. CASE AppendCommittedFails(w)
    BY Zenon, <1>14 DEF AppendCommittedFails, AppendFails, Fault
  <1>15. CASE ReleaseCommitted(w)
    BY Zenon, <1>15 DEF ReleaseCommitted, AfterCommit
  <1>16. CASE CompactInline(w)
    BY Zenon, <1>16 DEF CompactInline, AfterCommit
  <1>17. CASE CompactFails(w)
    BY Zenon, <1>17 DEF CompactFails, AfterCommit
  <1>18. CASE Publish(w)
    BY Zenon, <1>18 DEF Publish
  <1>19. CASE PublishFails(w)
    BY Zenon, <1>19 DEF PublishFails
  <1>20. CASE MarkRolledBack(w)
    BY Zenon, <1>20 DEF MarkRolledBack
  <1>21. CASE AppendRollback(w)
    BY Zenon, <1>21 DEF AppendRollback, AppendOk
  <1>22. CASE AppendRollbackFails(w)
    BY Zenon, <1>22 DEF AppendRollbackFails, AppendFails, Fault
  <1>23. CASE ReleaseRolledBack(w)
    BY Zenon, <1>23 DEF ReleaseRolledBack
  <1>24. CASE CleanVectors(w)
    BY Zenon, <1>24 DEF CleanVectors, DeleteVectors
  <1>25. CASE CleanBlocks(w)
    BY Zenon, <1>25 DEF CleanBlocks, Ingest
  <1>26. CASE CleanDocument(w)
    BY Zenon, <1>26 DEF CleanDocument, Siblings
  <1>27. CASE Fail(w)
    BY Zenon, <1>27 DEF Fail
  <1> HIDE DEF At, Go, rows, stores, Stage, Settled, Whole, Absent, Early, Committing
  <1> QED BY Zenon, <1>1, <1>2, <1>3, <1>4, <1>5, <1>6, <1>7, <1>8, <1>9, <1>10, <1>11, <1>12, <1>13, <1>14,
     <1>15, <1>16, <1>17, <1>18, <1>19, <1>20, <1>21, <1>22, <1>23, <1>24, <1>25, <1>26,
     <1>27 DEF Step

(* A rollback cleans up in order: vectors, blocks, then the rows of the    *)
(* document.                                                               *)
LEMMA CleanOwn ==
  ASSUME TypeOK, NEW w \in Writes, Start(w) \/ Step(w), ~Fault("clean"), UNCHANGED config,
         pc[w] \in {"clean_blocks", "clean_document"} => vec[w] = "none",
         pc[w] = "clean_document" => blocks[w] = "none",
         pc[w] = "compact" => config.compact_threshold > 0
  PROVE  /\ pc'[w] \in {"clean_blocks", "clean_document"} => vec'[w] = "none"
         /\ pc'[w] = "clean_document" => blocks'[w] = "none"
         /\ pc'[w] = "compact" => config'.compact_threshold > 0
         /\ pc'[w] \in Undoing => AppendRollback(w) \/ (pc[w] \in Undoing /\ UNCHANGED <<wal, id>>)
  <1>t. /\ pc \in [Writes -> Places] /\ vec \in [Writes -> Amounts] /\ blocks \in [Writes -> Amounts]
    BY ONLY Zenon, TypeOK DEF TypeOK, ThreadsOK, StoresOK
  <1> USE <1>t DEF At, Go, rows, stores, Undoing
  <1>1. CASE Start(w)
    BY Zenon, <1>1 DEF Start
  <1>2. CASE BeginWrite(w)
    BY Zenon, <1>2 DEF BeginWrite
  <1>3. CASE BeginRejected(w)
    BY Zenon, <1>3 DEF BeginRejected
  <1>4. CASE AppendPending(w)
    BY Zenon, <1>4 DEF AppendPending, AppendOk, Ingest
  <1>5. CASE AppendPendingFails(w)
    BY Zenon, <1>5 DEF AppendPendingFails, AppendFails, Fault
  <1>6. CASE WriteFts(w)
    BY Zenon, <1>6 DEF WriteFts
  <1>7. CASE WriteFtsFails(w)
    BY Zenon, <1>7 DEF WriteFtsFails
  <1>8. CASE AddPoints(w)
    BY Zenon, <1>8 DEF AddPoints, AfterVectors, More, Ingest
  <1>9. CASE InsertParents(w)
    BY Zenon, <1>9 DEF InsertParents
  <1>10. CASE InsertBlock(w)
    BY Zenon, <1>10 DEF InsertBlock, More
  <1>11. CASE StoreFails(w)
    BY Zenon, <1>11 DEF StoreFails
  <1>12. CASE MarkCommitted(w)
    BY Zenon, <1>12 DEF MarkCommitted
  <1>13. CASE AppendCommitted(w)
    BY Zenon, <1>13 DEF AppendCommitted, AppendOk
  <1>14. CASE AppendCommittedFails(w)
    BY Zenon, <1>14 DEF AppendCommittedFails, AppendFails, Fault
  <1>15. CASE ReleaseCommitted(w)
    BY Zenon, <1>15 DEF ReleaseCommitted, AfterCommit
  <1>16. CASE CompactInline(w)
    BY Zenon, <1>16 DEF CompactInline, AfterCommit
  <1>17. CASE CompactFails(w)
    BY Zenon, <1>17 DEF CompactFails, AfterCommit
  <1>18. CASE Publish(w)
    BY Zenon, <1>18 DEF Publish
  <1>19. CASE PublishFails(w)
    BY Zenon, <1>19 DEF PublishFails
  <1>20. CASE MarkRolledBack(w)
    BY Zenon, <1>20 DEF MarkRolledBack
  <1>21. CASE AppendRollback(w)
    BY Zenon, <1>21 DEF AppendRollback, AppendOk
  <1>22. CASE AppendRollbackFails(w)
    BY Zenon, <1>22 DEF AppendRollbackFails, AppendFails, Fault
  <1>23. CASE ReleaseRolledBack(w)
    BY Zenon, <1>23 DEF ReleaseRolledBack
  <1>24. CASE CleanVectors(w)
    BY Zenon, <1>24 DEF CleanVectors, DeleteVectors
  <1>25. CASE CleanBlocks(w)
    BY Zenon, <1>25 DEF CleanBlocks, Ingest
  <1>26. CASE CleanDocument(w)
    BY Zenon, <1>26 DEF CleanDocument, Siblings
  <1>27. CASE Fail(w)
    BY Zenon, <1>27 DEF Fail
  <1> HIDE DEF At, Go, rows, stores, Undoing
  <1> QED BY Zenon, <1>1, <1>2, <1>3, <1>4, <1>5, <1>6, <1>7, <1>8, <1>9, <1>10, <1>11, <1>12, <1>13, <1>14,
     <1>15, <1>16, <1>17, <1>18, <1>19, <1>20, <1>21, <1>22, <1>23, <1>24, <1>25, <1>26,
     <1>27 DEF Step

(* A finished write stays settled while others work, and while a load      *)
(* takes nothing from it.                                                  *)
LEMMA StaysSettled ==
  ASSUME NEW v \in Writes, Settled(v), vec'[v] = vec[v], blocks'[v] = blocks[v],
         v \in parents' => v \in parents
  PROVE  Settled(v)'
  BY Zenon DEF Settled, Whole, Absent

(* The writers keep UndoInv: an inline compaction drops no cleanup that is *)
(* needed.                                                                 *)
LEMMA UndoThread ==
  ASSUME TypeOK, IdInv, LogInv, StageInv, OpenInv, UndoInv, Next, ~CleanupLost',
         NEW w \in Writes, Start(w) \/ Step(w), NEW v \in Writes
  PROVE  Cleaning(v)' /\ Resting(v)'
  <1>0. /\ ~CleanupLost /\ ~Fault("clean") /\ config' = config
        /\ config.compact_threshold > 0 /\ faults["store"] > 0 => ~Fault("late")
    BY Zenon, LostStays DEF Next
  <1>1. Cleaning(v) /\ Resting(v) /\ Cleaning(w) /\ Stage(w)
    BY Zenon, <1>0 DEF UndoInv, StageInv
  <1>2. mode = "up" /\ mode' = "up" /\ cur' = None
    BY Zenon, Others DEF IdInv
  <1>3. SUFFICES /\ Cleaning(v)'
                 /\ pc'[v] \in {"fail", "done"} =>
                      Settled(v)' \/ (Due(v)' /\ (config.compact_threshold > 0 => ~Logged("R", v)'))
    BY Zenon, <1>0, <1>2 DEF Resting, Loading
  <1>4. CASE v # w
    <2>1. /\ pc'[v] = pc[v] /\ vec'[v] = vec[v] /\ blocks'[v] = blocks[v] /\ id'[v] = id[v]
          /\ v \in parents' => v \in parents
      BY Zenon, <1>4, Others
    <2>2. Settled(v) => Settled(v)'
      BY Zenon, <2>1, StaysSettled
    <2>3. CASE \A st \in Sts : Logged(st, v)' <=> Logged(st, v)
      <3>1. (Due(v)' <=> Due(v)) /\ (Logged("R", v)' <=> Logged("R", v))
        BY Zenon, <2>3 DEF Due, Sts
      <3> QED BY Zenon, <1>0, <1>1, <1>2, <2>1, <2>2, <3>1 DEF Cleaning, Resting
    <2>4. CASE /\ Compacting(w)
               /\ Logged("P", v)' <=> Logged("P", v) /\ ~Logged("C", v) /\ ~Logged("R", v)
               /\ ~Logged("C", v)' /\ ~Logged("R", v)'
      <3>1. config.compact_threshold > 0
        BY Zenon, <1>1, <2>4 DEF Cleaning, Compacting
      <3>2. Due(v) /\ ~Logged("R", v) => Due(v)' /\ ~Logged("R", v)'
        BY Zenon, <2>4 DEF Due
      <3> QED BY Zenon, <1>0, <1>1, <1>2, <2>1, <2>2, <3>1, <3>2 DEF Cleaning, Resting
    <2> QED BY Zenon, <1>4, <2>3, <2>4, LogOthers
  <1>5. CASE v = w
    <2>1. /\ pc[w] \in {"clean_blocks", "clean_document"} => vec[w] = "none"
          /\ pc[w] = "clean_document" => blocks[w] = "none"
          /\ pc[w] = "compact" => config.compact_threshold > 0
          /\ pc[w] \in Undoing => Due(w) \/ config.compact_threshold > 0
      BY Zenon, <1>1 DEF Cleaning
    <2>2. /\ pc'[w] \in {"clean_blocks", "clean_document"} => vec'[w] = "none"
          /\ pc'[w] = "clean_document" => blocks'[w] = "none"
          /\ pc'[w] = "compact" => config'.compact_threshold > 0
          /\ pc'[w] \in Undoing => AppendRollback(w) \/ (pc[w] \in Undoing /\ UNCHANGED <<wal, id>>)
      BY Zenon, <1>0, <2>1, CleanOwn
    <2>3. pc'[w] \in Undoing => Due(w)' \/ config'.compact_threshold > 0
      <3>1. CASE AppendRollback(w)
        <4>1. pc[w] = "rolledback" /\ wal' = wal \cup {Record("R", w)} /\ UNCHANGED id
          BY Zenon, <3>1 DEF AppendRollback, AppendOk, At
        <4>2. Due(w)
          BY Zenon, <4>1 DEF LogInv, Writing
        <4> QED BY Zenon, <4>1, <4>2, LogAdds DEF Due, Sts
      <3>2. CASE pc[w] \in Undoing /\ UNCHANGED <<wal, id>>
        <4>1. Due(w)' <=> Due(w)
          BY Zenon, <3>2, LogKept DEF Due, Sts
        <4> QED BY Zenon, <1>0, <2>1, <3>2, <4>1
      <3> QED BY Zenon, <2>2, <3>1, <3>2
    <2>4. Cleaning(w)'
      BY Zenon, <2>2, <2>3 DEF Cleaning
    <2>5. ASSUME pc'[w] \in {"fail", "done"}
          PROVE  Settled(w)' \/ (Due(w)' /\ (config.compact_threshold > 0 => ~Logged("R", w)'))
      <3>1. CASE Fail(w)
        <4>1. pc[w] = "fail" /\ UNCHANGED <<wal, id, vec, blocks, parents>>
          BY Zenon, <3>1 DEF Fail, At
        <4>2. Settled(w) \/ (Due(w) /\ (config.compact_threshold > 0 => ~Logged("R", w)))
          BY Zenon, <1>1, <1>2, <1>5, <4>1 DEF Resting
        <4>3. \A st \in Sts : Logged(st, w)' <=> Logged(st, w)
          BY Zenon, <4>1, LogKept
        <4>4. Settled(w) => Settled(w)'
          BY Zenon, <4>1, StaysSettled
        <4> QED BY Zenon, <4>2, <4>3, <4>4 DEF Due, Sts
      <3>2. CASE AppendRollbackFails(w)
        <4>1. /\ pc[w] = "rolledback" /\ UNCHANGED id
              /\ UNCHANGED wal \/ (Fault("late") /\ wal' = wal \cup {Record("R", w)})
          BY Zenon, <3>2 DEF AppendRollbackFails, AppendFails, At
        <4>2. Due(w) /\ ~Logged("R", w) /\ faults["store"] > 0
          BY Zenon, <4>1 DEF LogInv, Writing, OpenInv
        <4>3. CASE UNCHANGED wal
          BY Zenon, <4>1, <4>2, <4>3, LogKept DEF Due, Sts
        <4>4. CASE Fault("late") /\ wal' = wal \cup {Record("R", w)}
          <5>1. ~(config.compact_threshold > 0)
            BY Zenon, <1>0, <4>2, <4>4
          <5> QED BY Zenon, <4>1, <4>2, <4>4, <5>1, LogAdds DEF Due, Sts
        <4> QED BY Zenon, <4>1, <4>3, <4>4
      <3> QED BY Zenon, <1>1, <2>1, <2>5, <3>1, <3>2, EndsOwn
    <2> QED BY Zenon, <1>5, <2>4, <2>5
  <1> QED BY Zenon, <1>4, <1>5

(* A crash leaves every unfinished write to the load. *)
LEMMA UndoCrash ==
  ASSUME TypeOK, LogInv, StageInv, OpenInv, UndoInv, Next, ~CleanupLost', Crash, NEW v \in Writes
  PROVE  Cleaning(v)' /\ Resting(v)'
  <1>0. /\ ~CleanupLost /\ ~(config.compact_threshold > 0 /\ faults["store"] > 0)
    BY Zenon, LostStays
  <1>1. Cleaning(v) /\ Resting(v) /\ Stage(v)
    BY Zenon, <1>0 DEF UndoInv, StageInv
  <1>2. /\ UNCHANGED <<wal, id, vec, blocks, parents, status>> /\ mode' = "recover" /\ cur' = None
        /\ todo' = {r.id : r \in wal} /\ pc'[v] \in {"idle", "done"}
    BY Zenon DEF Crash, stores, rows
  <1>3. Due(v) => Due(v)' /\ id'[v] \in todo'
    <2> SUFFICES ASSUME Due(v) PROVE Due(v)' /\ id'[v] \in todo'
      BY Zenon
    <2>1. Record("P", v) \in wal /\ Record("P", v).id = id[v]
      BY DEF Due, Logged, Record
    <2>2. Due(v)'
      BY Zenon, <1>2, LogKept DEF Due, Sts
    <2> QED BY Zenon, <1>2, <2>1, <2>2
  <1>4. (Settled(v)' <=> Settled(v)) /\ (Stripped(v)' <=> Stripped(v))
    BY Zenon, <1>2 DEF Settled, Stripped, Whole, Absent, Interrupted
  <1>5. Settled(v) \/ Stripped(v) \/ Due(v)
    <2>1. CASE mode # "up"
      <3>1. mode \in Loading \cup {"drop_vectors", "reset_docs"}
        BY Zenon, <2>1 DEF TypeOK, LoadOK, Loading
      <3> QED BY Zenon, <1>1, <3>1 DEF Resting
    <2>2. CASE mode = "up" /\ pc[v] \in {"fail", "done"}
      BY Zenon, <1>1, <2>2 DEF Resting
    <2>3. CASE pc[v] \in Early \cup Committing
      BY Zenon, <1>1, <2>3 DEF Stage, Settled
    <2>4. CASE pc[v] \in Writing
      BY Zenon, <2>4 DEF LogInv
    <2>5. CASE pc[v] \in Undoing
      BY Zenon, <1>0, <1>1, <2>5 DEF Cleaning, OpenInv
    <2>6. pc[v] \in {"fail", "done"} \cup Early \cup Committing \cup Writing \cup Undoing
      <3>1. pc[v] \in Places
        BY Zenon DEF TypeOK, ThreadsOK
      <3> QED BY Zenon, <3>1 DEF Places, Holding, Early, Committing, Writing, Undoing
    <2> QED BY Zenon, <2>1, <2>2, <2>3, <2>4, <2>5, <2>6
  <1> QED BY Zenon, <1>2, <1>3, <1>4, <1>5 DEF Cleaning, Resting, Undoing, Loading

(* Recover settles the transactions it resolves. *)
LEMMA UndoResolve ==
  ASSUME TypeOK, IdInv, LogInv, StageInv, UndoInv, Next, ~CleanupLost', NEW i \in todo,
         RecoverCommitted(i) \/ RecoverRolledBack(i) \/ RecoverInferCommitted(i) \/ RecoverMidWrite(i),
         NEW v \in Writes
  PROVE  Resting(v)'
  <1>0. ~CleanupLost /\ ~Fault("clean")
    BY Zenon, LostStays
  <1>1. Resting(v) /\ Stage(v)
    BY Zenon, <1>0 DEF UndoInv, StageInv
  <1>2. mode = "recover" /\ mode' = mode /\ cur = None /\ todo' = todo \ {i} /\ UNCHANGED <<wal, status, pc, id>>
    BY Zenon DEF RecoverCommitted, RecoverRolledBack, RecoverInferCommitted, RecoverMidWrite, Resolving,
       Cleanup, stores, rows, threads
  <1>3. Settled(v) \/ Stripped(v) \/ (Due(v) /\ id[v] \in todo)
    BY Zenon, <1>1, <1>2 DEF Resting, Loading
  <1>4. Due(v)' <=> Due(v)
    BY Zenon, <1>2, LogKept DEF Due, Sts
  <1>5. ASSUME Due(v), id[v] = i PROVE ~Has(i, "C") /\ \A r \in PendingOf(i) : r.w = v
    <2>1. \A q \in wal : q.id = i => q.w = v /\ Logged(q.st, v)
      BY Zenon, <1>5, Tied DEF Due
    <2> QED BY Zenon, <1>5, <2>1 DEF Has, PendingOf, Due
  <1>6. SUFFICES /\ Settled(v)' \/ Stripped(v)' \/ (Due(v) /\ id[v] \in todo /\ id[v] # i)
                 /\ cur' # None /\ cur'.w = v => Settled(v)'
    BY Zenon, <1>2, <1>4 DEF Resting, Loading
  <1>7. CASE RecoverCommitted(i)
    <2>1. UNCHANGED <<vec, blocks, parents, cur>> /\ Has(i, "C")
      BY Zenon, <1>7 DEF RecoverCommitted, stores, rows
    <2>2. (Settled(v) => Settled(v)') /\ (Stripped(v) => Stripped(v)')
      BY Zenon, <1>2, <2>1 DEF Settled, Stripped, Whole, Absent, Interrupted
    <2> QED BY Zenon, <1>2, <1>3, <1>5, <2>1, <2>2
  <1>8. CASE RecoverInferCommitted(i)
    <2>1. PICK r \in PendingOf(i) : AllStoresHave(r.w) /\ cur' = [st |-> "C", id |-> i, w |-> r.w]
      BY Zenon, <1>8 DEF RecoverInferCommitted
    <2>2. UNCHANGED <<vec, blocks, parents>>
      BY Zenon, <1>8 DEF RecoverInferCommitted, stores, rows
    <2>3. (Settled(v) => Settled(v)') /\ (Stripped(v) => Stripped(v)')
      BY Zenon, <1>2, <2>2 DEF Settled, Stripped, Whole, Absent, Interrupted
    <2>4. r.w = v => Settled(v)
      BY Zenon, <2>1 DEF AllStoresHave, Settled, Whole
    <2>5. cur'.w = r.w
      BY <2>1
    <2> QED BY Zenon, <1>3, <1>5, <2>3, <2>4, <2>5
  <1>9. CASE RecoverRolledBack(i) \/ RecoverMidWrite(i)
    <2>1. PICK x \in Writes : Due(x) /\ id[x] = i /\ Cleanup(x)
      BY Zenon, <1>9, Cleans
    <2>2. CASE v = x
      <3>1. vec'[v] = "none" /\ blocks'[v] = "none"
        BY Zenon, <1>0, <2>1, <2>2 DEF Cleanup, DeleteVectors, TypeOK, StoresOK
      <3>2. v \notin parents'
        BY Zenon, <1>1, <2>1, <2>2 DEF Cleanup, Siblings, Stage
      <3> QED BY Zenon, <3>1, <3>2 DEF Settled, Absent
    <2>3. CASE v # x
      <3>1. vec'[v] = vec[v] /\ blocks'[v] = blocks[v]
        BY Zenon, <2>1, <2>3, CleanupSpares
      <3>2. v \in parents' => v \in parents
        BY Zenon, <2>1 DEF Cleanup
      <3>3. (Settled(v) => Settled(v)') /\ (Stripped(v) => Stripped(v)')
        BY Zenon, <1>2, <3>1, <3>2 DEF Settled, Stripped, Whole, Absent, Interrupted
      <3>4. \A q \in wal : q.id = i => q.w = x
        BY Zenon, <2>1, Tied DEF Due
      <3>5. Due(v) => id[v] # i
        <4> SUFFICES ASSUME Due(v), id[v] = i PROVE FALSE
          BY Zenon
        <4>1. Record("P", v) \in wal /\ Record("P", v).id = i /\ Record("P", v).w = v
          BY DEF Due, Logged, Record
        <4> QED BY Zenon, <2>3, <3>4, <4>1
      <3>6. cur' # None => cur'.w # v
        <4> SUFFICES ASSUME cur' # None, cur'.w = v PROVE FALSE
          BY Zenon
        <4>1. RecoverMidWrite(i)
          BY Zenon, <1>2, <1>9 DEF RecoverRolledBack
        <4>2. PICK r \in PendingOf(i) : cur' = [st |-> "R", id |-> i, w |-> r.w]
          BY Zenon, <4>1 DEF RecoverMidWrite
        <4>3. cur'.w = r.w
          BY <4>2
        <4> QED BY Zenon, <2>3, <3>4, <4>2, <4>3 DEF PendingOf
      <3> QED BY Zenon, <1>3, <3>3, <3>5, <3>6
    <2> QED BY Zenon, <2>2, <2>3
  <1> QED BY Zenon, <1>7, <1>8, <1>9

(* The load leaves nothing in part: Recover, then the interrupted          *)
(* documents.                                                              *)
LEMMA UndoLoad ==
  ASSUME TypeOK, IdInv, LogInv, StageInv, UndoInv, Next, ~CleanupLost', Load, NEW v \in Writes
  PROVE  Cleaning(v)' /\ Resting(v)'
  <1>0. ~CleanupLost /\ config' = config
    BY Zenon, LostStays DEF Next
  <1>1. Resting(v) /\ Stage(v)
    BY Zenon, <1>0 DEF UndoInv, StageInv
  <1>2. UNCHANGED <<pc, id>> /\ pc[v] \in {"idle", "done"}
    BY Zenon, Loads DEF LogInv
  <1>3. Cleaning(v)'
    BY Zenon, <1>2 DEF Cleaning, Undoing
  <1>4. CASE RecoverRefuses \/ RecoverCompactFails
    <2>1. /\ mode = "recover" /\ mode' = "refused" /\ UNCHANGED <<wal, vec, blocks, parents, status, todo, cur>>
      BY Zenon, <1>4 DEF RecoverRefuses, RecoverCompactFails, stores, rows
    <2>2. /\ Settled(v) => Settled(v)'
          /\ Stripped(v) => Stripped(v)'
          /\ Due(v) => Due(v)'
      BY Zenon, <1>2, <2>1, LogKept DEF Settled, Stripped, Whole, Absent, Interrupted, Due, Sts
    <2> QED BY Zenon, <1>1, <1>2, <1>3, <2>1, <2>2 DEF Resting, Loading
  <1>5. ASSUME NEW i \in todo,
               RecoverCommitted(i) \/ RecoverRolledBack(i) \/ RecoverInferCommitted(i) \/ RecoverMidWrite(i)
        PROVE  Resting(v)'
    BY Zenon, <1>5, UndoResolve
  <1>6. CASE RecoverFinalize
    <2>1. /\ mode = "recover" /\ mode' \in {"recover", "refused"} /\ cur # None /\ cur' = None
          /\ UNCHANGED <<vec, blocks, parents, status, todo>>
      BY Zenon, <1>6 DEF RecoverFinalize, stores, rows
    <2>2. (Settled(v) => Settled(v)') /\ (Stripped(v) => Stripped(v)')
      BY Zenon, <2>1 DEF Settled, Stripped, Whole, Absent, Interrupted
    <2>3. cur.w # v => (Due(v)' <=> Due(v))
      <3>1. ~RecoverFinish
        BY Zenon, <2>1 DEF RecoverFinish
      <3> QED BY Zenon, <3>1, LogLoads DEF Due, Sts
    <2> QED BY Zenon, <1>1, <1>2, <1>3, <2>1, <2>2, <2>3 DEF Resting, Loading
  <1>7. CASE RecoverFinish
    <2>1. /\ mode = "recover" /\ mode' = "drop_vectors" /\ todo = {} /\ cur = None
          /\ UNCHANGED <<vec, blocks, parents, status, cur>>
      BY Zenon, <1>7 DEF RecoverFinish, stores, rows
    <2>2. (Settled(v) => Settled(v)') /\ (Stripped(v) => Stripped(v)')
      BY Zenon, <2>1 DEF Settled, Stripped, Whole, Absent, Interrupted
    <2> QED BY Zenon, <1>1, <1>3, <2>1, <2>2 DEF Resting, Loading
  <1>8. CASE DropCrashedDocVectors
    <2>1. /\ mode = "drop_vectors" /\ mode' = "reset_docs" /\ UNCHANGED <<blocks, status, cur>>
          /\ parents' = {w \in parents : ~Interrupted(w)}
      BY Zenon, <1>8 DEF DropCrashedDocVectors
    <2>2. cur = None
      BY Zenon, <2>1 DEF IdInv
    <2>3. Settled(v) \/ Stripped(v)
      BY Zenon, <1>1, <2>1 DEF Resting
    <2>4. Interrupted(v)' <=> Interrupted(v)
      BY Zenon, <2>1 DEF Interrupted
    <2>5. CASE Interrupted(v)
      <3>1. vec'[v] = "none"
        <4>1. CASE blocks[v] = "all"
          BY <1>8, <2>5, <4>1 DEF DropCrashedDocVectors
        <4>2. CASE vec[v] = "none"
          BY Zenon, <4>2, Takes
        <4> QED BY Zenon, <2>3, <4>1, <4>2 DEF Settled, Whole, Absent, Stripped
      <3>2. v \notin parents'
        BY Zenon, <2>1, <2>5
      <3> QED BY Zenon, <1>3, <2>1, <2>2, <2>4, <2>5, <3>1, <3>2 DEF Resting, Stripped, Loading
    <2>6. CASE ~Interrupted(v)
      <3>1. vec'[v] = vec[v]
        BY <1>8, <2>6 DEF DropCrashedDocVectors
      <3>2. Settled(v) /\ blocks'[v] = blocks[v] /\ (v \in parents' => v \in parents)
        BY Zenon, <2>1, <2>3, <2>6 DEF Stripped
      <3>3. Settled(v)'
        BY Zenon, <3>1, <3>2, StaysSettled
      <3> QED BY Zenon, <1>3, <2>1, <2>2, <2>4, <2>6, <3>3 DEF Resting, Loading
    <2> QED BY Zenon, <2>5, <2>6
  <1>9. CASE RecoverCrashedDocs
    <2>1. /\ mode = "reset_docs" /\ mode' = "up" /\ UNCHANGED <<vec, parents, cur>>
          /\ blocks'[v] = (IF Interrupted(v) THEN "none" ELSE blocks[v])
      BY Zenon, <1>9 DEF RecoverCrashedDocs
    <2>2. cur = None
      BY Zenon, <2>1 DEF IdInv
    <2>3. CASE Interrupted(v)
      <3>1. vec[v] = "none" /\ v \notin parents /\ blocks'[v] = "none"
        BY Zenon, <1>1, <2>1, <2>3 DEF Resting, Stripped
      <3>2. Settled(v)'
        BY Zenon, <2>1, <3>1 DEF Settled, Absent
      <3> QED BY Zenon, <1>3, <2>1, <2>2, <3>2 DEF Resting, Loading
    <2>4. CASE ~Interrupted(v)
      <3>1. Settled(v) /\ blocks'[v] = blocks[v]
        BY Zenon, <1>1, <2>1, <2>4 DEF Resting
      <3>2. Settled(v)'
        BY Zenon, <2>1, <3>1, StaysSettled
      <3> QED BY Zenon, <1>3, <2>1, <2>2, <3>2 DEF Resting, Loading
    <2> QED BY Zenon, <2>3, <2>4
  <1> QED BY Zenon, <1>3, <1>4, <1>5, <1>6, <1>7, <1>8, <1>9 DEF Load

(* UndoInv is kept. *)
LEMMA UndoStep ==
  ASSUME TypeOK, IdInv, LogInv, StageInv, OpenInv, UndoInv, Next
  PROVE  UndoInv'
  <1> SUFFICES ASSUME ~CleanupLost', NEW v \in Writes PROVE Cleaning(v)' /\ Resting(v)'
    BY Zenon DEF UndoInv
  <1>1. CASE \E w \in Writes : Start(w) \/ Step(w)
    BY Zenon, <1>1, UndoThread
  <1>2. CASE Crash
    BY Zenon, <1>2, UndoCrash
  <1>3. CASE Load
    BY Zenon, <1>3, UndoLoad
  <1> QED BY Zenon, <1>1, <1>2, <1>3 DEF Next

-----------------------------------------------------------------------------
(* Together. *)
WriteInv ==
  /\ TypeOK /\ IdInv /\ LogInv /\ StageInv /\ IngestInv /\ PublishedInv /\ OpenInv
  /\ ReadyIsWhole /\ KeepInv /\ UndoInv

(* The invariant holds of an empty namespace ... *)
LEMMA WriteInvInit == Init => WriteInv
<1> SUFFICES ASSUME Init PROVE WriteInv
  BY Zenon
<1>1. TypeOK
  BY ConstantsAssumption DEF Init, TypeOK, TablesOK, ThreadsOK, StoresOK, LoadOK, FaultsOK,
     Amounts, Places, Holding
<1>2. /\ wal = {} /\ cur = None /\ mode = "up" /\ parents = {}
      /\ \A w \in Writes : pc[w] = "idle" /\ vec[w] = "none" /\ blocks[w] = "none" /\ tries[w] = 0
      /\ \A d \in Docs : status[d] = "none" /\ published[d] = None
  BY Zenon DEF Init
<1>3. \A w \in Writes : ~Due(w) /\ Absent(w) /\ ~InFlight(w)
  BY Zenon, <1>2 DEF Due, Logged, Absent, InFlight
<1>4. IdInv /\ LogInv /\ StageInv
  BY Zenon, <1>2, <1>3 DEF IdInv, Holding, LogInv, Writing, StageInv, Stage, Early, Committing
<1>5. IngestInv
  BY Zenon, <1>2, <1>3 DEF IngestInv, AfterFts, AfterParents, Committing
<1>6. PublishedInv /\ ReadyIsWhole
  BY Zenon, <1>2, ConstantsAssumption DEF PublishedInv, ReadyIsWhole
<1>7. OpenInv
  BY Zenon, <1>2, <1>3 DEF OpenInv, Undoing
<1>8. KeepInv
  BY Zenon, <1>2, ConstantsAssumption DEF KeepInv
<1>9. UndoInv
  BY Zenon, <1>2, <1>3 DEF UndoInv, Cleaning, Resting, Undoing, Loading, Settled
<1> QED BY Zenon, <1>1, <1>4, <1>5, <1>6, <1>7, <1>8, <1>9 DEF WriteInv

(* ... and is kept by every step ... *)
LEMMA WriteInvStep == WriteInv /\ [Next]_vars => WriteInv'
<1> SUFFICES ASSUME WriteInv, [Next]_vars PROVE WriteInv'
  BY Zenon
<1>0. TypeOK' /\ IdInv'
  BY Zenon, TypeStep, IdStep DEF WriteInv
<1>1. CASE Next
  <2>i. TypeOK /\ IdInv /\ LogInv /\ StageInv /\ IngestInv /\ PublishedInv /\ OpenInv
        /\ ReadyIsWhole /\ KeepInv /\ UndoInv
    BY Zenon DEF WriteInv
  <2>1. LogInv'
    BY Zenon, <1>1, <2>i, LogThread, LogLoad, LogCrash DEF Next
  <2>2. StageInv' /\ IngestInv' /\ PublishedInv'
    BY Zenon, <1>1, <2>i, StageStep, IngestStep, PublishedStep
  <2>3. OpenInv' /\ KeepInv' /\ UndoInv'
    BY Zenon, <1>0, <1>1, <2>i, OpenStep, KeepStep, UndoStep
  <2>4. ReadyIsWhole'
    BY Zenon, <1>0, <1>1, <2>i, <2>2, ReadyStep
  <2> QED BY Zenon, <1>0, <2>1, <2>2, <2>3, <2>4 DEF WriteInv
<1>2. CASE UNCHANGED vars
  <2> USE <1>2 DEF vars, memory, threads, stores, rows, load
  <2>1. ASSUME NEW w \in Writes
        PROVE  /\ (Due(w)' <=> Due(w)) /\ (Logged("R", w)' <=> Logged("R", w))
               /\ (Stage(w)' <=> Stage(w))
               /\ (Settled(w)' <=> Settled(w)) /\ (Stripped(w)' <=> Stripped(w))
    <3>1. (Due(w)' <=> Due(w)) /\ (Logged("R", w)' <=> Logged("R", w))
      BY Zenon, LogKept DEF Due, Sts
    <3>2. (Whole(w)' <=> Whole(w)) /\ (Absent(w)' <=> Absent(w)) /\ (Interrupted(w)' <=> Interrupted(w))
      BY Zenon DEF Whole, Absent, Interrupted
    <3>3. (Settled(w)' <=> Settled(w)) /\ (Stripped(w)' <=> Stripped(w))
      BY Zenon, <3>2 DEF Settled, Stripped
    <3>4. Stage(w)' <=> Stage(w)
      BY Zenon, <3>2 DEF Stage
    <3> QED BY Zenon, <3>1, <3>3, <3>4
  <2>2. LogInv' /\ StageInv' /\ IngestInv' /\ PublishedInv'
    BY Zenon, <2>1 DEF WriteInv, LogInv, StageInv, IngestInv, InFlight, PublishedInv
  <2>3. OpenInv'
    BY Zenon, <2>1 DEF WriteInv, OpenInv, InFlight, FaultFree
  <2>4. KeepInv' /\ ReadyIsWhole'
    BY Zenon, <2>1, ConstantsAssumption DEF WriteInv, KeepInv, ReadyIsWhole, UndoneAgain, Whole, Interrupted
  <2>5. UndoInv'
    BY Zenon, <2>1 DEF WriteInv, UndoInv, CleanupLost, Cleaning, Resting, Interrupted
  <2> QED BY Zenon, <1>0, <2>2, <2>3, <2>4, <2>5 DEF WriteInv
<1> QED BY Zenon, <1>1, <1>2

(* ... so it holds throughout, in every configuration                      *)
(* (write_coordinator.cpp).                                                *)
THEOREM WriteInvariant == Spec => []WriteInv
<1> QED BY WriteInvInit, WriteInvStep, PTL DEF Spec

(* A ready document has all that its ingest wrote (MarkDocumentReady after *)
(* Commit), in every configuration, with any number of writers, crashes,   *)
(* failed repairs and re-ingests, but for a failed ingest that Recover     *)
(* undoes a second time.                                                   *)
THEOREM ReadyWhole == Spec => []ReadyIsWhole
<1>1. WriteInv => ReadyIsWhole
  BY Zenon DEF WriteInv
<1> QED BY <1>1, WriteInvariant, PTL

(* A write that is over is whole, absent or due to be cleaned up by the    *)
(* next load (Rollback, the rollback callback, Recover, step 8b of the     *)
(* load), in every configuration in which no cleanup was lost.             *)
THEOREM WholeOrAbsent == Spec => []AllOrNothing
<1>1. WriteInv => AllOrNothing
  <2> SUFFICES ASSUME WriteInv, mode = "up", ~CleanupLost, NEW w \in Writes, pc[w] = "done"
               PROVE  Whole(w) \/ Absent(w) \/ CleanupDue(w)
    BY Zenon DEF AllOrNothing
  <2>1. Settled(w) \/ Due(w)
    BY Zenon DEF WriteInv, UndoInv, Resting
  <2>2. ASSUME Due(w) PROVE CleanupDue(w)
    <3>1. TypeOK /\ IdInv /\ LogInv
      BY Zenon DEF WriteInv
    <3>2. Record("P", w) \in wal /\ Record("P", w).w = w /\ Record("P", w).st = "P" /\ Record("P", w).id = id[w]
      BY <2>2 DEF Due, Logged, Record
    <3>3. \A q \in wal : q.id = id[w] => q.st # "C"
      BY Zenon, <2>2, <3>1, Tied DEF Due
    <3> QED BY Zenon, <3>2, <3>3 DEF CleanupDue
  <2> QED BY Zenon, <2>1, <2>2 DEF Settled
<1> QED BY <1>1, WriteInvariant, PTL

(* Recover keeps the blocks of a write whose COMMITTED record could not be *)
(* appended (Commit's retries, AllStoresHave), whatever else happens.      *)
THEOREM CommitKept == Spec => CommitFailureKeepsData
<1>1. WriteInv /\ [Next]_vars =>
        [\A w \in Vectored :
           tries[w] > config.commit_max_retries /\ blocks[w] = "all" /\ ~Interrupted(w)
             => blocks'[w] = "all"]_vars
  <2> SUFFICES ASSUME WriteInv, Next, NEW w \in Vectored,
                      tries[w] > config.commit_max_retries, blocks[w] = "all", ~Interrupted(w)
               PROVE  blocks'[w] = "all"
    BY Zenon
  <2>1. Spent(w) /\ TypeOK /\ IdInv /\ LogInv /\ KeepInv
    BY Zenon DEF WriteInv, Spent
  <2> QED BY Zenon, <2>1, KeepsBlocks
<1> QED BY <1>1, WriteInvariant, PTL DEF Spec, CommitFailureKeepsData
=============================================================================
