----------------------- MODULE WriteCoordinatorProofs -----------------------
(***************************************************************************)
(* Proofs about WriteCoordinator for any set of writes, documents and      *)
(* configurations: types, the one-holder guard of BeginWrite, the          *)
(* uniqueness of the transaction ids in pending.wal, and the lemmas on the *)
(* log, the stages of a write and the documents being ingested.            *)
(***************************************************************************)
EXTENDS WriteCoordinator, TLAPS

(* TypeOK is preserved by every step of a write, of a load and by a crash. *)
LEMMA TypeStep == TypeOK /\ [Next]_vars => TypeOK'
<1> SUFFICES ASSUME TypeOK, [Next]_vars PROVE TypeOK'
  BY Zenon
<1> USE ConstantsAssumption DEF TypeOK, At, Go, Fault, Release, memory, threads, rows, stores, load
<1>0. CASE UNCHANGED vars
  BY Zenon, <1>0 DEF vars, TablesOK, ThreadsOK, StoresOK, LoadOK, FaultsOK
<1> SUFFICES ASSUME Next PROVE TypeOK'
  BY Zenon, <1>0
<1>c. config' = config
  BY Zenon DEF Next
<1>f. /\ next \in Nat
      /\ \A w \in Writes : id[w] \in Nat /\ Doc[w] \in Docs
      /\ \A w \in Writes : \A st \in {"P", "C", "R"} : Record(st, w) \in Records
  BY Zenon DEF TablesOK, ThreadsOK, Record, Records
<1>r. /\ \A r \in wal : r \in Records /\ r.id \in Nat /\ r.w \in Writes
      /\ cur \in Records \cup {None}
  BY Zenon DEF TablesOK, LoadOK, Records
<1>1. ASSUME NEW w \in Writes, Start(w) PROVE TypeOK'
  <2>1. ThreadsOK'
    BY Zenon, <1>1, <1>c, <1>f, <1>r DEF Start, ThreadsOK, Places, Holding
  <2>2. StoresOK'
    BY <1>1, <1>c, <1>f, <1>r DEF Start, StoresOK, Amounts
  <2>3. TablesOK' /\ LoadOK' /\ FaultsOK'
    BY Zenon, <1>1, <1>c DEF Start, TablesOK, LoadOK, FaultsOK
  <2> QED BY Zenon, <2>1, <2>2, <2>3, <1>c
<1>2. ASSUME NEW w \in Writes, BeginWrite(w) PROVE TypeOK'
  <2>1. TablesOK'
    BY <1>2, <1>c, <1>f, <1>r DEF BeginWrite, TablesOK, Records
  <2>2. ThreadsOK'
    BY <1>2, <1>c, <1>f, <1>r DEF BeginWrite, ThreadsOK, Places, Holding
  <2>3. StoresOK' /\ LoadOK' /\ FaultsOK'
    BY Zenon, <1>2, <1>c DEF BeginWrite, StoresOK, LoadOK, FaultsOK
  <2> QED BY Zenon, <2>1, <2>2, <2>3, <1>c
<1>3. ASSUME NEW w \in Writes, BeginRejected(w) PROVE TypeOK'
  <2>1. ThreadsOK'
    BY Zenon, <1>3, <1>c, <1>f, <1>r DEF BeginRejected, ThreadsOK, Places, Holding
  <2>2. TablesOK' /\ StoresOK' /\ LoadOK' /\ FaultsOK'
    BY Zenon, <1>3, <1>c DEF BeginRejected, TablesOK, StoresOK, LoadOK, FaultsOK
  <2> QED BY Zenon, <2>1, <2>2, <1>c
<1>4. ASSUME NEW w \in Writes, AppendPending(w) PROVE TypeOK'
  <2>1. TablesOK'
    BY <1>4, <1>c, <1>f, <1>r DEF AppendPending, AppendOk, TablesOK, Records
  <2>2. ThreadsOK'
    BY Zenon, <1>4, <1>c, <1>f, <1>r DEF AppendPending, AppendOk, Record, ThreadsOK, Places, Holding
  <2>3. FaultsOK'
    BY Zenon, <1>4, <1>c, <1>f, <1>r DEF AppendPending, AppendOk, Record, FaultsOK, Kinds
  <2>4. StoresOK' /\ LoadOK'
    BY Zenon, <1>4, <1>c DEF AppendPending, AppendOk, Record, StoresOK, LoadOK
  <2> QED BY Zenon, <2>1, <2>2, <2>3, <2>4, <1>c
<1>5. ASSUME NEW w \in Writes, AppendPendingFails(w) PROVE TypeOK'
  <2>1. TablesOK'
    BY <1>5, <1>c, <1>f, <1>r DEF AppendPendingFails, AppendFails, TablesOK, Records
  <2>2. ThreadsOK'
    BY Zenon, <1>5, <1>c, <1>f, <1>r DEF AppendPendingFails, AppendFails, Record, ThreadsOK, Places, Holding
  <2>3. FaultsOK'
    BY <1>5, <1>c, <1>f, <1>r DEF AppendPendingFails, AppendFails, Record, FaultsOK, Kinds
  <2>4. StoresOK' /\ LoadOK'
    BY Zenon, <1>5, <1>c DEF AppendPendingFails, AppendFails, Record, StoresOK, LoadOK
  <2> QED BY Zenon, <2>1, <2>2, <2>3, <2>4, <1>c
<1>6. ASSUME NEW w \in Writes, WriteFts(w) PROVE TypeOK'
  <2>1. ThreadsOK'
    BY <1>6, <1>c, <1>f, <1>r DEF WriteFts, ThreadsOK, Places, Holding
  <2>2. StoresOK'
    BY Zenon, <1>6, <1>c, <1>f, <1>r DEF WriteFts, StoresOK, Amounts
  <2>3. TablesOK' /\ LoadOK' /\ FaultsOK'
    BY Zenon, <1>6, <1>c DEF WriteFts, TablesOK, LoadOK, FaultsOK
  <2> QED BY Zenon, <2>1, <2>2, <2>3, <1>c
<1>7. ASSUME NEW w \in Writes, WriteFtsFails(w) PROVE TypeOK'
  <2>1. ThreadsOK'
    BY <1>7, <1>c, <1>f, <1>r DEF WriteFtsFails, ThreadsOK, Places, Holding
  <2>2. StoresOK'
    BY <1>7, <1>c, <1>f, <1>r DEF WriteFtsFails, StoresOK, Amounts
  <2>3. FaultsOK'
    BY <1>7, <1>c, <1>f, <1>r DEF WriteFtsFails, FaultsOK, Kinds
  <2>4. TablesOK' /\ LoadOK'
    BY Zenon, <1>7, <1>c DEF WriteFtsFails, TablesOK, LoadOK
  <2> QED BY Zenon, <2>1, <2>2, <2>3, <2>4, <1>c
<1>8. ASSUME NEW w \in Writes, AddPoints(w) PROVE TypeOK'
  <2>1. ThreadsOK'
    BY <1>8, <1>c, <1>f, <1>r DEF AddPoints, More, AfterVectors, ThreadsOK, Places, Holding
  <2>2. StoresOK'
    BY Zenon, <1>8, <1>c, <1>f, <1>r DEF AddPoints, More, AfterVectors, StoresOK, Amounts
  <2>3. TablesOK' /\ LoadOK' /\ FaultsOK'
    BY Zenon, <1>8, <1>c DEF AddPoints, More, AfterVectors, TablesOK, LoadOK, FaultsOK
  <2> QED BY Zenon, <2>1, <2>2, <2>3, <1>c
<1>9. ASSUME NEW w \in Writes, InsertParents(w) PROVE TypeOK'
  <2>1. ThreadsOK'
    BY Zenon, <1>9, <1>c, <1>f, <1>r DEF InsertParents, ThreadsOK, Places, Holding
  <2>2. StoresOK'
    BY Zenon, <1>9, <1>c, <1>f, <1>r DEF InsertParents, StoresOK, Amounts
  <2>3. TablesOK' /\ LoadOK' /\ FaultsOK'
    BY Zenon, <1>9, <1>c DEF InsertParents, TablesOK, LoadOK, FaultsOK
  <2> QED BY Zenon, <2>1, <2>2, <2>3, <1>c
<1>10. ASSUME NEW w \in Writes, InsertBlock(w) PROVE TypeOK'
  <2>1. ThreadsOK'
    BY Zenon, <1>10, <1>c, <1>f, <1>r DEF InsertBlock, More, ThreadsOK, Places, Holding
  <2>2. StoresOK'
    BY Zenon, <1>10, <1>c, <1>f, <1>r DEF InsertBlock, More, StoresOK, Amounts
  <2>3. TablesOK' /\ LoadOK' /\ FaultsOK'
    BY Zenon, <1>10, <1>c DEF InsertBlock, More, TablesOK, LoadOK, FaultsOK
  <2> QED BY Zenon, <2>1, <2>2, <2>3, <1>c
<1>11. ASSUME NEW w \in Writes, StoreFails(w) PROVE TypeOK'
  <2>1. ThreadsOK'
    BY Zenon, <1>11, <1>c, <1>f, <1>r DEF StoreFails, ThreadsOK, Places, Holding
  <2>2. FaultsOK'
    BY <1>11, <1>c, <1>f, <1>r DEF StoreFails, FaultsOK, Kinds
  <2>3. TablesOK' /\ StoresOK' /\ LoadOK'
    BY Zenon, <1>11, <1>c DEF StoreFails, TablesOK, StoresOK, LoadOK
  <2> QED BY Zenon, <2>1, <2>2, <2>3, <1>c
<1>12. ASSUME NEW w \in Writes, MarkCommitted(w) PROVE TypeOK'
  <2>1. TablesOK'
    BY Zenon, <1>12, <1>c, <1>f, <1>r DEF MarkCommitted, TablesOK, Records
  <2>2. ThreadsOK'
    BY Zenon, <1>12, <1>c, <1>f, <1>r DEF MarkCommitted, ThreadsOK, Places, Holding
  <2>3. StoresOK' /\ LoadOK' /\ FaultsOK'
    BY Zenon, <1>12, <1>c DEF MarkCommitted, StoresOK, LoadOK, FaultsOK
  <2> QED BY Zenon, <2>1, <2>2, <2>3, <1>c
<1>13. ASSUME NEW w \in Writes, AppendCommitted(w) PROVE TypeOK'
  <2>1. TablesOK'
    BY <1>13, <1>c, <1>f, <1>r DEF AppendCommitted, AppendOk, TablesOK, Records
  <2>2. ThreadsOK'
    BY Zenon, <1>13, <1>c, <1>f, <1>r DEF AppendCommitted, AppendOk, Record, ThreadsOK, Places, Holding
  <2>3. FaultsOK'
    BY Zenon, <1>13, <1>c, <1>f, <1>r DEF AppendCommitted, AppendOk, Record, FaultsOK, Kinds
  <2>4. StoresOK' /\ LoadOK'
    BY Zenon, <1>13, <1>c DEF AppendCommitted, AppendOk, Record, StoresOK, LoadOK
  <2> QED BY Zenon, <2>1, <2>2, <2>3, <2>4, <1>c
<1>14. ASSUME NEW w \in Writes, AppendCommittedFails(w) PROVE TypeOK'
  <2>1. TablesOK'
    BY <1>14, <1>c, <1>f, <1>r DEF AppendCommittedFails, AppendFails, TablesOK, Records
  <2>2. ThreadsOK'
    BY <1>14, <1>c, <1>f, <1>r DEF AppendCommittedFails, AppendFails, Record, ThreadsOK, Places, Holding
  <2>3. FaultsOK'
    BY <1>14, <1>c, <1>f, <1>r DEF AppendCommittedFails, AppendFails, Record, FaultsOK, Kinds
  <2>4. StoresOK' /\ LoadOK'
    BY Zenon, <1>14, <1>c DEF AppendCommittedFails, AppendFails, Record, StoresOK, LoadOK
  <2> QED BY Zenon, <2>1, <2>2, <2>3, <2>4, <1>c
<1>15. ASSUME NEW w \in Writes, ReleaseCommitted(w) PROVE TypeOK'
  <2>1. TablesOK'
    BY <1>15, <1>c, <1>f, <1>r DEF ReleaseCommitted, AfterCommit, TablesOK, Records
  <2>2. ThreadsOK'
    BY Zenon, <1>15, <1>c, <1>f, <1>r DEF ReleaseCommitted, AfterCommit, ThreadsOK, Places, Holding
  <2>3. StoresOK' /\ LoadOK' /\ FaultsOK'
    BY Zenon, <1>15, <1>c DEF ReleaseCommitted, AfterCommit, StoresOK, LoadOK, FaultsOK
  <2> QED BY Zenon, <2>1, <2>2, <2>3, <1>c
<1>16. ASSUME NEW w \in Writes, CompactInline(w) PROVE TypeOK'
  <2>1. TablesOK'
    BY Zenon, <1>16, <1>c, <1>f, <1>r DEF CompactInline, Live, AfterCommit, TablesOK, Records
  <2>2. ThreadsOK'
    BY Zenon, <1>16, <1>c, <1>f, <1>r DEF CompactInline, Live, AfterCommit, ThreadsOK, Places, Holding
  <2>3. StoresOK' /\ LoadOK' /\ FaultsOK'
    BY Zenon, <1>16, <1>c DEF CompactInline, Live, AfterCommit, StoresOK, LoadOK, FaultsOK
  <2> QED BY Zenon, <2>1, <2>2, <2>3, <1>c
<1>17. ASSUME NEW w \in Writes, CompactFails(w) PROVE TypeOK'
  <2>1. ThreadsOK'
    BY Zenon, <1>17, <1>c, <1>f, <1>r DEF CompactFails, AfterCommit, ThreadsOK, Places, Holding
  <2>2. FaultsOK'
    BY <1>17, <1>c, <1>f, <1>r DEF CompactFails, AfterCommit, FaultsOK, Kinds
  <2>3. TablesOK' /\ StoresOK' /\ LoadOK'
    BY Zenon, <1>17, <1>c DEF CompactFails, AfterCommit, TablesOK, StoresOK, LoadOK
  <2> QED BY Zenon, <2>1, <2>2, <2>3, <1>c
<1>18. ASSUME NEW w \in Writes, Publish(w) PROVE TypeOK'
  <2>1. ThreadsOK'
    BY Zenon, <1>18, <1>c, <1>f, <1>r DEF Publish, ThreadsOK, Places, Holding
  <2>2. StoresOK'
    BY Zenon, <1>18, <1>c, <1>f, <1>r DEF Publish, StoresOK, Amounts
  <2>3. TablesOK' /\ LoadOK' /\ FaultsOK'
    BY Zenon, <1>18, <1>c DEF Publish, TablesOK, LoadOK, FaultsOK
  <2> QED BY Zenon, <2>1, <2>2, <2>3, <1>c
<1>19. ASSUME NEW w \in Writes, PublishFails(w) PROVE TypeOK'
  <2>1. ThreadsOK'
    BY <1>19, <1>c, <1>f, <1>r DEF PublishFails, ThreadsOK, Places, Holding
  <2>2. FaultsOK'
    BY <1>19, <1>c, <1>f, <1>r DEF PublishFails, FaultsOK, Kinds
  <2>3. TablesOK' /\ StoresOK' /\ LoadOK'
    BY Zenon, <1>19, <1>c DEF PublishFails, TablesOK, StoresOK, LoadOK
  <2> QED BY Zenon, <2>1, <2>2, <2>3, <1>c
<1>20. ASSUME NEW w \in Writes, MarkRolledBack(w) PROVE TypeOK'
  <2>1. TablesOK'
    BY Zenon, <1>20, <1>c, <1>f, <1>r DEF MarkRolledBack, TablesOK, Records
  <2>2. ThreadsOK'
    BY <1>20, <1>c, <1>f, <1>r DEF MarkRolledBack, ThreadsOK, Places, Holding
  <2>3. StoresOK' /\ LoadOK' /\ FaultsOK'
    BY Zenon, <1>20, <1>c DEF MarkRolledBack, StoresOK, LoadOK, FaultsOK
  <2> QED BY Zenon, <2>1, <2>2, <2>3, <1>c
<1>21. ASSUME NEW w \in Writes, AppendRollback(w) PROVE TypeOK'
  <2>1. TablesOK'
    BY Zenon, <1>21, <1>c, <1>f, <1>r DEF AppendRollback, AppendOk, TablesOK, Records
  <2>2. ThreadsOK'
    BY Zenon, <1>21, <1>c, <1>f, <1>r DEF AppendRollback, AppendOk, Record, ThreadsOK, Places, Holding
  <2>3. FaultsOK'
    BY Zenon, <1>21, <1>c, <1>f, <1>r DEF AppendRollback, AppendOk, Record, FaultsOK, Kinds
  <2>4. StoresOK' /\ LoadOK'
    BY Zenon, <1>21, <1>c DEF AppendRollback, AppendOk, Record, StoresOK, LoadOK
  <2> QED BY Zenon, <2>1, <2>2, <2>3, <2>4, <1>c
<1>22. ASSUME NEW w \in Writes, AppendRollbackFails(w) PROVE TypeOK'
  <2>1. TablesOK'
    BY Zenon, <1>22, <1>c, <1>f, <1>r DEF AppendRollbackFails, AppendFails, TablesOK, Records
  <2>2. ThreadsOK'
    BY Zenon, <1>22, <1>c, <1>f, <1>r DEF AppendRollbackFails, AppendFails, Record, ThreadsOK, Places, Holding
  <2>3. FaultsOK'
    BY <1>22, <1>c, <1>f, <1>r DEF AppendRollbackFails, AppendFails, Record, FaultsOK, Kinds
  <2>4. StoresOK' /\ LoadOK'
    BY Zenon, <1>22, <1>c DEF AppendRollbackFails, AppendFails, Record, StoresOK, LoadOK
  <2> QED BY Zenon, <2>1, <2>2, <2>3, <2>4, <1>c
<1>23. ASSUME NEW w \in Writes, ReleaseRolledBack(w) PROVE TypeOK'
  <2>1. TablesOK'
    BY Zenon, <1>23, <1>c, <1>f, <1>r DEF ReleaseRolledBack, TablesOK, Records
  <2>2. ThreadsOK'
    BY Zenon, <1>23, <1>c, <1>f, <1>r DEF ReleaseRolledBack, ThreadsOK, Places, Holding
  <2>3. StoresOK' /\ LoadOK' /\ FaultsOK'
    BY Zenon, <1>23, <1>c DEF ReleaseRolledBack, StoresOK, LoadOK, FaultsOK
  <2> QED BY Zenon, <2>1, <2>2, <2>3, <1>c
<1>24. ASSUME NEW w \in Writes, CleanVectors(w) PROVE TypeOK'
  <2>1. ThreadsOK'
    BY <1>24, <1>c, <1>f, <1>r DEF CleanVectors, DeleteVectors, ThreadsOK, Places, Holding
  <2>2. StoresOK'
    BY <1>24, <1>c, <1>f, <1>r DEF CleanVectors, DeleteVectors, StoresOK, Amounts
  <2>3. FaultsOK'
    BY <1>24, <1>c, <1>f, <1>r DEF CleanVectors, DeleteVectors, FaultsOK, Kinds
  <2>4. TablesOK' /\ LoadOK'
    BY Zenon, <1>24, <1>c DEF CleanVectors, DeleteVectors, TablesOK, LoadOK
  <2> QED BY Zenon, <2>1, <2>2, <2>3, <2>4, <1>c
<1>25. ASSUME NEW w \in Writes, CleanBlocks(w) PROVE TypeOK'
  <2>1. ThreadsOK'
    BY Zenon, <1>25, <1>c, <1>f, <1>r DEF CleanBlocks, ThreadsOK, Places, Holding
  <2>2. StoresOK'
    BY Zenon, <1>25, <1>c, <1>f, <1>r DEF CleanBlocks, StoresOK, Amounts
  <2>3. TablesOK' /\ LoadOK' /\ FaultsOK'
    BY Zenon, <1>25, <1>c DEF CleanBlocks, TablesOK, LoadOK, FaultsOK
  <2> QED BY Zenon, <2>1, <2>2, <2>3, <1>c
<1>26. ASSUME NEW w \in Writes, CleanDocument(w) PROVE TypeOK'
  <2>1. ThreadsOK'
    BY <1>26, <1>c, <1>f, <1>r DEF CleanDocument, ThreadsOK, Places, Holding
  <2>2. StoresOK'
    BY Zenon, <1>26, <1>c, <1>f, <1>r DEF CleanDocument, StoresOK, Amounts
  <2>3. TablesOK' /\ LoadOK' /\ FaultsOK'
    BY Zenon, <1>26, <1>c DEF CleanDocument, TablesOK, LoadOK, FaultsOK
  <2> QED BY Zenon, <2>1, <2>2, <2>3, <1>c
<1>27. ASSUME NEW w \in Writes, Fail(w) PROVE TypeOK'
  <2>1. ThreadsOK'
    BY Zenon, <1>27, <1>c, <1>f, <1>r DEF Fail, ThreadsOK, Places, Holding
  <2>2. StoresOK'
    BY Zenon, <1>27, <1>c, <1>f, <1>r DEF Fail, StoresOK, Amounts
  <2>3. TablesOK' /\ LoadOK' /\ FaultsOK'
    BY Zenon, <1>27, <1>c DEF Fail, TablesOK, LoadOK, FaultsOK
  <2> QED BY Zenon, <2>1, <2>2, <2>3, <1>c
<1>28. ASSUME NEW i \in todo, RecoverCommitted(i) PROVE TypeOK'
  <2>1. LoadOK'
    BY Zenon, <1>28, <1>c, <1>f, <1>r DEF RecoverCommitted, Resolving, LoadOK, Records
  <2>2. TablesOK' /\ ThreadsOK' /\ StoresOK' /\ FaultsOK'
    BY Zenon, <1>28, <1>c DEF RecoverCommitted, Resolving, TablesOK, ThreadsOK, StoresOK, FaultsOK
  <2> QED BY Zenon, <2>1, <2>2, <1>c
<1>29. ASSUME NEW i \in todo, RecoverRolledBack(i) PROVE TypeOK'
  <2>1. StoresOK'
    BY <1>29, <1>c, <1>f, <1>r DEF RecoverRolledBack, Cleanup, DeleteVectors, PendingOf, Resolving, StoresOK, Amounts
  <2>2. LoadOK'
    BY Zenon, <1>29, <1>c, <1>f, <1>r DEF RecoverRolledBack, Cleanup, DeleteVectors, PendingOf, Resolving, LoadOK, Records
  <2>3. FaultsOK'
    BY <1>29, <1>c, <1>f, <1>r DEF RecoverRolledBack, Cleanup, DeleteVectors, PendingOf, Resolving, FaultsOK, Kinds
  <2>4. TablesOK' /\ ThreadsOK'
    BY Zenon, <1>29, <1>c DEF RecoverRolledBack, Cleanup, DeleteVectors, PendingOf, Resolving, TablesOK, ThreadsOK
  <2> QED BY Zenon, <2>1, <2>2, <2>3, <2>4, <1>c
<1>30. ASSUME NEW i \in todo, RecoverInferCommitted(i) PROVE TypeOK'
  <2>1. LoadOK'
    BY <1>30, <1>c, <1>f, <1>r DEF RecoverInferCommitted, PendingOf, Resolving, LoadOK, Records
  <2>2. TablesOK' /\ ThreadsOK' /\ StoresOK' /\ FaultsOK'
    BY Zenon, <1>30, <1>c DEF RecoverInferCommitted, PendingOf, Resolving, TablesOK, ThreadsOK, StoresOK, FaultsOK
  <2> QED BY Zenon, <2>1, <2>2, <1>c
<1>31. ASSUME NEW i \in todo, RecoverMidWrite(i) PROVE TypeOK'
  <2>1. StoresOK'
    BY <1>31, <1>c, <1>f, <1>r DEF RecoverMidWrite, Cleanup, DeleteVectors, PendingOf, Resolving, StoresOK, Amounts
  <2>2. LoadOK'
    BY <1>31, <1>c, <1>f, <1>r DEF RecoverMidWrite, Cleanup, DeleteVectors, PendingOf, Resolving, LoadOK, Records
  <2>3. FaultsOK'
    BY <1>31, <1>c, <1>f, <1>r DEF RecoverMidWrite, Cleanup, DeleteVectors, PendingOf, Resolving, FaultsOK, Kinds
  <2>4. TablesOK' /\ ThreadsOK'
    BY Zenon, <1>31, <1>c DEF RecoverMidWrite, Cleanup, DeleteVectors, PendingOf, Resolving, TablesOK, ThreadsOK
  <2> QED BY Zenon, <2>1, <2>2, <2>3, <2>4, <1>c
<1>32. CASE Crash
  <2>1. TablesOK'
    BY Zenon, <1>32, <1>c, <1>f, <1>r DEF Crash, TablesOK, Records
  <2>2. ThreadsOK'
    BY Zenon, <1>32, <1>c, <1>f, <1>r DEF Crash, ThreadsOK, Places, Holding
  <2>3. LoadOK'
    BY <1>32, <1>c, <1>f, <1>r DEF Crash, LoadOK, Records
  <2>4. FaultsOK'
    BY <1>32, <1>c, <1>f, <1>r DEF Crash, FaultsOK, Kinds
  <2>5. StoresOK'
    BY Zenon, <1>32, <1>c DEF Crash, StoresOK
  <2> QED BY Zenon, <2>1, <2>2, <2>3, <2>4, <2>5, <1>c
<1>33. CASE RecoverRefuses
  <2>1. LoadOK'
    BY Zenon, <1>33, <1>c, <1>f, <1>r DEF RecoverRefuses, LoadOK, Records
  <2>2. TablesOK' /\ ThreadsOK' /\ StoresOK' /\ FaultsOK'
    BY Zenon, <1>33, <1>c DEF RecoverRefuses, TablesOK, ThreadsOK, StoresOK, FaultsOK
  <2> QED BY Zenon, <2>1, <2>2, <1>c
<1>34. CASE RecoverFinalize
  <2>1. TablesOK'
    BY Zenon, <1>34, <1>c, <1>f, <1>r DEF RecoverFinalize, AppendOk, AppendFails, TablesOK, Records
  <2>2. LoadOK'
    BY Zenon, <1>34, <1>c, <1>f, <1>r DEF RecoverFinalize, AppendOk, AppendFails, LoadOK, Records
  <2>3. FaultsOK'
    BY <1>34, <1>c, <1>f, <1>r DEF RecoverFinalize, AppendOk, AppendFails, FaultsOK, Kinds
  <2>4. ThreadsOK' /\ StoresOK'
    BY Zenon, <1>34, <1>c DEF RecoverFinalize, AppendOk, AppendFails, ThreadsOK, StoresOK
  <2> QED BY Zenon, <2>1, <2>2, <2>3, <2>4, <1>c
<1>35. CASE RecoverFinish
  <2>1. TablesOK'
    BY <1>35, <1>c, <1>f, <1>r DEF RecoverFinish, Live, TablesOK, Records
  <2>2. LoadOK'
    BY Zenon, <1>35, <1>c, <1>f, <1>r DEF RecoverFinish, Live, LoadOK, Records
  <2>3. ThreadsOK' /\ StoresOK' /\ FaultsOK'
    BY Zenon, <1>35, <1>c DEF RecoverFinish, Live, ThreadsOK, StoresOK, FaultsOK
  <2> QED BY Zenon, <2>1, <2>2, <2>3, <1>c
<1>36. CASE RecoverCompactFails
  <2>1. LoadOK'
    BY Zenon, <1>36, <1>c, <1>f, <1>r DEF RecoverCompactFails, LoadOK, Records
  <2>2. FaultsOK'
    BY <1>36, <1>c, <1>f, <1>r DEF RecoverCompactFails, FaultsOK, Kinds
  <2>3. TablesOK' /\ ThreadsOK' /\ StoresOK'
    BY Zenon, <1>36, <1>c DEF RecoverCompactFails, TablesOK, ThreadsOK, StoresOK
  <2> QED BY Zenon, <2>1, <2>2, <2>3, <1>c
<1>37. CASE DropCrashedDocVectors
  <2>1. StoresOK'
    BY Zenon, <1>37, <1>c, <1>f, <1>r DEF DropCrashedDocVectors, StoresOK, Amounts
  <2>2. LoadOK'
    BY Zenon, <1>37, <1>c, <1>f, <1>r DEF DropCrashedDocVectors, LoadOK, Records
  <2>3. TablesOK' /\ ThreadsOK' /\ FaultsOK'
    BY Zenon, <1>37, <1>c DEF DropCrashedDocVectors, TablesOK, ThreadsOK, FaultsOK
  <2> QED BY Zenon, <2>1, <2>2, <2>3, <1>c
<1>38. CASE RecoverCrashedDocs
  <2>1. StoresOK'
    BY Zenon, <1>38, <1>c, <1>f, <1>r DEF RecoverCrashedDocs, StoresOK, Amounts
  <2>2. LoadOK'
    BY Zenon, <1>38, <1>c, <1>f, <1>r DEF RecoverCrashedDocs, LoadOK, Records
  <2>3. TablesOK' /\ ThreadsOK' /\ FaultsOK'
    BY Zenon, <1>38, <1>c DEF RecoverCrashedDocs, TablesOK, ThreadsOK, FaultsOK
  <2> QED BY Zenon, <2>1, <2>2, <2>3, <1>c
<1> QED
  BY Zenon, <1>1, <1>2, <1>3, <1>4, <1>5, <1>6, <1>7, <1>8, <1>9, <1>10, <1>11, <1>12, <1>13,
     <1>14, <1>15, <1>16, <1>17, <1>18, <1>19, <1>20, <1>21, <1>22, <1>23, <1>24, <1>25, <1>26,
     <1>27, <1>28, <1>29, <1>30, <1>31, <1>32, <1>33, <1>34, <1>35, <1>36, <1>37, <1>38
  DEF Next, Step, Load

(* BeginWrite's guard and the two releases keep one holder per document.   *)
LEMMA HolderStep == TypeOK /\ OneWriterPerDoc /\ [Next]_vars => OneWriterPerDoc'
<1> SUFFICES ASSUME TypeOK, OneWriterPerDoc, [Next]_vars PROVE OneWriterPerDoc'
  BY Zenon
<1>t. /\ pc \in [Writes -> Places] /\ holder \in [Docs -> Writes \cup {None}]
      /\ None \notin Writes /\ \A w \in Writes : Doc[w] \in Docs
  BY Zenon, ConstantsAssumption DEF TypeOK, ThreadsOK, TablesOK
<1> USE <1>t DEF OneWriterPerDoc, Holding, At, Go, memory
<1>0. CASE UNCHANGED vars
  BY Zenon, <1>0 DEF vars, threads
<1>1. ASSUME NEW w \in Writes, Start(w) PROVE OneWriterPerDoc'
  BY Zenon, <1>1 DEF Start
<1>2. ASSUME NEW w \in Writes, BeginWrite(w) PROVE OneWriterPerDoc'
  BY Zenon, <1>2 DEF BeginWrite
<1>3. ASSUME NEW w \in Writes, BeginRejected(w) PROVE OneWriterPerDoc'
  BY Zenon, <1>3 DEF BeginRejected
<1>4. ASSUME NEW w \in Writes, AppendPending(w) PROVE OneWriterPerDoc'
  BY Zenon, <1>4 DEF AppendPending
<1>5. ASSUME NEW w \in Writes, AppendPendingFails(w) PROVE OneWriterPerDoc'
  BY Zenon, <1>5 DEF AppendPendingFails, Release
<1>6. ASSUME NEW w \in Writes, WriteFts(w) PROVE OneWriterPerDoc'
  BY Zenon, <1>6 DEF WriteFts
<1>7. ASSUME NEW w \in Writes, WriteFtsFails(w) PROVE OneWriterPerDoc'
  BY Zenon, <1>7 DEF WriteFtsFails
<1>8. ASSUME NEW w \in Writes, AddPoints(w) PROVE OneWriterPerDoc'
  BY Zenon, <1>8 DEF AddPoints, AfterVectors
<1>9. ASSUME NEW w \in Writes, InsertParents(w) PROVE OneWriterPerDoc'
  BY Zenon, <1>9 DEF InsertParents
<1>10. ASSUME NEW w \in Writes, InsertBlock(w) PROVE OneWriterPerDoc'
  BY Zenon, <1>10 DEF InsertBlock
<1>11. ASSUME NEW w \in Writes, StoreFails(w) PROVE OneWriterPerDoc'
  BY Zenon, <1>11 DEF StoreFails
<1>12. ASSUME NEW w \in Writes, MarkCommitted(w) PROVE OneWriterPerDoc'
  BY Zenon, <1>12 DEF MarkCommitted
<1>13. ASSUME NEW w \in Writes, AppendCommitted(w) PROVE OneWriterPerDoc'
  BY Zenon, <1>13 DEF AppendCommitted
<1>14. ASSUME NEW w \in Writes, AppendCommittedFails(w) PROVE OneWriterPerDoc'
  BY Zenon, <1>14 DEF AppendCommittedFails, Release
<1>15. ASSUME NEW w \in Writes, ReleaseCommitted(w) PROVE OneWriterPerDoc'
  BY Zenon, <1>15 DEF ReleaseCommitted, AfterCommit, Release
<1>16. ASSUME NEW w \in Writes, CompactInline(w) PROVE OneWriterPerDoc'
  BY Zenon, <1>16 DEF CompactInline, AfterCommit
<1>17. ASSUME NEW w \in Writes, CompactFails(w) PROVE OneWriterPerDoc'
  BY Zenon, <1>17 DEF CompactFails, AfterCommit
<1>18. ASSUME NEW w \in Writes, Publish(w) PROVE OneWriterPerDoc'
  BY Zenon, <1>18 DEF Publish
<1>19. ASSUME NEW w \in Writes, PublishFails(w) PROVE OneWriterPerDoc'
  BY Zenon, <1>19 DEF PublishFails
<1>20. ASSUME NEW w \in Writes, MarkRolledBack(w) PROVE OneWriterPerDoc'
  BY Zenon, <1>20 DEF MarkRolledBack
<1>21. ASSUME NEW w \in Writes, AppendRollback(w) PROVE OneWriterPerDoc'
  BY Zenon, <1>21 DEF AppendRollback
<1>22. ASSUME NEW w \in Writes, AppendRollbackFails(w) PROVE OneWriterPerDoc'
  BY Zenon, <1>22 DEF AppendRollbackFails
<1>23. ASSUME NEW w \in Writes, ReleaseRolledBack(w) PROVE OneWriterPerDoc'
  BY Zenon, <1>23 DEF ReleaseRolledBack, Release
<1>24. ASSUME NEW w \in Writes, CleanVectors(w) PROVE OneWriterPerDoc'
  BY Zenon, <1>24 DEF CleanVectors
<1>25. ASSUME NEW w \in Writes, CleanBlocks(w) PROVE OneWriterPerDoc'
  BY Zenon, <1>25 DEF CleanBlocks
<1>26. ASSUME NEW w \in Writes, CleanDocument(w) PROVE OneWriterPerDoc'
  BY Zenon, <1>26 DEF CleanDocument
<1>27. ASSUME NEW w \in Writes, Fail(w) PROVE OneWriterPerDoc'
  BY Zenon, <1>27 DEF Fail
<1>28. ASSUME NEW i \in todo, RecoverCommitted(i) PROVE OneWriterPerDoc'
  BY Zenon, <1>28 DEF RecoverCommitted, threads
<1>29. ASSUME NEW i \in todo, RecoverRolledBack(i) PROVE OneWriterPerDoc'
  BY Zenon, <1>29 DEF RecoverRolledBack, threads
<1>30. ASSUME NEW i \in todo, RecoverInferCommitted(i) PROVE OneWriterPerDoc'
  BY Zenon, <1>30 DEF RecoverInferCommitted, threads
<1>31. ASSUME NEW i \in todo, RecoverMidWrite(i) PROVE OneWriterPerDoc'
  BY Zenon, <1>31 DEF RecoverMidWrite, threads
<1>32. CASE Crash
  BY Zenon, <1>32 DEF Crash
<1>33. CASE RecoverRefuses
  BY Zenon, <1>33 DEF RecoverRefuses, threads
<1>34. CASE RecoverFinalize
  BY Zenon, <1>34 DEF RecoverFinalize, threads
<1>35. CASE RecoverFinish
  BY Zenon, <1>35 DEF RecoverFinish, threads
<1>36. CASE RecoverCompactFails
  BY Zenon, <1>36 DEF RecoverCompactFails, threads
<1>37. CASE DropCrashedDocVectors
  BY Zenon, <1>37 DEF DropCrashedDocVectors, threads
<1>38. CASE RecoverCrashedDocs
  BY Zenon, <1>38 DEF RecoverCrashedDocs, threads
<1> QED
  BY Zenon, <1>0, <1>1, <1>2, <1>3, <1>4, <1>5, <1>6, <1>7, <1>8, <1>9, <1>10, <1>11, <1>12, <1>13,
     <1>14, <1>15, <1>16, <1>17, <1>18, <1>19, <1>20, <1>21, <1>22, <1>23, <1>24, <1>25, <1>26,
     <1>27, <1>28, <1>29, <1>30, <1>31, <1>32, <1>33, <1>34, <1>35, <1>36, <1>37, <1>38
  DEF Next, Step, Load

(* The reseeded counter and the ids of running writes stay ahead of the log. *)
LEMMA IdStep == TypeOK /\ IdInv /\ [Next]_vars => IdInv'
<1> SUFFICES ASSUME TypeOK, IdInv, [Next]_vars PROVE IdInv'
  BY Zenon
<1>t. /\ pc \in [Writes -> Places] /\ id \in [Writes -> Nat] /\ next \in Nat
      /\ wal \subseteq Records /\ cur \in Records \cup {None} /\ None \notin Writes
  BY Zenon, ConstantsAssumption DEF TypeOK, ThreadsOK, TablesOK, LoadOK
<1> USE <1>t DEF IdInv, Holding, Records, At, Go, memory, threads, load
<1>0. CASE UNCHANGED vars
  BY <1>0 DEF vars
<1>1. ASSUME NEW w \in Writes, Start(w) PROVE IdInv'
  BY <1>1 DEF Start
<1>2. ASSUME NEW w \in Writes, BeginWrite(w) PROVE IdInv'
  BY <1>2 DEF BeginWrite
<1>3. ASSUME NEW w \in Writes, BeginRejected(w) PROVE IdInv'
  BY <1>3 DEF BeginRejected
<1>4. ASSUME NEW w \in Writes, AppendPending(w) PROVE IdInv'
  BY <1>4 DEF AppendPending, AppendOk, Record
<1>5. ASSUME NEW w \in Writes, AppendPendingFails(w) PROVE IdInv'
  BY <1>5 DEF AppendPendingFails, AppendFails, Record
<1>6. ASSUME NEW w \in Writes, WriteFts(w) PROVE IdInv'
  BY <1>6 DEF WriteFts
<1>7. ASSUME NEW w \in Writes, WriteFtsFails(w) PROVE IdInv'
  BY <1>7 DEF WriteFtsFails
<1>8. ASSUME NEW w \in Writes, AddPoints(w) PROVE IdInv'
  BY <1>8 DEF AddPoints, AfterVectors
<1>9. ASSUME NEW w \in Writes, InsertParents(w) PROVE IdInv'
  BY <1>9 DEF InsertParents
<1>10. ASSUME NEW w \in Writes, InsertBlock(w) PROVE IdInv'
  BY <1>10 DEF InsertBlock
<1>11. ASSUME NEW w \in Writes, StoreFails(w) PROVE IdInv'
  BY <1>11 DEF StoreFails
<1>12. ASSUME NEW w \in Writes, MarkCommitted(w) PROVE IdInv'
  BY <1>12 DEF MarkCommitted
<1>13. ASSUME NEW w \in Writes, AppendCommitted(w) PROVE IdInv'
  BY <1>13 DEF AppendCommitted, AppendOk, Record
<1>14. ASSUME NEW w \in Writes, AppendCommittedFails(w) PROVE IdInv'
  BY <1>14 DEF AppendCommittedFails, AppendFails, Record
<1>15. ASSUME NEW w \in Writes, ReleaseCommitted(w) PROVE IdInv'
  BY <1>15 DEF ReleaseCommitted, AfterCommit
<1>16. ASSUME NEW w \in Writes, CompactInline(w) PROVE IdInv'
  BY <1>16 DEF CompactInline, Live, AfterCommit
<1>17. ASSUME NEW w \in Writes, CompactFails(w) PROVE IdInv'
  BY Zenon, <1>17 DEF CompactFails, AfterCommit
<1>18. ASSUME NEW w \in Writes, Publish(w) PROVE IdInv'
  BY <1>18 DEF Publish
<1>19. ASSUME NEW w \in Writes, PublishFails(w) PROVE IdInv'
  BY <1>19 DEF PublishFails
<1>20. ASSUME NEW w \in Writes, MarkRolledBack(w) PROVE IdInv'
  BY <1>20 DEF MarkRolledBack
<1>21. ASSUME NEW w \in Writes, AppendRollback(w) PROVE IdInv'
  BY <1>21 DEF AppendRollback, AppendOk, Record
<1>22. ASSUME NEW w \in Writes, AppendRollbackFails(w) PROVE IdInv'
  BY <1>22 DEF AppendRollbackFails, AppendFails, Record
<1>23. ASSUME NEW w \in Writes, ReleaseRolledBack(w) PROVE IdInv'
  BY <1>23 DEF ReleaseRolledBack
<1>24. ASSUME NEW w \in Writes, CleanVectors(w) PROVE IdInv'
  BY <1>24 DEF CleanVectors
<1>25. ASSUME NEW w \in Writes, CleanBlocks(w) PROVE IdInv'
  BY <1>25 DEF CleanBlocks
<1>26. ASSUME NEW w \in Writes, CleanDocument(w) PROVE IdInv'
  BY <1>26 DEF CleanDocument
<1>27. ASSUME NEW w \in Writes, Fail(w) PROVE IdInv'
  BY Zenon, <1>27 DEF Fail
<1>28. ASSUME NEW i \in todo, RecoverCommitted(i) PROVE IdInv'
  BY Zenon, <1>28 DEF RecoverCommitted, Resolving
<1>29. ASSUME NEW i \in todo, RecoverRolledBack(i) PROVE IdInv'
  BY Zenon, <1>29 DEF RecoverRolledBack, PendingOf, Resolving
<1>30. ASSUME NEW i \in todo, RecoverInferCommitted(i) PROVE IdInv'
  BY <1>30 DEF RecoverInferCommitted, PendingOf, Resolving
<1>31. ASSUME NEW i \in todo, RecoverMidWrite(i) PROVE IdInv'
  BY <1>31 DEF RecoverMidWrite, PendingOf, Resolving
<1>32. CASE Crash
  BY Zenon, <1>32 DEF Crash
<1>33. CASE RecoverRefuses
  BY Zenon, <1>33 DEF RecoverRefuses
<1>34. CASE RecoverFinalize
  BY <1>34 DEF RecoverFinalize, AppendOk, AppendFails
<1>35. CASE RecoverFinish
  BY <1>35 DEF RecoverFinish, Live
<1>36. CASE RecoverCompactFails
  BY Zenon, <1>36 DEF RecoverCompactFails
<1>37. CASE DropCrashedDocVectors
  BY Zenon, <1>37 DEF DropCrashedDocVectors
<1>38. CASE RecoverCrashedDocs
  BY Zenon, <1>38 DEF RecoverCrashedDocs
<1> QED
  BY Zenon, <1>0, <1>1, <1>2, <1>3, <1>4, <1>5, <1>6, <1>7, <1>8, <1>9, <1>10, <1>11, <1>12, <1>13,
     <1>14, <1>15, <1>16, <1>17, <1>18, <1>19, <1>20, <1>21, <1>22, <1>23, <1>24, <1>25, <1>26,
     <1>27, <1>28, <1>29, <1>30, <1>31, <1>32, <1>33, <1>34, <1>35, <1>36, <1>37, <1>38
  DEF Next, Step, Load

(* The tables, threads, stores and load of WriteCoordinator keep their     *)
(* types and bounds in every configuration, with any number of crashes.    *)
THEOREM TypeCorrect == Spec => []TypeOK
<1>1. Init => TypeOK
  BY ConstantsAssumption DEF Init, TypeOK, TablesOK, ThreadsOK, StoresOK, LoadOK, FaultsOK,
     Amounts, Places, Holding
<1> QED BY <1>1, TypeStep, PTL DEF Spec

(* A document never has two live transactions: what BeginWrite's Q2 guard  *)
(* is there for, for any number of writers.                                *)
THEOREM OneWriter == Spec => []OneWriterPerDoc
<1>1. Init => OneWriterPerDoc
  BY DEF Init, OneWriterPerDoc, Holding
<1> QED BY <1>1, TypeCorrect, HolderStep, PTL DEF Spec

(* No txn_id is in pending.wal for two writes, across every crash, failed  *)
(* append, failed finalize and reseed of the counter by Recover.           *)
THEOREM TxnIdsUnique == Spec => []IdsUnique
<1>1. Init => IdInv
  BY DEF Init, IdInv, Holding
<1>2. IdInv => IdsUnique
  BY DEF IdInv, IdsUnique
<1> QED BY <1>1, <1>2, TypeCorrect, IdStep, PTL DEF Spec

(* Writers stay apart in every configuration: one per document, and no two *)
(* behind one id (BeginWrite, Rollback, Recover).                          *)
THEOREM Apart == Spec => []WritersApart
<1>1. OneWriterPerDoc /\ IdsUnique => WritersApart
  BY DEF WritersApart
<1> QED BY <1>1, OneWriter, TxnIdsUnique, PTL

-----------------------------------------------------------------------------
(* What a write leaves in the stores and in the log *)

(* Records of pending.wal by write: each write draws one id. *)
Logged(st, w) == Record(st, w) \in wal
Due(w) == Logged("P", w) /\ ~Logged("C", w)
Early == {"idle", "begin", "pending"}
Writing == {"fts", "vec", "parents", "blocks", "commit", "rollback", "rolledback"}
Undoing == {"unhold", "clean_vectors", "clean_blocks", "clean_document"}
Committing == {"commit", "committed", "release", "compact", "publish"}
Loading == {"recover", "refused"}

(* A record carries the id its write drew; a write that is still writing   *)
(* has its PENDING record in the log and no terminal one; and nobody       *)
(* writes while a namespace loads.                                         *)
LogInv ==
  /\ \A r \in wal : r.id = id[r.w] /\ pc[r.w] \notin Early
  /\ cur # None => cur.st # "P" /\ cur.id = id[cur.w] /\ pc[cur.w] \notin Early
  /\ mode # "up" => \A w \in Writes : pc[w] \in {"idle", "done"}
  /\ \A w \in Writes : pc[w] \in Writing => Due(w) /\ ~Logged("R", w)
  /\ \A w \in Writes : pc[w] = "committed" => ~Logged("R", w)

(* How much of a write the stores hold at each of its steps. *)
Stage(w) ==
  /\ pc[w] \in {"fts", "parents", "publish", "clean_document"} => Ingest(w)
  /\ w \notin Vectored => vec[w] = "none"
  /\ ~Ingest(w) => w \notin parents
  /\ pc[w] \in Early \cup {"fts"} => Absent(w)
  /\ pc[w] \in {"vec", "parents"} => blocks[w] = "none" /\ w \notin parents
  /\ pc[w] = "vec" => vec[w] # "all"
  /\ pc[w] \in {"parents", "blocks"} => (w \in Vectored => vec[w] = "all")
  /\ pc[w] = "blocks" => blocks[w] # "all"
  /\ pc[w] \in Committing => Whole(w)
StageInv == \A w \in Writes : Stage(w)

(* A document is ingested by one write at a time, whose rows replace what  *)
(* the document had, and is processing meanwhile.                          *)
AfterFts == {"vec", "parents", "blocks"} \cup Committing
AfterParents == {"blocks"} \cup Committing
IngestInv ==
  /\ \A w \in Writes : pc[w] # "idle" => w \in config.writes
  /\ \A v, w \in Writes :
       Ingest(v) /\ Ingest(w) /\ Doc[v] = Doc[w] /\ InFlight(v) /\ InFlight(w) => v = w
  /\ \A w \in Writes : Ingest(w) /\ InFlight(w) => status[Doc[w]] = "processing"
  /\ \A w \in Writes : Ingest(w) /\ pc[w] \in AfterFts => fts[Doc[w]] = w
  /\ \A w \in Writes : Ingest(w) /\ pc[w] \in AfterParents => w \in parents

(* What is published was committed, and the log does not say otherwise.    *)
PublishedInv ==
  /\ \A d \in Docs : status[d] = "ready" => published[d] # None
  /\ \A d \in Docs, w \in Writes : published[d] = w =>
       Doc[w] = d /\ Ingest(w) /\ pc[w] = "done" /\ ~Due(w)
  /\ \A w \in Writes : pc[w] \in {"release", "compact", "publish"} => ~Due(w)

(* Without faults but crashes, a write the log has open is in progress, or *)
(* was when the process died.                                              *)
FaultFree == faults["store"] = 0 /\ faults["append"] = 0 /\ faults["late"] = 0
OpenInv ==
  /\ \A w \in Writes : pc[w] \in Undoing \cup {"rollback", "rolledback"} => faults["store"] > 0
  /\ mode # "up" => faults["crash"] > 0
  /\ FaultFree => \A w \in Writes : Due(w) =>
       \/ mode = "up" /\ InFlight(w) /\ pc[w] # "fail"
       \/ /\ mode \in Loading
          /\ Ingest(w) => status[Doc[w]] = "processing"
          /\ id[w] \in todo \/ Logged("R", w) \/ (cur # None /\ cur.w = w)

(* A commit that failed is still whole when a recovery looks at it. *)
KeepInv ==
  \A w \in Vectored : tries[w] > config.commit_max_retries /\ blocks[w] = "all" =>
    /\ ~Logged("R", w) /\ (cur # None /\ cur.w = w => cur.st = "C")
    /\ vec[w] = "all" \/ (mode # "up" /\ Interrupted(w))

(* Every write is whole, absent, or on the way to be cleaned up. *)
Stripped(w) == Interrupted(w) /\ vec[w] = "none" /\ w \notin parents
Settled(w) == Whole(w) \/ Absent(w)
Cleaning(w) ==
  /\ pc[w] \in Undoing => Due(w) \/ config.compact_threshold > 0
  /\ pc[w] \in {"clean_blocks", "clean_document"} => vec[w] = "none"
  /\ pc[w] = "clean_document" => blocks[w] = "none"
  /\ pc[w] = "compact" => config.compact_threshold > 0
Resting(w) ==
  /\ mode = "up" /\ pc[w] \in {"fail", "done"} =>
       Settled(w) \/ (Due(w) /\ (config.compact_threshold > 0 => ~Logged("R", w)))
  /\ mode \in Loading => Settled(w) \/ Stripped(w) \/ (Due(w) /\ id[w] \in todo)
  /\ mode = "drop_vectors" => Settled(w) \/ Stripped(w)
  /\ mode = "reset_docs" => IF Interrupted(w) THEN Stripped(w) ELSE Settled(w)
  /\ cur # None /\ cur.w = w => Settled(w) \/ Stripped(w)
UndoInv == ~CleanupLost => \A w \in Writes : Cleaning(w) /\ Resting(w)

Sts == {"P", "C", "R"}

(* A write is named in the log by its records. *)
LEMMA Named ==
  ASSUME TypeOK, LogInv, NEW r \in wal
  PROVE  /\ r.w \in Writes /\ r.st \in Sts /\ r = Record(r.st, r.w)
         /\ r.id = id[r.w] /\ Logged(r.st, r.w)
  <1>1. r \in Records /\ r.id = id[r.w]
    BY Zenon DEF TypeOK, TablesOK, LogInv
  <1>2. r = Record(r.st, r.w) /\ r.w \in Writes /\ r.st \in Sts
    BY <1>1 DEF Records, Record, Sts
  <1> QED BY Zenon, <1>1, <1>2 DEF Logged

(* A write that has not appended yet has no record. *)
LEMMA NotLogged ==
  ASSUME TypeOK, LogInv, NEW w \in Writes, pc[w] \in Early
  PROVE  \A st \in Sts : ~Logged(st, w)
  <1> SUFFICES ASSUME NEW st \in Sts, Record(st, w) \in wal PROVE FALSE
    BY Zenon DEF Logged
  <1>1. Record(st, w).w = w
    BY DEF Record
  <1> QED BY Zenon, <1>1 DEF LogInv

(* The log in the next state, write by write. *)
LEMMA LogKept ==
  ASSUME UNCHANGED <<wal, id>>
  PROVE  \A st \in Sts, w \in Writes : Logged(st, w)' <=> Logged(st, w)
  BY Zenon DEF Logged, Record

(* An append adds one record. *)
LEMMA LogAdds ==
  ASSUME NEW t, NEW v, wal' = wal \cup {Record(t, v)}, UNCHANGED id
  PROVE  \A st \in Sts, w \in Writes : Logged(st, w)' <=> Logged(st, w) \/ (st = t /\ w = v)
  BY DEF Logged, Record

(* A compaction keeps the PENDING records of open transactions only. *)
LEMMA LogCompacts ==
  ASSUME TypeOK, IdInv, LogInv, wal' = Live(wal), UNCHANGED id
  PROVE  \A w \in Writes :
            /\ Logged("P", w)' <=> Logged("P", w) /\ ~Logged("C", w) /\ ~Logged("R", w)
            /\ ~Logged("C", w)' /\ ~Logged("R", w)'
  <1> SUFFICES ASSUME NEW w \in Writes
               PROVE  /\ Logged("P", w)' <=> Logged("P", w) /\ ~Logged("C", w) /\ ~Logged("R", w)
                      /\ ~Logged("C", w)' /\ ~Logged("R", w)'
    BY Zenon
  <1>1. \A st \in Sts : /\ Record(st, w).st = st /\ Record(st, w).id = id[w] /\ Record(st, w).w = w
                        /\ Logged(st, w)' <=> Record(st, w) \in Live(wal)
    BY DEF Record, Logged, Sts
  <1>2. ~Logged("C", w)' /\ ~Logged("R", w)'
    BY Zenon, <1>1 DEF Live, Sts
  <1>3. Logged("P", w)' <=> Logged("P", w) /\ id[w] \notin Terminated(wal)
    BY Zenon, <1>1 DEF Live, Sts, Logged
  <1>4. ASSUME Logged("P", w) PROVE id[w] \in Terminated(wal) <=> Logged("C", w) \/ Logged("R", w)
    <2>1. ASSUME NEW q \in wal, q.st # "P", q.id = id[w] PROVE Logged("C", w) \/ Logged("R", w)
      <3>1. q.w = w
        BY Zenon, <1>1, <1>4, <2>1 DEF IdInv, Logged, Sts
      <3>2. q.st \in {"C", "R"} /\ Logged(q.st, q.w)
        BY Zenon, <2>1, Named DEF Sts
      <3> QED BY Zenon, <3>1, <3>2
    <2>2. ASSUME NEW st \in {"C", "R"}, Logged(st, w) PROVE id[w] \in Terminated(wal)
      <3>1. Record(st, w).st # "P" /\ Record(st, w).id = id[w] /\ Record(st, w) \in wal
        BY Zenon, <1>1, <2>2 DEF Logged, Sts
      <3> QED BY Zenon, <3>1 DEF Terminated
    <2> QED BY Zenon, <2>1, <2>2 DEF Terminated
  <1> QED BY Zenon, <1>2, <1>3, <1>4
-----------------------------------------------------------------------------
(* A step of one write leaves the other writes alone. *)
LEMMA Others ==
  ASSUME TypeOK, NEW w \in Writes, Start(w) \/ Step(w)
  PROVE  /\ mode = "up" /\ UNCHANGED <<mode, todo, cur>>
         /\ \A v \in Writes : v # w =>
               /\ pc'[v] = pc[v] /\ id'[v] = id[v] /\ tries'[v] = tries[v]
               /\ vec'[v] = vec[v] /\ blocks'[v] = blocks[v] /\ (v \in parents' => v \in parents)
  <1> USE DEF TypeOK, ThreadsOK, StoresOK, At, Go, threads, rows, stores, load
  <1>1. CASE Start(w)
    BY Zenon, <1>1 DEF Start
  <1>2. CASE BeginWrite(w)
    BY Zenon, <1>2 DEF BeginWrite
  <1>3. CASE BeginRejected(w)
    BY Zenon, <1>3 DEF BeginRejected
  <1>4. CASE AppendPending(w)
    BY Zenon, <1>4 DEF AppendPending, AppendOk
  <1>5. CASE AppendPendingFails(w)
    BY Zenon, <1>5 DEF AppendPendingFails, AppendFails, Fault
  <1>6. CASE WriteFts(w)
    BY Zenon, <1>6 DEF WriteFts
  <1>7. CASE WriteFtsFails(w)
    BY Zenon, <1>7 DEF WriteFtsFails
  <1>8. CASE AddPoints(w)
    BY Zenon, <1>8 DEF AddPoints, AfterVectors
  <1>9. CASE InsertParents(w)
    BY Zenon, <1>9 DEF InsertParents
  <1>10. CASE InsertBlock(w)
    BY Zenon, <1>10 DEF InsertBlock
  <1>11. CASE StoreFails(w)
    BY Zenon, <1>11 DEF StoreFails
  <1>12. CASE MarkCommitted(w)
    BY Zenon, <1>12 DEF MarkCommitted
  <1>13. CASE AppendCommitted(w)
    BY Zenon, <1>13 DEF AppendCommitted, AppendOk
  <1>14. CASE AppendCommittedFails(w)
    BY Zenon, <1>14 DEF AppendCommittedFails, AppendFails, Fault
  <1>15. CASE ReleaseCommitted(w)
    BY Zenon, <1>15 DEF ReleaseCommitted, AfterCommit
  <1>16. CASE CompactInline(w)
    BY Zenon, <1>16 DEF CompactInline, AfterCommit
  <1>17. CASE CompactFails(w)
    BY Zenon, <1>17 DEF CompactFails, AfterCommit
  <1>18. CASE Publish(w)
    BY Zenon, <1>18 DEF Publish
  <1>19. CASE PublishFails(w)
    BY Zenon, <1>19 DEF PublishFails
  <1>20. CASE MarkRolledBack(w)
    BY Zenon, <1>20 DEF MarkRolledBack
  <1>21. CASE AppendRollback(w)
    BY Zenon, <1>21 DEF AppendRollback, AppendOk
  <1>22. CASE AppendRollbackFails(w)
    BY Zenon, <1>22 DEF AppendRollbackFails, AppendFails, Fault
  <1>23. CASE ReleaseRolledBack(w)
    BY Zenon, <1>23 DEF ReleaseRolledBack
  <1>24. CASE CleanVectors(w)
    BY Zenon, <1>24 DEF CleanVectors, DeleteVectors
  <1>25. CASE CleanBlocks(w)
    BY Zenon, <1>25 DEF CleanBlocks
  <1>26. CASE CleanDocument(w)
    BY Zenon, <1>26 DEF CleanDocument
  <1>27. CASE Fail(w)
    BY Zenon, <1>27 DEF Fail
  <1> HIDE DEF TypeOK, ThreadsOK, StoresOK, At, Go, threads, rows, stores, load
  <1> QED BY Zenon, <1>1, <1>2, <1>3, <1>4, <1>5, <1>6, <1>7, <1>8, <1>9, <1>10, <1>11, <1>12, <1>13, <1>14,
     <1>15, <1>16, <1>17, <1>18, <1>19, <1>20, <1>21, <1>22, <1>23, <1>24, <1>25, <1>26,
     <1>27 DEF Step

(* A write draws its id once, and never goes back. *)
LEMMA Onward ==
  ASSUME TypeOK, NEW w \in Writes, Start(w) \/ Step(w), pc[w] \notin Early
  PROVE  pc'[w] \notin Early /\ id'[w] = id[w]
  <1> USE DEF TypeOK, ThreadsOK, At, Go, threads, Early
  <1>1. CASE Start(w)
    BY Zenon, <1>1 DEF Start
  <1>2. CASE BeginWrite(w)
    BY Zenon, <1>2 DEF BeginWrite
  <1>3. CASE BeginRejected(w)
    BY Zenon, <1>3 DEF BeginRejected
  <1>4. CASE AppendPending(w)
    BY Zenon, <1>4 DEF AppendPending, AppendOk
  <1>5. CASE AppendPendingFails(w)
    BY Zenon, <1>5 DEF AppendPendingFails, AppendFails, Fault
  <1>6. CASE WriteFts(w)
    BY Zenon, <1>6 DEF WriteFts
  <1>7. CASE WriteFtsFails(w)
    BY Zenon, <1>7 DEF WriteFtsFails
  <1>8. CASE AddPoints(w)
    BY Zenon, <1>8 DEF AddPoints, AfterVectors
  <1>9. CASE InsertParents(w)
    BY Zenon, <1>9 DEF InsertParents
  <1>10. CASE InsertBlock(w)
    BY Zenon, <1>10 DEF InsertBlock
  <1>11. CASE StoreFails(w)
    BY Zenon, <1>11 DEF StoreFails
  <1>12. CASE MarkCommitted(w)
    BY Zenon, <1>12 DEF MarkCommitted
  <1>13. CASE AppendCommitted(w)
    BY Zenon, <1>13 DEF AppendCommitted, AppendOk
  <1>14. CASE AppendCommittedFails(w)
    BY Zenon, <1>14 DEF AppendCommittedFails, AppendFails, Fault
  <1>15. CASE ReleaseCommitted(w)
    BY Zenon, <1>15 DEF ReleaseCommitted, AfterCommit
  <1>16. CASE CompactInline(w)
    BY Zenon, <1>16 DEF CompactInline, AfterCommit
  <1>17. CASE CompactFails(w)
    BY Zenon, <1>17 DEF CompactFails, AfterCommit
  <1>18. CASE Publish(w)
    BY Zenon, <1>18 DEF Publish
  <1>19. CASE PublishFails(w)
    BY Zenon, <1>19 DEF PublishFails
  <1>20. CASE MarkRolledBack(w)
    BY Zenon, <1>20 DEF MarkRolledBack
  <1>21. CASE AppendRollback(w)
    BY Zenon, <1>21 DEF AppendRollback, AppendOk
  <1>22. CASE AppendRollbackFails(w)
    BY Zenon, <1>22 DEF AppendRollbackFails, AppendFails, Fault
  <1>23. CASE ReleaseRolledBack(w)
    BY Zenon, <1>23 DEF ReleaseRolledBack
  <1>24. CASE CleanVectors(w)
    BY Zenon, <1>24 DEF CleanVectors, DeleteVectors
  <1>25. CASE CleanBlocks(w)
    BY Zenon, <1>25 DEF CleanBlocks
  <1>26. CASE CleanDocument(w)
    BY Zenon, <1>26 DEF CleanDocument
  <1>27. CASE Fail(w)
    BY Zenon, <1>27 DEF Fail
  <1> HIDE DEF TypeOK, ThreadsOK, At, Go, threads, Early
  <1> QED BY Zenon, <1>1, <1>2, <1>3, <1>4, <1>5, <1>6, <1>7, <1>8, <1>9, <1>10, <1>11, <1>12, <1>13, <1>14,
     <1>15, <1>16, <1>17, <1>18, <1>19, <1>20, <1>21, <1>22, <1>23, <1>24, <1>25, <1>26,
     <1>27 DEF Step

(* How a step of a write changes the log. *)
Quietly(w) == UNCHANGED <<wal, id>>
Drawing(w) == pc[w] = "begin" /\ pc'[w] = "pending" /\ UNCHANGED wal
Adding(w, st) ==
  /\ wal' = wal \cup {Record(st, w)} /\ UNCHANGED id
  /\ \/ st = "P" /\ pc[w] = "pending" /\ pc'[w] \in {"fts", "vec", "fail"}
     \/ st = "C" /\ pc[w] = "committed" /\ pc'[w] \in {"committed", "release", "fail"}
     \/ st = "R" /\ pc[w] = "rolledback" /\ pc'[w] \in {"unhold", "fail"}
Compacting(w) == /\ pc[w] = "compact" /\ pc'[w] \in {"publish", "done"}
                 /\ wal' = Live(wal) /\ UNCHANGED id

(* Every step of a write is one of these. *)
LEMMA LogStep ==
  ASSUME TypeOK, NEW w \in Writes, Start(w) \/ Step(w)
  PROVE  Quietly(w) \/ Drawing(w) \/ (\E st \in Sts : Adding(w, st)) \/ Compacting(w)
  <1>t. pc \in [Writes -> Places]
    BY ONLY Zenon, TypeOK DEF TypeOK, ThreadsOK
  <1> USE DEF At, Go, threads, memory
  <1>1. CASE Start(w)
    BY Zenon, <1>1 DEF Start, Quietly
  <1>2. CASE BeginWrite(w)
    BY Zenon, <1>2, <1>t DEF BeginWrite, Drawing
  <1>3. CASE BeginRejected(w)
    BY Zenon, <1>3 DEF BeginRejected, Quietly
  <1>4. CASE AppendPending(w)
    <2>1. Adding(w, "P")
      BY Zenon, <1>4, <1>t DEF AppendPending, AppendOk, Ingest, Adding, Quietly
    <2> QED BY Zenon, <2>1 DEF Sts
  <1>5. CASE AppendPendingFails(w)
    <2>1. Adding(w, "P") \/ Quietly(w)
      BY Zenon, <1>5, <1>t DEF AppendPendingFails, AppendFails, Fault, Adding, Quietly
    <2> QED BY Zenon, <2>1 DEF Sts
  <1>6. CASE WriteFts(w)
    BY Zenon, <1>6 DEF WriteFts, Quietly
  <1>7. CASE WriteFtsFails(w)
    BY Zenon, <1>7 DEF WriteFtsFails, Quietly
  <1>8. CASE AddPoints(w)
    BY Zenon, <1>8 DEF AddPoints, AfterVectors, Quietly
  <1>9. CASE InsertParents(w)
    BY Zenon, <1>9 DEF InsertParents, Quietly
  <1>10. CASE InsertBlock(w)
    BY Zenon, <1>10 DEF InsertBlock, Quietly
  <1>11. CASE StoreFails(w)
    BY Zenon, <1>11 DEF StoreFails, Quietly
  <1>12. CASE MarkCommitted(w)
    BY Zenon, <1>12 DEF MarkCommitted, Quietly
  <1>13. CASE AppendCommitted(w)
    <2>1. Adding(w, "C")
      BY Zenon, <1>13, <1>t DEF AppendCommitted, AppendOk, Adding, Quietly
    <2> QED BY Zenon, <2>1 DEF Sts
  <1>14. CASE AppendCommittedFails(w)
    <2>1. Adding(w, "C") \/ Quietly(w)
      BY Zenon, <1>14, <1>t DEF AppendCommittedFails, AppendFails, Fault, Adding, Quietly
    <2> QED BY Zenon, <2>1 DEF Sts
  <1>15. CASE ReleaseCommitted(w)
    BY Zenon, <1>15 DEF ReleaseCommitted, AfterCommit, Quietly
  <1>16. CASE CompactInline(w)
    BY Zenon, <1>16, <1>t DEF CompactInline, AfterCommit, Compacting
  <1>17. CASE CompactFails(w)
    BY Zenon, <1>17 DEF CompactFails, AfterCommit, Quietly
  <1>18. CASE Publish(w)
    BY Zenon, <1>18 DEF Publish, Quietly
  <1>19. CASE PublishFails(w)
    BY Zenon, <1>19 DEF PublishFails, Quietly
  <1>20. CASE MarkRolledBack(w)
    BY Zenon, <1>20 DEF MarkRolledBack, Quietly
  <1>21. CASE AppendRollback(w)
    <2>1. Adding(w, "R")
      BY Zenon, <1>21, <1>t DEF AppendRollback, AppendOk, Adding, Quietly
    <2> QED BY Zenon, <2>1 DEF Sts
  <1>22. CASE AppendRollbackFails(w)
    <2>1. Adding(w, "R") \/ Quietly(w)
      BY Zenon, <1>22, <1>t DEF AppendRollbackFails, AppendFails, Fault, Adding, Quietly
    <2> QED BY Zenon, <2>1 DEF Sts
  <1>23. CASE ReleaseRolledBack(w)
    BY Zenon, <1>23 DEF ReleaseRolledBack, Quietly
  <1>24. CASE CleanVectors(w)
    BY Zenon, <1>24 DEF CleanVectors, DeleteVectors, Quietly
  <1>25. CASE CleanBlocks(w)
    BY Zenon, <1>25 DEF CleanBlocks, Quietly
  <1>26. CASE CleanDocument(w)
    BY Zenon, <1>26 DEF CleanDocument, Quietly
  <1>27. CASE Fail(w)
    BY Zenon, <1>27 DEF Fail, Quietly
  <1> HIDE DEF At, Go, threads, memory
  <1> QED BY Zenon, <1>1, <1>2, <1>3, <1>4, <1>5, <1>6, <1>7, <1>8, <1>9, <1>10, <1>11, <1>12, <1>13, <1>14,
     <1>15, <1>16, <1>17, <1>18, <1>19, <1>20, <1>21, <1>22, <1>23, <1>24, <1>25, <1>26,
     <1>27 DEF Step

(* The records of the other writes, and of this one. *)
LEMMA LogOthers ==
  ASSUME TypeOK, IdInv, LogInv, NEW w \in Writes, Start(w) \/ Step(w), NEW v \in Writes, v # w
  PROVE  \/ \A st \in Sts : Logged(st, v)' <=> Logged(st, v)
         \/ /\ Compacting(w)
            /\ Logged("P", v)' <=> Logged("P", v) /\ ~Logged("C", v) /\ ~Logged("R", v)
            /\ ~Logged("C", v)' /\ ~Logged("R", v)'
  <1>1. CASE Quietly(w)
    BY Zenon, <1>1, LogKept DEF Quietly
  <1>2. CASE Drawing(w)
    <2>1. id'[v] = id[v] /\ UNCHANGED wal
      BY Zenon, <1>2, Others DEF Drawing
    <2> QED BY Zenon, <2>1 DEF Logged, Record
  <1>3. ASSUME NEW t \in Sts, Adding(w, t) PROVE \A st \in Sts : Logged(st, v)' <=> Logged(st, v)
    BY Zenon, <1>3, LogAdds DEF Adding
  <1>4. CASE Compacting(w)
    BY Zenon, <1>4, LogCompacts DEF Compacting
  <1> QED BY Zenon, <1>1, <1>2, <1>3, <1>4, LogStep

(* The records of the write that steps. *)
LEMMA LogOwn ==
  ASSUME TypeOK, IdInv, LogInv, NEW w \in Writes, Start(w) \/ Step(w)
  PROVE  \/ \A st \in Sts : Logged(st, w)' <=> Logged(st, w)
         \/ \E t \in Sts : Adding(w, t) /\ \A st \in Sts : Logged(st, w)' <=> Logged(st, w) \/ st = t
         \/ /\ Compacting(w)
            /\ Logged("P", w)' <=> Logged("P", w) /\ ~Logged("C", w) /\ ~Logged("R", w)
            /\ ~Logged("C", w)' /\ ~Logged("R", w)'
  <1>1. CASE Quietly(w)
    BY Zenon, <1>1, LogKept DEF Quietly
  <1>2. CASE Drawing(w)
    <2>1. \A st \in Sts : ~Logged(st, w)
      BY Zenon, <1>2, NotLogged DEF Drawing, Early
    <2>2. \A r \in wal : r.w # w
      BY Zenon, <1>2 DEF LogInv, Drawing, Early
    <2>3. ASSUME NEW st \in Sts PROVE ~Logged(st, w)'
      <3>1. Record(st, w)'.w = w
        BY DEF Record
      <3> QED BY Zenon, <1>2, <2>2, <3>1 DEF Logged, Drawing
    <2> QED BY Zenon, <2>1, <2>3
  <1>3. ASSUME NEW t \in Sts, Adding(w, t)
        PROVE  \A st \in Sts : Logged(st, w)' <=> Logged(st, w) \/ st = t
    BY Zenon, <1>3, LogAdds DEF Adding
  <1>4. CASE Compacting(w)
    BY Zenon, <1>4, LogCompacts DEF Compacting
  <1> QED BY Zenon, <1>1, <1>2, <1>3, <1>4, LogStep

(* Only AppendPending enters the writing steps, only MarkCommitted the     *)
(* commit's.                                                               *)
LEMMA EntersWriting ==
  ASSUME TypeOK, NEW w \in Writes, Start(w) \/ Step(w)
  PROVE  /\ pc'[w] \in Writing => pc[w] \in Writing \/ AppendPending(w)
         /\ pc'[w] = "committed" => pc[w] \in {"commit", "committed"}
  <1>t. pc \in [Writes -> Places]
    BY ONLY Zenon, TypeOK DEF TypeOK, ThreadsOK
  <1> USE <1>t DEF At, Go, Writing
  <1>1. CASE Start(w)
    BY Zenon, <1>1 DEF Start
  <1>2. CASE BeginWrite(w)
    BY Zenon, <1>2 DEF BeginWrite
  <1>3. CASE BeginRejected(w)
    BY Zenon, <1>3 DEF BeginRejected
  <1>4. CASE AppendPending(w)
    BY Zenon, <1>4 DEF AppendPending, AppendOk, Ingest
  <1>5. CASE AppendPendingFails(w)
    BY Zenon, <1>5 DEF AppendPendingFails, AppendFails, Fault
  <1>6. CASE WriteFts(w)
    BY Zenon, <1>6 DEF WriteFts
  <1>7. CASE WriteFtsFails(w)
    BY Zenon, <1>7 DEF WriteFtsFails
  <1>8. CASE AddPoints(w)
    BY Zenon, <1>8 DEF AddPoints, AfterVectors
  <1>9. CASE InsertParents(w)
    BY Zenon, <1>9 DEF InsertParents
  <1>10. CASE InsertBlock(w)
    BY Zenon, <1>10 DEF InsertBlock
  <1>11. CASE StoreFails(w)
    BY Zenon, <1>11 DEF StoreFails
  <1>12. CASE MarkCommitted(w)
    BY Zenon, <1>12 DEF MarkCommitted
  <1>13. CASE AppendCommitted(w)
    BY Zenon, <1>13 DEF AppendCommitted, AppendOk
  <1>14. CASE AppendCommittedFails(w)
    BY Zenon, <1>14 DEF AppendCommittedFails, AppendFails, Fault
  <1>15. CASE ReleaseCommitted(w)
    BY Zenon, <1>15 DEF ReleaseCommitted, AfterCommit
  <1>16. CASE CompactInline(w)
    BY Zenon, <1>16 DEF CompactInline, AfterCommit
  <1>17. CASE CompactFails(w)
    BY Zenon, <1>17 DEF CompactFails, AfterCommit
  <1>18. CASE Publish(w)
    BY Zenon, <1>18 DEF Publish
  <1>19. CASE PublishFails(w)
    BY Zenon, <1>19 DEF PublishFails
  <1>20. CASE MarkRolledBack(w)
    BY Zenon, <1>20 DEF MarkRolledBack
  <1>21. CASE AppendRollback(w)
    BY Zenon, <1>21 DEF AppendRollback, AppendOk
  <1>22. CASE AppendRollbackFails(w)
    BY Zenon, <1>22 DEF AppendRollbackFails, AppendFails, Fault
  <1>23. CASE ReleaseRolledBack(w)
    BY Zenon, <1>23 DEF ReleaseRolledBack
  <1>24. CASE CleanVectors(w)
    BY Zenon, <1>24 DEF CleanVectors, DeleteVectors
  <1>25. CASE CleanBlocks(w)
    BY Zenon, <1>25 DEF CleanBlocks
  <1>26. CASE CleanDocument(w)
    BY Zenon, <1>26 DEF CleanDocument
  <1>27. CASE Fail(w)
    BY Zenon, <1>27 DEF Fail
  <1> HIDE DEF At, Go, Writing
  <1> QED BY Zenon, <1>1, <1>2, <1>3, <1>4, <1>5, <1>6, <1>7, <1>8, <1>9, <1>10, <1>11, <1>12, <1>13, <1>14,
     <1>15, <1>16, <1>17, <1>18, <1>19, <1>20, <1>21, <1>22, <1>23, <1>24, <1>25, <1>26,
     <1>27 DEF Step

(* LogInv is kept by every step of a write. *)
LEMMA LogThread ==
  ASSUME TypeOK, IdInv, LogInv, NEW w \in Writes, Start(w) \/ Step(w)
  PROVE  LogInv'
  <1>1. /\ mode = "up" /\ UNCHANGED <<mode, todo, cur>>
        /\ \A v \in Writes : v # w => pc'[v] = pc[v] /\ id'[v] = id[v]
    BY Zenon, Others
  <1>2. cur = None
    BY Zenon, <1>1 DEF IdInv
  <1>3. ASSUME NEW r \in wal' PROVE r.id = id'[r.w] /\ pc'[r.w] \notin Early
    <2>1. CASE r \in wal
      <3>1. r.w \in Writes /\ r.id = id[r.w] /\ pc[r.w] \notin Early
        BY Zenon, <2>1, Named DEF LogInv
      <3>2. CASE r.w = w
        BY Zenon, <3>1, <3>2, Onward
      <3>3. CASE r.w # w
        BY Zenon, <3>1, <3>3, <1>1
      <3> QED BY Zenon, <3>2, <3>3
    <2>2. CASE r \notin wal
      <3>1. PICK st \in Sts : Adding(w, st)
        BY Zenon, <2>2, <1>3, LogStep DEF Quietly, Drawing, Compacting, Live
      <3>2. r = Record(st, w) /\ id' = id /\ pc'[w] \notin Early
        BY Zenon, <2>2, <1>3, <3>1 DEF Adding, Early
      <3>3. r.id = id[w] /\ r.w = w
        BY <3>2 DEF Record
      <3> QED BY Zenon, <3>2, <3>3
    <2> QED BY Zenon, <2>1, <2>2
  <1>4. ASSUME NEW v \in Writes, pc'[v] \in Writing PROVE Due(v)' /\ ~Logged("R", v)'
    <2>1. CASE v # w
      <3>1. Logged("P", v) /\ ~Logged("C", v) /\ ~Logged("R", v)
        BY Zenon, <1>1, <1>4, <2>1 DEF LogInv, Due
      <3> QED BY Zenon, <2>1, <3>1, LogOthers DEF Due, Sts
    <2>2. CASE v = w
      <3>1. CASE AppendPending(w)
        <4>1. pc[w] \in Early /\ wal' = wal \cup {Record("P", w)} /\ UNCHANGED id
          BY Zenon, <3>1 DEF AppendPending, AppendOk, At, Early
        <4>2. \A st \in Sts : ~Logged(st, w)
          BY Zenon, <4>1, NotLogged
        <4>3. \A st \in Sts : Logged(st, w)' <=> Logged(st, w) \/ st = "P"
          BY Zenon, <4>1, LogAdds
        <4> QED BY Zenon, <2>2, <4>2, <4>3 DEF Due, Sts
      <3>2. CASE pc[w] \in Writing
        <4>1. Logged("P", w) /\ ~Logged("C", w) /\ ~Logged("R", w)
          BY Zenon, <3>2 DEF LogInv, Due
        <4>2. \A st \in Sts : ~Adding(w, st)
          BY Zenon, <1>4, <2>2, <3>2 DEF Adding, Writing
        <4> QED BY Zenon, <2>2, <4>1, <4>2, LogOwn DEF Due, Sts
      <3> QED BY Zenon, <1>4, <2>2, <3>1, <3>2, EntersWriting
    <2> QED BY Zenon, <2>1, <2>2
  <1>5. ASSUME NEW v \in Writes, pc'[v] = "committed" PROVE ~Logged("R", v)'
    <2>1. CASE v # w
      <3>1. ~Logged("R", v)
        BY Zenon, <1>1, <1>5, <2>1 DEF LogInv
      <3> QED BY Zenon, <2>1, <3>1, LogOthers DEF Sts
    <2>2. CASE v = w
      <3>1. ~Logged("R", w) /\ pc[w] # "rolledback"
        BY Zenon, <1>5, <2>2, EntersWriting DEF LogInv, Writing
      <3>2. ~Adding(w, "R")
        BY Zenon, <3>1 DEF Adding
      <3> QED BY Zenon, <2>2, <3>1, <3>2, LogOwn DEF Sts
    <2> QED BY Zenon, <2>1, <2>2
  <1> QED BY Zenon, <1>1, <1>2, <1>3, <1>4, <1>5 DEF LogInv
-----------------------------------------------------------------------------
(* A load runs with no thread beside it, and changes the log only to       *)
(* finalize a transaction or to compact.                                   *)
LEMMA Loads ==
  ASSUME TypeOK, Load
  PROVE  /\ mode # "up" /\ UNCHANGED <<pc, id, tries>>
         /\ \/ UNCHANGED wal
            \/ cur # None /\ cur' = None /\ wal' = wal \cup {cur}
            \/ RecoverFinish /\ wal' = Live(wal)
         /\ cur' \in {None, cur} \/ \E r \in wal, st \in {"C", "R"} :
               cur' = [st |-> st, id |-> r.id, w |-> r.w]
  <1> USE DEF threads, memory
  <1>1. CASE RecoverRefuses
    BY Zenon, <1>1 DEF RecoverRefuses
  <1>2. ASSUME NEW i \in todo, RecoverCommitted(i) \/ RecoverRolledBack(i)
        PROVE  mode # "up" /\ UNCHANGED <<pc, id, tries, wal, cur>>
    BY Zenon, <1>2 DEF RecoverCommitted, RecoverRolledBack, Resolving
  <1>3. ASSUME NEW i \in todo, RecoverInferCommitted(i) \/ RecoverMidWrite(i)
        PROVE  /\ mode # "up" /\ UNCHANGED <<pc, id, tries, wal>>
               /\ \E r \in wal, st \in {"C", "R"} : cur' = [st |-> st, id |-> r.id, w |-> r.w]
    BY Zenon, <1>3 DEF RecoverInferCommitted, RecoverMidWrite, Resolving, PendingOf
  <1>4. CASE RecoverFinalize
    BY Zenon, <1>4 DEF RecoverFinalize, AppendOk, AppendFails
  <1>5. CASE RecoverFinish
    BY Zenon, <1>5 DEF RecoverFinish
  <1>6. CASE RecoverCompactFails
    BY Zenon, <1>6 DEF RecoverCompactFails
  <1>7. CASE DropCrashedDocVectors
    BY Zenon, <1>7 DEF DropCrashedDocVectors
  <1>8. CASE RecoverCrashedDocs
    BY Zenon, <1>8 DEF RecoverCrashedDocs
  <1> QED BY Zenon, <1>1, <1>2, <1>3, <1>4, <1>5, <1>6, <1>7, <1>8 DEF Load

(* Log records in the next state, through a load. *)
LEMMA LogLoads ==
  ASSUME TypeOK, IdInv, LogInv, Load
  PROVE  \A v \in Writes :
           \/ \A st \in Sts : Logged(st, v)' <=> Logged(st, v)
           \/ /\ cur # None /\ cur' = None /\ cur.w = v
              /\ \A st \in Sts : Logged(st, v)' <=> Logged(st, v) \/ st = cur.st
           \/ /\ RecoverFinish
              /\ Logged("P", v)' <=> Logged("P", v) /\ ~Logged("C", v) /\ ~Logged("R", v)
              /\ ~Logged("C", v)' /\ ~Logged("R", v)'
  <1>1. CASE UNCHANGED wal
    BY Zenon, <1>1, Loads, LogKept
  <1>2. CASE cur # None /\ cur' = None /\ wal' = wal \cup {cur}
    <2>1. cur \in Records /\ cur.id = id[cur.w]
      BY Zenon, <1>2 DEF TypeOK, LoadOK, LogInv
    <2>2. cur = Record(cur.st, cur.w)
      BY <2>1 DEF Records, Record
    <2>3. \A st \in Sts, w \in Writes : Logged(st, w)' <=> Logged(st, w) \/ (st = cur.st /\ w = cur.w)
      BY Zenon, <1>2, <2>2, Loads, LogAdds
    <2> QED BY Zenon, <1>2, <2>3
  <1>3. CASE RecoverFinish /\ wal' = Live(wal)
    BY Zenon, <1>3, Loads, LogCompacts
  <1> QED BY Zenon, <1>1, <1>2, <1>3, Loads

(* LogInv is kept by a load, which has no thread beside it. *)
LEMMA LogLoad ==
  ASSUME TypeOK, LogInv, Load
  PROVE  LogInv'
  <1>1. mode # "up" /\ UNCHANGED <<pc, id, tries>> /\ \A w \in Writes : pc[w] \in {"idle", "done"}
    BY Zenon, Loads DEF LogInv
  <1>2. \A r \in wal : r.id = id[r.w] /\ pc[r.w] \notin Early
    BY Zenon DEF LogInv
  <1>3. cur # None => cur.st # "P" /\ cur.id = id[cur.w] /\ pc[cur.w] \notin Early
    BY Zenon DEF LogInv
  <1>4. \A r \in wal' : r \in wal \/ (cur # None /\ r = cur)
    BY Zenon, Loads DEF Live
  <1>5. cur' # None => cur'.st # "P" /\ cur'.id = id'[cur'.w] /\ pc'[cur'.w] \notin Early
    <2>1. CASE cur' \in {None, cur}
      BY Zenon, <2>1, <1>1, <1>3
    <2>2. ASSUME NEW r \in wal, NEW st \in {"C", "R"}, cur' = [st |-> st, id |-> r.id, w |-> r.w]
          PROVE  cur'.st # "P" /\ cur'.id = id'[cur'.w] /\ pc'[cur'.w] \notin Early
      <3>1. cur'.st # "P" /\ cur'.id = r.id /\ cur'.w = r.w
        BY <2>2
      <3> QED BY Zenon, <3>1, <1>1, <1>2
    <2> QED BY Zenon, <2>1, <2>2, Loads
  <1>6. \A w \in Writes : pc'[w] \notin Writing /\ pc'[w] # "committed"
    BY Zenon, <1>1 DEF Writing
  <1> QED BY Zenon, <1>1, <1>2, <1>3, <1>4, <1>5, <1>6 DEF LogInv

(* LogInv is kept by a crash. *)
LEMMA LogCrash ==
  ASSUME TypeOK, LogInv, Crash
  PROVE  LogInv'
  <1>1. /\ UNCHANGED <<wal, id>> /\ mode' = "recover" /\ cur' = None
        /\ \A w \in Writes : pc'[w] \in {"idle", "done"} /\ (pc[w] # "idle" => pc'[w] = "done")
    BY Zenon DEF Crash
  <1>2. \A r \in wal : r.w \in Writes /\ r.id = id[r.w] /\ pc[r.w] \notin Early
    BY Zenon, Named DEF LogInv
  <1>3. \A r \in wal' : r.id = id'[r.w] /\ pc'[r.w] \notin Early
    BY Zenon, <1>1, <1>2 DEF Early
  <1>4. \A w \in Writes : pc'[w] \notin Writing /\ pc'[w] # "committed"
    BY Zenon, <1>1 DEF Writing
  <1> QED BY Zenon, <1>1, <1>3, <1>4 DEF LogInv
-----------------------------------------------------------------------------
(* A load only takes away from the stores. *)
LEMMA Takes ==
  ASSUME TypeOK, Load
  PROVE  /\ parents' \subseteq parents
         /\ \A v \in Writes : /\ vec[v] = "none" => vec'[v] = "none"
                              /\ blocks[v] = "none" => blocks'[v] = "none"
  <1>t. vec \in [Writes -> Amounts] /\ blocks \in [Writes -> Amounts]
    BY ONLY Zenon, TypeOK DEF TypeOK, StoresOK
  <1> USE <1>t DEF stores, rows
  <1>1. CASE RecoverRefuses \/ RecoverFinalize \/ RecoverFinish \/ RecoverCompactFails
    BY Zenon, <1>1 DEF RecoverRefuses, RecoverFinalize, RecoverFinish, RecoverCompactFails
  <1>2. ASSUME NEW i \in todo, RecoverCommitted(i) \/ RecoverInferCommitted(i)
        PROVE  UNCHANGED <<parents, vec, blocks>>
    BY Zenon, <1>2 DEF RecoverCommitted, RecoverInferCommitted
  <1>3. ASSUME NEW w, Cleanup(w)
        PROVE  /\ parents' \subseteq parents
               /\ \A v \in Writes : /\ vec[v] = "none" => vec'[v] = "none"
                                    /\ blocks[v] = "none" => blocks'[v] = "none"
    BY Zenon, <1>3 DEF Cleanup, DeleteVectors
  <1>4. ASSUME NEW i \in todo, RecoverRolledBack(i) \/ RecoverMidWrite(i)
        PROVE  \E w : Cleanup(w)
    BY Zenon, <1>4 DEF RecoverRolledBack, RecoverMidWrite
  <1>5. CASE DropCrashedDocVectors
    <2>1. ASSUME NEW v \in Writes, vec[v] = "none" PROVE vec'[v] = "none"
      BY <1>5, <2>1 DEF DropCrashedDocVectors, Amounts
    <2> QED BY Zenon, <1>5, <2>1 DEF DropCrashedDocVectors
  <1>6. CASE RecoverCrashedDocs
    BY Zenon, <1>6 DEF RecoverCrashedDocs
  <1> QED BY Zenon, <1>1, <1>2, <1>3, <1>4, <1>5, <1>6 DEF Load

(* A write fills its stores in order: full-text row, vectors, parents,     *)
(* blocks, commit.                                                         *)
LEMMA StageOwn ==
  ASSUME TypeOK, NEW w \in Writes, Start(w) \/ Step(w), Stage(w)
  PROVE  Stage(w)'
  <1>t. /\ pc \in [Writes -> Places] /\ vec \in [Writes -> Amounts] /\ blocks \in [Writes -> Amounts]
        /\ vec[w] \in Amounts /\ blocks[w] \in Amounts
    BY ONLY Zenon, TypeOK DEF TypeOK, ThreadsOK, StoresOK
  <1> USE <1>t DEF At, Go, rows, stores, Stage, Whole, Absent, Early, Committing
  <1>1. CASE Start(w)
    BY Zenon, <1>1 DEF Start
  <1>2. CASE BeginWrite(w)
    BY Zenon, <1>2 DEF BeginWrite
  <1>3. CASE BeginRejected(w)
    BY Zenon, <1>3 DEF BeginRejected
  <1>4. CASE AppendPending(w)
    BY Zenon, <1>4 DEF AppendPending, AppendOk, Ingest
  <1>5. CASE AppendPendingFails(w)
    BY Zenon, <1>5 DEF AppendPendingFails, AppendFails, Fault
  <1>6. CASE WriteFts(w)
    BY Zenon, <1>6 DEF WriteFts
  <1>7. CASE WriteFtsFails(w)
    BY Zenon, <1>7 DEF WriteFtsFails
  <1>8. CASE AddPoints(w)
    <2>1. /\ w \in Vectored => vec'[w] = (IF vec[w] = "none" THEN "some" ELSE "all")
          /\ w \notin Vectored => vec'[w] = vec[w]
          /\ w \in Vectored /\ vec[w] # "some" => pc'[w] = "vec"
          /\ w \in Vectored /\ vec[w] = "some" => pc'[w] = AfterVectors(w)
          /\ w \notin Vectored => pc'[w] = AfterVectors(w)
          /\ UNCHANGED <<blocks, parents>>
      BY Zenon, <1>8 DEF AddPoints, More
    <2>2. blocks[w] = "none" /\ w \notin parents /\ vec[w] \in {"none", "some"} /\ (w \notin Vectored => vec[w] = "none")
      BY Zenon, <1>8 DEF AddPoints, Amounts
    <2>3. CASE w \in Vectored /\ vec[w] = "none"
      BY ONLY Zenon, <2>1, <2>2, <2>3 DEF Stage, Absent, Early, Committing
    <2>4. CASE w \notin Vectored \/ vec[w] = "some"
      <3>1. pc'[w] = AfterVectors(w) /\ (w \in Vectored => vec'[w] = "all") /\ (w \notin Vectored => vec'[w] = "none")
        BY ONLY Zenon, <2>1, <2>2, <2>4
      <3> QED BY ONLY Zenon, <2>1, <2>2, <3>1 DEF Stage, AfterVectors, Absent, Early, Committing
    <2> QED BY ONLY Zenon, <2>2, <2>3, <2>4
  <1>9. CASE InsertParents(w)
    <2>1. /\ pc'[w] = "blocks" /\ Ingest(w) /\ UNCHANGED <<vec, blocks>> /\ blocks[w] = "none"
          /\ w \in Vectored => vec[w] = "all"
          /\ w \notin Vectored => vec[w] = "none"
      BY Zenon, <1>9 DEF InsertParents
    <2> QED BY ONLY Zenon, <2>1 DEF Stage, Early, Committing
  <1>10. CASE InsertBlock(w)
    <2>1. /\ blocks'[w] = (IF blocks[w] = "none" THEN "some" ELSE "all")
          /\ pc'[w] = (IF blocks[w] = "some" THEN "commit" ELSE "blocks")
          /\ UNCHANGED <<vec, parents>>
      BY Zenon, <1>10 DEF InsertBlock, More
    <2>2. /\ blocks[w] \in {"none", "some"} /\ (w \in Vectored => vec[w] = "all")
          /\ w \notin Vectored => vec[w] = "none"
          /\ ~Ingest(w) => w \notin parents
      BY Zenon, <1>10 DEF InsertBlock, Amounts
    <2>3. CASE blocks[w] = "none"
      BY ONLY Zenon, <2>1, <2>2, <2>3 DEF Stage, Early, Committing
    <2>4. CASE blocks[w] = "some"
      BY ONLY Zenon, <2>1, <2>2, <2>4 DEF Stage, Whole, Early, Committing
    <2> QED BY ONLY Zenon, <2>2, <2>3, <2>4
  <1>11. CASE StoreFails(w)
    BY Zenon, <1>11 DEF StoreFails
  <1>12. CASE MarkCommitted(w)
    BY Zenon, <1>12 DEF MarkCommitted
  <1>13. CASE AppendCommitted(w)
    BY Zenon, <1>13 DEF AppendCommitted, AppendOk
  <1>14. CASE AppendCommittedFails(w)
    BY Zenon, <1>14 DEF AppendCommittedFails, AppendFails, Fault
  <1>15. CASE ReleaseCommitted(w)
    BY Zenon, <1>15 DEF ReleaseCommitted, AfterCommit
  <1>16. CASE CompactInline(w)
    BY Zenon, <1>16 DEF CompactInline, AfterCommit
  <1>17. CASE CompactFails(w)
    BY Zenon, <1>17 DEF CompactFails, AfterCommit
  <1>18. CASE Publish(w)
    BY Zenon, <1>18 DEF Publish
  <1>19. CASE PublishFails(w)
    BY Zenon, <1>19 DEF PublishFails
  <1>20. CASE MarkRolledBack(w)
    BY Zenon, <1>20 DEF MarkRolledBack
  <1>21. CASE AppendRollback(w)
    BY Zenon, <1>21 DEF AppendRollback, AppendOk
  <1>22. CASE AppendRollbackFails(w)
    BY Zenon, <1>22 DEF AppendRollbackFails, AppendFails, Fault
  <1>23. CASE ReleaseRolledBack(w)
    BY Zenon, <1>23 DEF ReleaseRolledBack
  <1>24. CASE CleanVectors(w)
    BY Zenon, <1>24 DEF CleanVectors, DeleteVectors
  <1>25. CASE CleanBlocks(w)
    BY Zenon, <1>25 DEF CleanBlocks, Ingest
  <1>26. CASE CleanDocument(w)
    BY Zenon, <1>26 DEF CleanDocument, Siblings
  <1>27. CASE Fail(w)
    BY Zenon, <1>27 DEF Fail
  <1> HIDE DEF At, Go, rows, stores, Stage, Whole, Absent, Early, Committing
  <1> QED BY Zenon, <1>1, <1>2, <1>3, <1>4, <1>5, <1>6, <1>7, <1>8, <1>9, <1>10, <1>11, <1>12, <1>13, <1>14,
     <1>15, <1>16, <1>17, <1>18, <1>19, <1>20, <1>21, <1>22, <1>23, <1>24, <1>25, <1>26,
     <1>27 DEF Step

(* StageInv is kept: the other writes and a load only take away. *)
LEMMA StageStep ==
  ASSUME TypeOK, LogInv, StageInv, Next
  PROVE  StageInv'
  <1>1. ASSUME NEW w \in Writes, Start(w) \/ Step(w) PROVE StageInv'
    <2> SUFFICES ASSUME NEW v \in Writes PROVE Stage(v)'
      BY Zenon DEF StageInv
    <2>1. Stage(v)
      BY Zenon DEF StageInv
    <2>2. CASE v = w
      BY Zenon, <1>1, <2>1, <2>2, StageOwn
    <2>3. CASE v # w
      <3>1. /\ pc'[v] = pc[v] /\ vec'[v] = vec[v] /\ blocks'[v] = blocks[v]
            /\ v \in parents' => v \in parents
        BY Zenon, <1>1, <2>3, Others
      <3> QED BY Zenon, <2>1, <3>1 DEF Stage, Whole, Absent
    <2> QED BY Zenon, <2>2, <2>3
  <1>2. CASE Crash
    <2> SUFFICES ASSUME NEW v \in Writes PROVE Stage(v)'
      BY Zenon DEF StageInv
    <2>1. pc'[v] \in {"idle", "done"} /\ (pc'[v] = "idle" => pc[v] = "idle")
      BY Zenon, <1>2 DEF Crash
    <2>2. UNCHANGED <<vec, blocks, parents>>
      BY Zenon, <1>2 DEF Crash, stores, rows
    <2> QED BY Zenon, <2>1, <2>2 DEF StageInv, Stage, Absent, Early, Committing
  <1>3. CASE Load
    <2> SUFFICES ASSUME NEW v \in Writes PROVE Stage(v)'
      BY Zenon DEF StageInv
    <2>1. pc'[v] = pc[v] /\ pc[v] \in {"idle", "done"}
      BY Zenon, <1>3, Loads DEF LogInv
    <2>2. /\ vec[v] = "none" => vec'[v] = "none"
          /\ blocks[v] = "none" => blocks'[v] = "none"
          /\ v \in parents' => v \in parents
      BY Zenon, <1>3, Takes
    <2> QED BY Zenon, <2>1, <2>2 DEF StageInv, Stage, Absent, Early, Committing
  <1> QED BY Zenon, <1>1, <1>2, <1>3 DEF Next
-----------------------------------------------------------------------------
(* Of the rows of documents, a step of a write touches its own document's, *)
(* and only an ingest does.                                                *)
LEMMA RowsKept ==
  ASSUME TypeOK, NEW w \in Writes, Start(w) \/ Step(w), Stage(w), NEW v \in Writes, v # w,
         ~(Ingest(w) /\ Doc[v] = Doc[w])
  PROVE  /\ status'[Doc[v]] = status[Doc[v]] /\ fts'[Doc[v]] = fts[Doc[v]]
         /\ published'[Doc[v]] = published[Doc[v]]
         /\ v \in parents' <=> v \in parents
  <1>t. /\ status \in [Docs -> {"none", "pending", "processing", "ready", "error"}]
        /\ fts \in [Docs -> Writes \cup {None}] /\ published \in [Docs -> Writes \cup {None}]
        /\ Doc[w] \in Docs /\ Doc[v] \in Docs
        /\ pc[w] \in {"fts", "parents", "publish", "clean_document"} => Ingest(w)
    BY Zenon, ConstantsAssumption DEF TypeOK, StoresOK, Stage
  <1> USE <1>t DEF At, rows, stores, Siblings
  <1>1. CASE Start(w)
    BY Zenon, <1>1 DEF Start
  <1>2. CASE BeginWrite(w)
    BY Zenon, <1>2 DEF BeginWrite
  <1>3. CASE BeginRejected(w)
    BY Zenon, <1>3 DEF BeginRejected
  <1>4. CASE AppendPending(w)
    BY Zenon, <1>4 DEF AppendPending, AppendOk, Ingest
  <1>5. CASE AppendPendingFails(w)
    BY Zenon, <1>5 DEF AppendPendingFails, AppendFails, Fault
  <1>6. CASE WriteFts(w)
    BY Zenon, <1>6 DEF WriteFts
  <1>7. CASE WriteFtsFails(w)
    BY Zenon, <1>7 DEF WriteFtsFails
  <1>8. CASE AddPoints(w)
    BY Zenon, <1>8 DEF AddPoints, AfterVectors, More, Ingest
  <1>9. CASE InsertParents(w)
    BY Zenon, <1>9 DEF InsertParents
  <1>10. CASE InsertBlock(w)
    BY Zenon, <1>10 DEF InsertBlock, More
  <1>11. CASE StoreFails(w)
    BY Zenon, <1>11 DEF StoreFails
  <1>12. CASE MarkCommitted(w)
    BY Zenon, <1>12 DEF MarkCommitted
  <1>13. CASE AppendCommitted(w)
    BY Zenon, <1>13 DEF AppendCommitted, AppendOk
  <1>14. CASE AppendCommittedFails(w)
    BY Zenon, <1>14 DEF AppendCommittedFails, AppendFails, Fault
  <1>15. CASE ReleaseCommitted(w)
    BY Zenon, <1>15 DEF ReleaseCommitted, AfterCommit
  <1>16. CASE CompactInline(w)
    BY Zenon, <1>16 DEF CompactInline, AfterCommit
  <1>17. CASE CompactFails(w)
    BY Zenon, <1>17 DEF CompactFails, AfterCommit
  <1>18. CASE Publish(w)
    BY Zenon, <1>18 DEF Publish
  <1>19. CASE PublishFails(w)
    BY Zenon, <1>19 DEF PublishFails
  <1>20. CASE MarkRolledBack(w)
    BY Zenon, <1>20 DEF MarkRolledBack
  <1>21. CASE AppendRollback(w)
    BY Zenon, <1>21 DEF AppendRollback, AppendOk
  <1>22. CASE AppendRollbackFails(w)
    BY Zenon, <1>22 DEF AppendRollbackFails, AppendFails, Fault
  <1>23. CASE ReleaseRolledBack(w)
    BY Zenon, <1>23 DEF ReleaseRolledBack
  <1>24. CASE CleanVectors(w)
    BY Zenon, <1>24 DEF CleanVectors, DeleteVectors
  <1>25. CASE CleanBlocks(w)
    BY Zenon, <1>25 DEF CleanBlocks, Ingest
  <1>26. CASE CleanDocument(w)
    BY Zenon, <1>26 DEF CleanDocument, Siblings
  <1>27. CASE Fail(w)
    BY Zenon, <1>27 DEF Fail
  <1> HIDE DEF At, rows, stores, Siblings
  <1> QED BY Zenon, <1>1, <1>2, <1>3, <1>4, <1>5, <1>6, <1>7, <1>8, <1>9, <1>10, <1>11, <1>12, <1>13, <1>14,
     <1>15, <1>16, <1>17, <1>18, <1>19, <1>20, <1>21, <1>22, <1>23, <1>24, <1>25, <1>26,
     <1>27 DEF Step

(* An ingest in progress, and its rows. *)
Ingesting(w) ==
  /\ pc[w] # "idle" => w \in config.writes
  /\ Ingest(w) => /\ InFlight(w) => status[Doc[w]] = "processing"
                  /\ pc[w] \in AfterFts => fts[Doc[w]] = w
                  /\ pc[w] \in AfterParents => w \in parents

(* An ingest marks its document, then writes its rows. *)
LEMMA IngestOwn ==
  ASSUME TypeOK, NEW w \in Writes, Start(w) \/ Step(w), config' = config, Ingesting(w)
  PROVE  Ingesting(w)' /\ (InFlight(w)' => InFlight(w) \/ Start(w))
  <1>t. /\ pc \in [Writes -> Places] /\ Doc[w] \in Docs
        /\ status \in [Docs -> {"none", "pending", "processing", "ready", "error"}]
        /\ fts \in [Docs -> Writes \cup {None}]
    BY ONLY Zenon, TypeOK, ConstantsAssumption DEF TypeOK, ThreadsOK, StoresOK
  <1> USE <1>t DEF At, Go, rows, stores, Ingesting, InFlight, AfterFts, AfterParents, Committing
  <1>1. CASE Start(w)
    BY Zenon, <1>1 DEF Start
  <1>2. CASE BeginWrite(w)
    BY Zenon, <1>2 DEF BeginWrite
  <1>3. CASE BeginRejected(w)
    BY Zenon, <1>3 DEF BeginRejected
  <1>4. CASE AppendPending(w)
    BY Zenon, <1>4 DEF AppendPending, AppendOk, Ingest
  <1>5. CASE AppendPendingFails(w)
    BY Zenon, <1>5 DEF AppendPendingFails, AppendFails, Fault
  <1>6. CASE WriteFts(w)
    BY Zenon, <1>6 DEF WriteFts
  <1>7. CASE WriteFtsFails(w)
    BY Zenon, <1>7 DEF WriteFtsFails
  <1>8. CASE AddPoints(w)
    BY Zenon, <1>8 DEF AddPoints, AfterVectors, More, Ingest
  <1>9. CASE InsertParents(w)
    BY Zenon, <1>9 DEF InsertParents
  <1>10. CASE InsertBlock(w)
    BY Zenon, <1>10 DEF InsertBlock, More
  <1>11. CASE StoreFails(w)
    BY Zenon, <1>11 DEF StoreFails
  <1>12. CASE MarkCommitted(w)
    BY Zenon, <1>12 DEF MarkCommitted
  <1>13. CASE AppendCommitted(w)
    BY Zenon, <1>13 DEF AppendCommitted, AppendOk
  <1>14. CASE AppendCommittedFails(w)
    BY Zenon, <1>14 DEF AppendCommittedFails, AppendFails, Fault
  <1>15. CASE ReleaseCommitted(w)
    BY Zenon, <1>15 DEF ReleaseCommitted, AfterCommit
  <1>16. CASE CompactInline(w)
    BY Zenon, <1>16 DEF CompactInline, AfterCommit
  <1>17. CASE CompactFails(w)
    BY Zenon, <1>17 DEF CompactFails, AfterCommit
  <1>18. CASE Publish(w)
    BY Zenon, <1>18 DEF Publish
  <1>19. CASE PublishFails(w)
    BY Zenon, <1>19 DEF PublishFails
  <1>20. CASE MarkRolledBack(w)
    BY Zenon, <1>20 DEF MarkRolledBack
  <1>21. CASE AppendRollback(w)
    BY Zenon, <1>21 DEF AppendRollback, AppendOk
  <1>22. CASE AppendRollbackFails(w)
    BY Zenon, <1>22 DEF AppendRollbackFails, AppendFails, Fault
  <1>23. CASE ReleaseRolledBack(w)
    BY Zenon, <1>23 DEF ReleaseRolledBack
  <1>24. CASE CleanVectors(w)
    BY Zenon, <1>24 DEF CleanVectors, DeleteVectors
  <1>25. CASE CleanBlocks(w)
    BY Zenon, <1>25 DEF CleanBlocks, Ingest
  <1>26. CASE CleanDocument(w)
    BY Zenon, <1>26 DEF CleanDocument, Siblings
  <1>27. CASE Fail(w)
    BY Zenon, <1>27 DEF Fail
  <1> HIDE DEF At, Go, rows, stores, Ingesting, InFlight, AfterFts, AfterParents, Committing
  <1> QED BY Zenon, <1>1, <1>2, <1>3, <1>4, <1>5, <1>6, <1>7, <1>8, <1>9, <1>10, <1>11, <1>12, <1>13, <1>14,
     <1>15, <1>16, <1>17, <1>18, <1>19, <1>20, <1>21, <1>22, <1>23, <1>24, <1>25, <1>26,
     <1>27 DEF Step

(* A write that steps is in flight, or starts. *)
LEMMA StepsInFlight ==
  ASSUME NEW w \in Writes, Start(w) \/ Step(w)
  PROVE  InFlight(w) \/ Start(w)
  BY Zenon DEF Step, InFlight, At, BeginWrite, BeginRejected, AppendPending, AppendPendingFails,
     WriteFts, WriteFtsFails, AddPoints, InsertParents, InsertBlock, StoreFails, MarkCommitted,
     AppendCommitted, AppendCommittedFails, ReleaseCommitted, CompactInline, CompactFails,
     Publish, PublishFails, MarkRolledBack, AppendRollback, AppendRollbackFails,
     ReleaseRolledBack, CleanVectors, CleanBlocks, CleanDocument, Fail

(* IngestInv is kept: two ingests of a document are never in flight        *)
(* together.                                                               *)
LEMMA IngestStep ==
  ASSUME TypeOK, LogInv, StageInv, IngestInv, Next
  PROVE  IngestInv'
  <1>c. config' = config
    BY Zenon DEF Next
  <1>i. \A v \in Writes : Ingesting(v)
    BY Zenon DEF IngestInv, Ingesting
  <1>u. \A v, u \in Writes :
          Ingest(v) /\ Ingest(u) /\ Doc[v] = Doc[u] /\ InFlight(v) /\ InFlight(u) => v = u
    BY Zenon DEF IngestInv
  <1> SUFFICES /\ \A v \in Writes : Ingesting(v)'
               /\ \A v, u \in Writes : Ingest(v) /\ Ingest(u) /\ Doc[v] = Doc[u]
                                         /\ InFlight(v)' /\ InFlight(u)' => v = u
    BY Zenon DEF IngestInv, Ingesting
  <1>1. ASSUME NEW w \in Writes, Start(w) \/ Step(w)
        PROVE  /\ \A v \in Writes : Ingesting(v)'
               /\ \A v, u \in Writes : Ingest(v) /\ Ingest(u) /\ Doc[v] = Doc[u]
                                         /\ InFlight(v)' /\ InFlight(u)' => v = u
    <2>1. Ingesting(w)' /\ (InFlight(w)' => InFlight(w) \/ Start(w))
      BY Zenon, <1>1, <1>c, <1>i, IngestOwn
    <2>2. \A v \in Writes : v # w => pc'[v] = pc[v] /\ (InFlight(v)' <=> InFlight(v))
      BY Zenon, <1>1, Others DEF InFlight
    <2>3. ASSUME NEW v \in Writes, v # w, Ingest(v), InFlight(v), Ingest(w), Doc[v] = Doc[w]
          PROVE  ~InFlight(w)' /\ ~InFlight(w) /\ ~Start(w)
      BY Zenon, <1>u, <2>1, <2>3 DEF Start, Siblings
    <2>4. ASSUME NEW v \in Writes, v # w, ~(Ingest(w) /\ Doc[v] = Doc[w])
          PROVE  /\ status'[Doc[v]] = status[Doc[v]] /\ fts'[Doc[v]] = fts[Doc[v]]
                 /\ v \in parents' <=> v \in parents
      BY Zenon, <1>1, <2>4, RowsKept DEF StageInv
    <2>5. InFlight(w) \/ Start(w)
      BY Zenon, <1>1, StepsInFlight
    <2>6. ASSUME NEW v \in Writes, v # w PROVE Ingesting(v)'
      <3>1. Ingesting(v) /\ pc'[v] = pc[v] /\ (InFlight(v)' <=> InFlight(v))
        BY Zenon, <1>i, <2>2, <2>6
      <3>2. ASSUME Ingest(v), InFlight(v)
            PROVE  /\ status'[Doc[v]] = status[Doc[v]] /\ fts'[Doc[v]] = fts[Doc[v]]
                   /\ v \in parents' <=> v \in parents
        BY Zenon, <2>3, <2>4, <2>5, <2>6, <3>2
      <3>3. pc[v] \in AfterFts \cup AfterParents => InFlight(v)
        BY Zenon DEF AfterFts, AfterParents, Committing, InFlight
      <3> QED BY ONLY Zenon, <1>c, <3>1, <3>2, <3>3 DEF Ingesting
    <2> QED BY Zenon, <1>u, <2>1, <2>2, <2>3, <2>6
  <1>2. CASE Crash
    <2>1. \A v \in Writes : pc'[v] \in {"idle", "done"} /\ (pc'[v] # "idle" => pc[v] # "idle")
      BY Zenon, <1>2 DEF Crash
    <2> QED BY Zenon, <1>c, <1>i, <2>1 DEF Ingesting, InFlight, AfterFts, AfterParents, Committing
  <1>3. CASE Load
    <2>1. \A v \in Writes : pc'[v] = pc[v] /\ pc[v] \in {"idle", "done"}
      BY Zenon, <1>3, Loads DEF LogInv
    <2> QED BY Zenon, <1>c, <1>i, <2>1 DEF Ingesting, InFlight, AfterFts, AfterParents, Committing
  <1> QED BY Zenon, <1>1, <1>2, <1>3 DEF Next
=============================================================================
