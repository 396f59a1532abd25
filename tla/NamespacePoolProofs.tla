------------------------- MODULE NamespacePoolProofs -------------------------
(***************************************************************************)
(* The guarantees of the namespace pool, for any number of requests and    *)
(* namespaces and every workload.  NamespacePoolSteps shows what a step    *)
(* does to each part of the state; this module counts.                     *)
(***************************************************************************)
EXTENDS NamespacePoolSteps, FiniteSetTheorems

(* The gates AdmitCreate passed still hold while it has the pool. *)
Room ==
    /\ IsFiniteSet(Resident)
    /\ Cardinality(Resident) <= config.max_namespaces
    /\ \A r \in Requests : pc[r] \in {"lookup", "install"} =>
          Cardinality(Resident) + 1 <= config.max_namespaces

(* The reference count of a namespace is the number of its borrowers. *)
Exact == \A ns \in Namespaces : refcount[ns] = Cardinality(Users(ns))

Guarded == Ordered /\ Room /\ Exact

PoolInv == NoReload => Guarded

----------------------------------------------------------------------------
(* The borrowers of a namespace are finitely many requests. *)
LEMMA UserCount ==
  ASSUME NEW ns
  PROVE  /\ IsFiniteSet(Users(ns)) /\ Cardinality(Users(ns)) \in Nat
         /\ Cardinality(Users(ns)) = 0 <=> Users(ns) = {}
  <1>1. IsFiniteSet(Users(ns))
    BY Zenon, ConfigAssumption, FS_Subset DEF Users
  <1> QED BY Zenon, <1>1, FS_CardinalityType, FS_EmptySet

LEMMA ExactCounts ==
  ASSUME Exact
  PROVE  Counted
  BY UserCount DEF Exact, Counted

(* A step that takes in or lets go one borrower and counts it keeps the    *)
(* count exact.                                                            *)
LEMMA ExactStep ==
  ASSUME Exact, Tally
  PROVE  Exact'
  <1> SUFFICES ASSUME NEW ns \in Namespaces PROVE refcount'[ns] = Cardinality(Users(ns)')
    BY Zenon DEF Exact
  <1> DEFINE old == Users(ns)
             new == Users(ns)'
  <1>1. /\ refcount[ns] = Cardinality(old) /\ IsFiniteSet(old) /\ Cardinality(old) \in Nat
        /\ \/ new = old /\ refcount'[ns] = refcount[ns]
           \/ new = {} /\ refcount'[ns] = 0
           \/ \E s : s \notin old /\ new = old \cup {s} /\ refcount'[ns] = refcount[ns] + 1
           \/ \E s \in old : new = old \ {s} /\ refcount'[ns] = refcount[ns] - 1
    BY Zenon, UserCount DEF Exact, Tally, Counts
  <1> HIDE DEF old, new
  <1>2. ASSUME NEW s, s \notin old, new = old \cup {s}, refcount'[ns] = refcount[ns] + 1
        PROVE  refcount'[ns] = Cardinality(new)
    BY <1>1, <1>2, FS_AddElement, Zenon
  <1>3. ASSUME NEW s \in old, new = old \ {s}, refcount'[ns] = refcount[ns] - 1
        PROVE  refcount'[ns] = Cardinality(new)
    BY Zenon, <1>1, <1>3, FS_RemoveElement
  <1>4. refcount'[ns] = Cardinality(new)
    BY Zenon, <1>1, <1>2, <1>3, FS_EmptySet
  <1> QED BY Zenon, <1>4 DEF new

(* A step that admits nobody without a gate keeps the limit. *)
LEMMA RoomStep ==
  ASSUME config \in Configs, Room, Admission
  PROVE  Room'
  <1>1. /\ config.max_namespaces \in Nat /\ config' = config
        /\ IsFiniteSet(Resident) /\ Cardinality(Resident) \in Nat
        /\ Cardinality(Resident) <= config.max_namespaces
    BY Zenon, ConfigFacts, FS_CardinalityType DEF Room, Admission
  <1>2. CASE /\ Resident' = Resident
             /\ \A s \in Requests : pc'[s] \in {"lookup", "install"} =>
                   Gates \/ pc[s] \in {"lookup", "install"}
    BY Zenon, <1>1, <1>2 DEF Room, Gates
  <1>3. CASE /\ Resident' \subseteq Resident
             /\ \A s \in Requests : pc'[s] \notin {"lookup", "install"}
    <2>1. /\ IsFiniteSet(Resident') /\ Cardinality(Resident') \in Nat
          /\ Cardinality(Resident') <= Cardinality(Resident)
      BY Zenon, <1>1, <1>3, FS_Subset, FS_CardinalityType
    <2>2. Cardinality(Resident') <= config'.max_namespaces
      BY <1>1, <2>1
    <2> QED BY Zenon, <1>3, <2>1, <2>2 DEF Room
  <1>4. CASE /\ \E a : a \notin Resident /\ Resident' = Resident \cup {a}
             /\ \E s \in Requests : pc[s] = "install"
             /\ \A s \in Requests : pc'[s] \notin {"lookup", "install"}
    <2>1. Cardinality(Resident) + 1 <= config.max_namespaces
      BY Zenon, <1>4 DEF Room
    <2>2. IsFiniteSet(Resident') /\ Cardinality(Resident') = Cardinality(Resident) + 1
      BY <1>1, <1>4, FS_AddElement
    <2> QED BY Zenon, <1>1, <1>4, <2>1, <2>2 DEF Room
  <1> QED BY Zenon, <1>2, <1>3, <1>4 DEF Admission

(* What a step does, in these terms, is enough. *)
LEMMA GuardedStep ==
  ASSUME TypeOK, Room, Exact, Ordered' /\ Tally /\ Admission
  PROVE  Guarded'
  BY Zenon, ExactStep, RoomStep DEF Guarded, TypeOK

(* A step that counts no reload finds none counted. *)
LEMMA ReloadsOnly ==
  ASSUME TypeOK, [Next]_vars, NoReload'
  PROVE  /\ NoReload
         /\ ~\E r \in Requests, ns \in config.names : ReloadNamespace(r, ns)
  <1>1. ASSUME NEW k \in Kinds, Count(k)
        PROVE  NoReload /\ k # "reload"
    <2>1. count \in [Kinds -> Nat] /\ count' = [count EXCEPT ![k] = count[k] + 1]
      BY Zenon, <1>1 DEF TypeOK, Count
    <2> QED BY <2>1 DEF NoReload, Kinds
  <1>2. ASSUME NEW r \in Requests, Work(r) PROVE NoReload
    <2>1. UNCHANGED count \/ Count("loadfail")
      BY Zenon, <1>2 DEF Work, Load, InsertNamespaceCatalog, AdmitCreate,
         AdmitLoad, AdmitLoadFails, AdmitInstall, RemoveNamespaceCatalogRows, SoftDelete,
         EvictForDelete, Acquire, Release, Reap, ReloadLoad, ReloadFails, ReloadReplace
    <2> QED BY Zenon, <1>1, <2>1 DEF Kinds, NoReload
  <1>3. ASSUME NEW r \in Requests, NEW ns \in config.names,
               CreateNamespace(r, ns) \/ DeleteNamespace(r, ns) \/ UseNamespace(r, ns)
                 \/ ReloadNamespace(r, ns)
        PROVE  NoReload /\ ~ReloadNamespace(r, ns)
    BY Zenon, <1>1, <1>3 DEF CreateNamespace, DeleteNamespace, UseNamespace, ReloadNamespace, Start, Kinds
  <1>4. ASSUME NEW b \in orphans, OrphanEnds(b) PROVE NoReload
    BY Zenon, <1>4 DEF OrphanEnds, NoReload
  <1>5. ASSUME NEW r \in Requests, NEW ns \in config.names, ReloadNamespace(r, ns) PROVE FALSE
    BY Zenon, <1>3, <1>5
  <1> QED BY Zenon, <1>2, <1>3, <1>4, <1>5 DEF Next, NoReload, vars

LEMMA PoolStep == TypeOK /\ PoolInv /\ [Next]_vars => PoolInv'
  <1> SUFFICES ASSUME TypeOK, PoolInv, [Next]_vars, NoReload' PROVE Guarded'
    BY Zenon DEF PoolInv
  <1>1. TypeOK'
    BY Zenon, TypeStep
  <1>2. /\ Ordered /\ Room /\ Exact /\ Counted
        /\ ~\E r \in Requests, ns \in config.names : ReloadNamespace(r, ns)
    BY Zenon, ReloadsOnly, ExactCounts DEF PoolInv, Guarded
  <1>3. Shapes /\ Shapes' /\ Busy
    BY Zenon, <1>1, ConfigAssumption DEF TypeOK, Shapes, Busy
  <1>4. ASSUME NEW r \in Requests, Work(r) PROVE Guarded'
    BY Zenon, <1>1, <1>2, <1>4, WorkStep, GuardedStep
  <1>5. ASSUME NEW r \in Requests, NEW ns \in config.names,
               CreateNamespace(r, ns) \/ DeleteNamespace(r, ns) \/ UseNamespace(r, ns)
        PROVE  Guarded'
    <2>1. PICK label \in {"insert", "softdelete", "acquire"}, k \in Kinds :
               Start(r, k, label, ns)
      BY Zenon, <1>5 DEF CreateNamespace, DeleteNamespace, UseNamespace, Kinds
    <2>2. ns \in Namespaces
      BY Zenon, ConfigFacts DEF TypeOK
    <2> QED BY Zenon, <1>2, <1>3, <2>1, <2>2, StartStep, GuardedStep
  <1>6. ASSUME NEW b \in orphans, OrphanEnds(b) PROVE Guarded'
    BY Zenon, <1>2, <1>3, <1>6, OrphanStep, GuardedStep
  <1>7. CASE UNCHANGED vars
    <2>1. Ordered'
      <3>1. UNCHANGED <<row, present, bundle, refcount, pending, open, orphans, pc, arg, held>>
        BY Zenon, <1>7 DEF vars, slotVars, reqVars
      <3>2. (Unloading /\ Slots /\ Awaited /\ Sole)'
        BY Zenon, <1>2, <3>1 DEF Ordered, Unloading, Slots, Awaited, Sole
      <3>3. (Vacant /\ Borrowed)'
        BY <1>2, <3>1 DEF Ordered, Creating, Vacant, Borrowed
      <3>4. Strays'
        BY <1>2, <3>1 DEF Ordered, Creating, Strays
      <3>5. Creation'
        BY <1>2, <3>1 DEF Ordered, Creating, Creation
      <3> QED BY Zenon, <3>2, <3>3, <3>4, <3>5 DEF Ordered
    <2>2. Tally /\ Admission
      <3>1. /\ \A ns \in Namespaces : Users(ns)' = Users(ns) /\ refcount' = refcount
            /\ config' = config /\ Resident' = Resident /\ pc' = pc
        BY Zenon, <1>7 DEF vars, slotVars, reqVars, Users, Resident
      <3>2. Tally
        BY Zenon, <3>1 DEF Tally, Counts
      <3> QED BY Zenon, <3>1, <3>2 DEF Admission
    <2> QED BY Zenon, <1>2, <2>1, <2>2, GuardedStep
  <1> QED BY Zenon, <1>2, <1>4, <1>5, <1>6, <1>7 DEF Next

LEMMA PoolInit == Init => TypeOK /\ PoolInv
  <1> SUFFICES ASSUME Init PROVE TypeOK /\ PoolInv
    BY Zenon
  <1>1. PICK loaded \in SUBSET config.catalog, late \in SUBSET config.catalog :
          /\ loaded \cap late = {}
          /\ Cardinality(loaded \cup late) <= config.max_namespaces
          /\ present = [ns \in Namespaces |-> ns \in loaded]
          /\ bundle = [ns \in Namespaces |-> IF ns \in loaded THEN <<ns, 0>> ELSE None]
          /\ orphans = {<<ns, 0>> : ns \in late}
          /\ open = {<<ns, 0>> : ns \in loaded \cup late}
    BY Zenon DEF Init
  <1>2. /\ config \in Configs /\ loaded \subseteq Namespaces /\ late \subseteq Namespaces
        /\ IsFiniteSet(config.catalog) /\ config.max_namespaces \in Nat
    BY Zenon, ConfigFacts DEF Init
  <1>3. TypeOK
    BY <1>1, <1>2, ConfigAssumption DEF Init, TypeOK, Bundles, Labels
  <1>4. Unloading /\ Awaited /\ Creation
    BY Zenon DEF Init, Unloading, Awaited, Creation, Creating
  <1>5. Slots
    BY Zenon, <1>1, <1>2 DEF Init, Slots
  <1>6. Vacant /\ Strays
    <2>1. \A ns \in Namespaces : row[ns] = "none" => ns \notin loaded \cup late
      BY Zenon DEF Init
    <2>2. \A b \in open : b[1] \in loaded \cup late
      BY <1>1
    <2>3. \A b \in orphans : b \in open /\ b[1] \in late
      BY <1>1
    <2>4. \A r \in Requests : pc[r] = "idle"
      BY Zenon DEF Init
    <2>5. Vacant
      BY Zenon, <1>1, <2>1, <2>2, <2>4 DEF Vacant, Creating
    <2>6. Strays
      BY Zenon, <1>1, <1>2, <2>3, <2>4 DEF Strays, Creating
    <2> QED BY Zenon, <2>5, <2>6
  <1>7. Room
    <2>1. Resident = loaded
      BY Zenon, <1>1, <1>2 DEF Resident
    <2>2. IsFiniteSet(loaded \cup late)
      BY Zenon, <1>2, FS_Subset
    <2>3. /\ IsFiniteSet(loaded) /\ Cardinality(loaded) <= Cardinality(loaded \cup late)
          /\ Cardinality(loaded) \in Nat /\ Cardinality(loaded \cup late) \in Nat
      BY <2>2, FS_Subset, FS_CardinalityType
    <2> QED BY <1>1, <1>2, <2>1, <2>3 DEF Init, Room
  <1>8. Borrowed /\ Exact
    <2>1. \A ns \in Namespaces : Users(ns) = {}
      BY Zenon DEF Init, Users
    <2>2. Exact
      BY Zenon, <2>1, FS_EmptySet DEF Init, Exact
    <2> QED BY Zenon, <2>2 DEF Init, Borrowed
  <1>9. Sole
    BY <1>1 DEF Sole
  <1> QED BY Zenon, <1>3, <1>4, <1>5, <1>6, <1>7, <1>8, <1>9 DEF PoolInv, Guarded, Ordered

(* The locks and the slots keep their types and the locks are with the     *)
(* requests between their two steps under them, in every workload.         *)
THEOREM TypeCorrect == Spec => []TypeOK
  BY PoolInit, TypeStep, PTL DEF Spec

(* The pool keeps its promises to any number of concurrent creates,        *)
(* deletes and uses: a borrowed bundle stays open and in its slot, the     *)
(* count is the number of borrowers, a unit directory has one owner, the   *)
(* limit holds and every pending delete has somebody to finish it.         *)
THEOREM PoolIsSafe == Spec => []PoolSafe
  <1>1. TypeOK /\ PoolInv => PoolSafe
    <2> SUFFICES ASSUME TypeOK, Guarded
                 PROVE  /\ BorrowValid /\ RefcountExact /\ OneOwner
                        /\ WithinCapacity /\ PendingHasReaper
      BY Zenon DEF PoolInv, PoolSafe, BorrowValid, RefcountExact, OneOwner, WithinCapacity,
         PendingHasReaper
    <2>1. BorrowValid /\ RefcountExact /\ OneOwner /\ WithinCapacity
      BY Zenon DEF Guarded, Ordered, Borrowed, Sole, Room, Exact, BorrowValid, RefcountExact,
         OneOwner, WithinCapacity
    <2>2. PendingHasReaper
      <3> SUFFICES ASSUME NEW ns \in Namespaces, refcount[ns] > 0
                   PROVE  Users(ns) # {}
        BY Zenon DEF PendingHasReaper, Guarded, Ordered, Awaited, Users
      <3> QED BY UserCount DEF Guarded, Exact
    <2> QED BY Zenon, <2>1, <2>2
  <1> QED BY <1>1, PoolInit, TypeStep, PoolStep, PTL DEF Spec
=============================================================================
