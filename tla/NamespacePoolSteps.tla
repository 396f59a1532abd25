------------------------- MODULE NamespacePoolSteps -------------------------
(***************************************************************************)
(* What each step of the namespace pool does to the slots, the rows, the   *)
(* openings and the requests: the part of the argument of                  *)
(* NamespacePoolProofs that counts nothing.                                *)
(***************************************************************************)
EXTENDS NamespacePool, TLAPS

(* A request that is creating a namespace: its row is in, and the pool has *)
(* not answered yet.                                                       *)
Creating == {"admit", "lookup", "install", "remove"}

(* No request of a reload is under way. *)
Unloading == \A r \in Requests : pc[r] \notin {"reload", "replace"}

(* A slot names its own namespace's bundle, which is open; an absent slot  *)
(* names none and waits for nothing.                                       *)
Slots ==
    \A ns \in Namespaces :
        /\ present[ns] => bundle[ns] \in open /\ bundle[ns][1] = ns
        /\ ~present[ns] => bundle[ns] = None /\ ~pending[ns]

(* A namespace without a row has nothing open and nobody creating it. *)
Vacant ==
    \A ns \in Namespaces : row[ns] = "none" =>
        /\ ~present[ns]
        /\ \A b \in open : b[1] # ns
        /\ \A r \in Requests : pc[r] \in Creating => arg[r] # ns

(* One request creates a namespace at a time, and until it has loaded it   *)
(* nothing of the namespace is open; afterwards only what it loaded is.    *)
Creation ==
    /\ \A r, s \in Requests :
          pc[r] \in Creating /\ pc[s] \in Creating /\ arg[r] = arg[s] => r = s
    /\ \A r \in Requests : pc[r] \in Creating =>
          /\ ~present[arg[r]]
          /\ \A b \in open : b[1] = arg[r] => pc[r] = "install" /\ b = held[r]
    /\ \A r \in Requests : pc[r] = "install" => held[r] \in open /\ held[r][1] = arg[r]

(* A pending slot still has a counted user, or its last one is on the way. *)
Awaited ==
    \A ns \in Namespaces : pending[ns] =>
        \/ refcount[ns] > 0
        \/ \E r \in Requests : pc[r] = "reap" /\ arg[r] = ns

(* A startup load that timed out has a namespace that is not resident and  *)
(* that nobody creates: its row keeps creates out.                         *)
Strays ==
    \A b \in orphans : /\ b \in open /\ ~present[b[1]]
                       /\ \A r \in Requests : pc[r] \in Creating => arg[r] # b[1]

(* A borrowed bundle is its slot's bundle, and open. *)
Borrowed ==
    \A r \in Requests : pc[r] = "using" =>
        present[arg[r]] /\ bundle[arg[r]] = held[r] /\ held[r] \in open

(* A unit directory is open once. *)
Sole == \A b, c \in open : b[1] = c[1] => b = c

Ordered == /\ Unloading /\ Slots /\ Vacant /\ Creation /\ Awaited
           /\ Strays /\ Borrowed /\ Sole

(* What the reference counts tell the steps. *)
Counted == \A ns \in Namespaces : /\ refcount[ns] >= 0
                                  /\ refcount[ns] = 0 <=> Users(ns) = {}

(* A step keeps a namespace's users and its count, leaves both at nothing, *)
(* or adds or takes away one of each.                                      *)
Counts(ns) ==
    \/ Users(ns)' = Users(ns) /\ refcount'[ns] = refcount[ns]
    \/ Users(ns)' = {} /\ refcount'[ns] = 0
    \/ \E s : /\ s \notin Users(ns) /\ Users(ns)' = Users(ns) \cup {s}
              /\ refcount'[ns] = refcount[ns] + 1
    \/ \E s \in Users(ns) : /\ Users(ns)' = Users(ns) \ {s}
                            /\ refcount'[ns] = refcount[ns] - 1

Tally == \A ns \in Namespaces : Counts(ns)

(* A step keeps the resident namespaces and only a gate lets a request in, *)
(* or drops some while nobody is admitted, or ends the one admission.      *)
Admission ==
    /\ config' = config
    /\ \/ /\ Resident' = Resident
          /\ \A s \in Requests : pc'[s] \in {"lookup", "install"} =>
                Gates \/ pc[s] \in {"lookup", "install"}
       \/ /\ Resident' \subseteq Resident
          /\ \A s \in Requests : pc'[s] \notin {"lookup", "install"}
       \/ /\ \E a : a \notin Resident /\ Resident' = Resident \cup {a}
          /\ \E s \in Requests : pc[s] = "install"
          /\ \A s \in Requests : pc'[s] \notin {"lookup", "install"}

(* The types the steps use. *)
Shapes == /\ row \in [Namespaces -> {"none", "active", "deleted"}]
          /\ present \in [Namespaces -> BOOLEAN] /\ pending \in [Namespaces -> BOOLEAN]
          /\ bundle \in [Namespaces -> Bundles \cup {None}]
          /\ refcount \in [Namespaces -> Int] /\ open \subseteq Bundles
          /\ pc \in [Requests -> Labels] /\ arg \in [Requests -> Namespaces \cup {None}]
          /\ held \in [Requests -> Bundles \cup {None}] /\ None \notin Requests

Busy == \A r \in Requests : pc[r] # "idle" => arg[r] \in Namespaces

(* A request returns: nothing else changes, or it erases its slot. *)
Left(r) == Return(r) /\ UNCHANGED <<config, row, slotVars, open, orphans>>

LeftErased(r) == Return(r) /\ Erase(arg[r]) /\ UNCHANGED <<config, row, orphans>>

----------------------------------------------------------------------------
(* What a workload fixes, and what a label is. *)
LEMMA ConfigFacts ==
  ASSUME config \in Configs
  PROVE  /\ config.names \subseteq Namespaces /\ config.catalog \subseteq Namespaces
         /\ IsFiniteSet(config.catalog) /\ config.max_namespaces \in Nat
         /\ config.max \in [Kinds -> Nat]
  BY Zenon, ConfigAssumption

(* The slots, and the openings, that bundles_.erase leaves. *)
SlotTypes == /\ present \in [Namespaces -> BOOLEAN] /\ pending \in [Namespaces -> BOOLEAN]
             /\ bundle \in [Namespaces -> Bundles \cup {None}]
             /\ refcount \in [Namespaces -> Int] /\ open \subseteq Bundles

LEMMA EraseType ==
  ASSUME SlotTypes, NEW ns \in Namespaces, Erase(ns)
  PROVE  SlotTypes'
  <1>1. present' \in [Namespaces -> BOOLEAN]
    BY Zenon DEF SlotTypes, Erase
  <1>2. pending' \in [Namespaces -> BOOLEAN]
    BY Zenon DEF SlotTypes, Erase
  <1>3. bundle' \in [Namespaces -> Bundles \cup {None}]
    BY Zenon DEF SlotTypes, Erase
  <1>4. refcount' \in [Namespaces -> Int] /\ open' \subseteq Bundles
    BY DEF SlotTypes, Erase
  <1> QED BY Zenon, <1>1, <1>2, <1>3, <1>4 DEF SlotTypes

(* A step of one of the code's functions keeps the types. *)
LEMMA WorkType ==
  ASSUME TypeOK, NEW r \in Requests, Work(r)
  PROVE  TypeOK'
  <1>1. None \notin Requests /\ None \notin Namespaces
    BY Zenon, ConfigAssumption
  <1> USE DEF TypeOK, Labels, At, Goto, Bundles
  <1>2. CASE InsertNamespaceCatalog(r)
    BY <1>1, <1>2 DEF InsertNamespaceCatalog, Return, slotVars, lockVars, reqVars
  <1>3. CASE AdmitCreate(r)
    BY <1>1, <1>3 DEF AdmitCreate, Return, slotVars, lockVars, reqVars
  <1>4. CASE AdmitLoad(r)
    BY <1>1, <1>4 DEF AdmitLoad, Load, slotVars, lockVars, reqVars
  <1>5. CASE AdmitLoadFails(r)
    <2>1. count' \in [Kinds -> Nat]
      BY <1>5 DEF AdmitLoadFails, Count, Kinds
    <2> QED BY <1>1, <1>5, <2>1 DEF AdmitLoadFails, slotVars, lockVars, reqVars
  <1>6. CASE AdmitInstall(r)
    BY <1>1, <1>6 DEF AdmitInstall, Return, slotVars, lockVars, reqVars
  <1>7. CASE RemoveNamespaceCatalogRows(r)
    BY <1>1, <1>7 DEF RemoveNamespaceCatalogRows, Return, slotVars, lockVars, reqVars
  <1>8. CASE SoftDelete(r)
    BY <1>1, <1>8 DEF SoftDelete, Return, slotVars, lockVars, reqVars
  <1>9. CASE EvictForDelete(r)
    <2>1. arg[r] \in Namespaces
      BY Zenon, <1>9 DEF EvictForDelete
    <2>2. CASE Erase(arg[r])
      <3>1. SlotTypes'
        BY Zenon, <2>1, <2>2, EraseType DEF SlotTypes
      <3> QED BY <1>1, <1>9, <3>1 DEF EvictForDelete, Return, SlotTypes, slotVars, lockVars, reqVars
    <2>3. CASE ~Erase(arg[r])
      <3>1. /\ pending' = pending \/ pending' = [pending EXCEPT ![arg[r]] = TRUE]
            /\ UNCHANGED <<present, bundle, refcount, open>>
        BY <1>9, <2>3, Zenon DEF EvictForDelete, slotVars
      <3> HIDE DEF TypeOK
      <3>2. pending' \in [Namespaces -> BOOLEAN]
        BY Zenon, <3>1, <2>1 DEF TypeOK
      <3> USE DEF TypeOK
      <3> QED BY <3>2, <1>1, <1>9, <3>1 DEF EvictForDelete, Return, slotVars, lockVars, reqVars
    <2> QED BY Zenon, <2>2, <2>3
  <1>10. CASE Acquire(r)
    BY <1>1, <1>10 DEF Acquire, Return, slotVars, lockVars, reqVars
  <1>11. CASE Release(r)
    BY <1>1, <1>11 DEF Release, Return, slotVars, lockVars, reqVars
  <1>12. CASE Reap(r)
    <2>1. arg[r] \in Namespaces
      BY Zenon, <1>12 DEF Reap
    <2>2. CASE Erase(arg[r])
      <3>1. SlotTypes'
        BY Zenon, <2>1, <2>2, EraseType DEF SlotTypes
      <3> QED BY <1>1, <1>12, <3>1 DEF Reap, Return, SlotTypes, slotVars, lockVars, reqVars
    <2>3. CASE ~Erase(arg[r])
      BY <1>1, <1>12, <2>1, <2>3 DEF Reap, Return, slotVars, lockVars, reqVars
    <2> QED BY Zenon, <2>2, <2>3
  <1>13. CASE ReloadLoad(r)
    BY <1>1, <1>13 DEF ReloadLoad, Load, slotVars, lockVars, reqVars
  <1>14. CASE ReloadFails(r)
    BY <1>1, <1>14 DEF ReloadFails, Count, Return, slotVars, lockVars, reqVars
  <1>15. CASE ReloadReplace(r)
    BY <1>1, <1>15 DEF ReloadReplace, Return, slotVars, lockVars, reqVars
  <1> QED BY Zenon, <1>2, <1>3, <1>4, <1>5, <1>6, <1>7, <1>8, <1>9, <1>10, <1>11, <1>12, <1>13, <1>14, <1>15 DEF Work

LEMMA TypeStep == TypeOK /\ [Next]_vars => TypeOK'
  <1> SUFFICES ASSUME TypeOK, [Next]_vars PROVE TypeOK'
    BY Zenon
  <1>1. ASSUME NEW r \in Requests, Work(r) PROVE TypeOK'
    BY Zenon, <1>1, WorkType
  <1>2. ASSUME NEW r \in Requests, NEW ns \in config.names,
               CreateNamespace(r, ns) \/ DeleteNamespace(r, ns) \/ UseNamespace(r, ns)
                 \/ ReloadNamespace(r, ns)
        PROVE  TypeOK'
    BY <1>2, ConfigFacts, ConfigAssumption
    DEF CreateNamespace, DeleteNamespace, UseNamespace, ReloadNamespace, Start, Count, Goto, At,
        TypeOK, Labels, Kinds, slotVars, lockVars
  <1>3. ASSUME NEW b \in orphans, OrphanEnds(b) PROVE TypeOK'
    BY Zenon, <1>3 DEF OrphanEnds, TypeOK, slotVars, lockVars, reqVars
  <1>4. CASE UNCHANGED vars
    BY Zenon, <1>4 DEF TypeOK, vars, slotVars, lockVars, reqVars
  <1> QED BY Zenon, <1>1, <1>2, <1>3, <1>4 DEF Next

----------------------------------------------------------------------------
(* A request that is neither using a bundle nor reaping returns.           *)
LEMMA LeavesStep ==
  ASSUME Shapes, Shapes', Ordered, Counted, NEW r \in Requests, NEW a \in Namespaces, arg[r] =
     a, Left(r), pc[r] \notin {"using", "reap"}
  PROVE  Ordered' /\ Tally /\ Admission
  <1> USE DEF Ordered
  <1>e. /\ pc' = [pc EXCEPT ![r] = "idle"]
        /\ arg' = [arg EXCEPT ![r] = None]
        /\ held' = [held EXCEPT ![r] = None]
        /\ UNCHANGED <<config, row, present, bundle, refcount, pending, open, orphans>>
    BY Zenon DEF Left, At, Goto, slotVars, lockVars, reqVars, Return
  <1> USE <1>e
  <1>1. (Slots /\ Sole)'
    BY Zenon DEF Slots, Sole
  <1>2. Unloading'
    BY Zenon DEF Unloading, Shapes
  <1>3. Vacant'
    BY DEF Vacant, Creating, Shapes
  <1>4. Creation'
    BY DEF Creation, Creating, Shapes
  <1>5. Awaited'
    BY DEF Awaited, Shapes
  <1>6. Strays'
    BY Zenon DEF Strays, Creating, Shapes
  <1>7. Borrowed'
    BY DEF Borrowed, Shapes
  <1>8. Tally
    <2>1. \A ns \in Namespaces : Users(ns)' = Users(ns)
      BY DEF Users, Shapes
    <2> QED BY Zenon, <2>1 DEF Tally, Counts
  <1>9. Admission
    BY Zenon DEF Admission, Resident, Shapes
  <1> QED BY Zenon, <1>1, <1>2, <1>3, <1>4, <1>5, <1>6, <1>7, <1>8, <1>9

(* A request erases its namespace's slot, which nobody uses.               *)
LEMMA EraseStep ==
  ASSUME Shapes, Shapes', Ordered, Counted, NEW r \in Requests, NEW a \in Namespaces, arg[r] =
     a, LeftErased(r), present[a], Users(a) = {}, Busy, \A s \in Requests : pc[s] \notin
     {"lookup", "install"}
  PROVE  Ordered' /\ Tally /\ Admission
  <1> USE DEF Ordered
  <1>e. /\ pc' = [pc EXCEPT ![r] = "idle"]
        /\ arg' = [arg EXCEPT ![r] = None]
        /\ held' = [held EXCEPT ![r] = None]
        /\ present' = [present EXCEPT ![a] = FALSE]
        /\ bundle' = [bundle EXCEPT ![a] = None]
        /\ refcount' = [refcount EXCEPT ![a] = 0]
        /\ pending' = [pending EXCEPT ![a] = FALSE]
        /\ open' = open \ {bundle[a]}
        /\ UNCHANGED <<config, row, orphans>>
    BY Zenon DEF LeftErased, Erase, At, Goto, slotVars, lockVars, reqVars, Return
  <1>at. pc[r] # "using" /\ \A s \in Requests : pc[s] = "using" => arg[s] # a
    BY Zenon DEF Users, Shapes
  <1>b. \A ns \in Namespaces : present[ns] => /\ bundle[ns] \in open /\ bundle[ns][1] = ns
                                          /\ (ns # a => bundle[ns] # bundle[a])
    BY DEF Slots
  <1> USE <1>e, <1>at, <1>b
  <1>1. Unloading'
    BY DEF Unloading, Shapes
  <1>2. Slots'
    BY DEF Slots, Shapes
  <1>3. Vacant'
    BY DEF Vacant, Creating, Shapes
  <1>4. Creation'
    BY DEF Creation, Creating, Shapes
  <1>5. Awaited'
    BY DEF Awaited, Shapes
  <1>6. Strays'
    BY DEF Strays, Creating, Shapes
  <1>7. Borrowed'
    <2>1. \A s \in Requests : pc'[s] = "using" => /\ pc[s] = "using" /\ arg'[s] = arg[s] /\ held'[s] = held[s]
                                               /\ arg[s] \in Namespaces /\ arg[s] # a
      BY DEF Shapes, Busy
    <2>2. \A ns \in Namespaces : ns # a => present'[ns] = present[ns] /\ bundle'[ns] = bundle[ns]
      BY DEF Shapes
    <2> QED BY <2>1, <2>2 DEF Borrowed
  <1>8. Sole'
    BY Zenon DEF Sole, Shapes
  <1>9. Tally
    <2> SUFFICES ASSUME NEW ns \in Namespaces PROVE Counts(ns)
      BY Zenon DEF Tally
    <2>1. Users(ns)' = Users(ns)
      BY DEF Users, Shapes
    <2> QED BY <2>1 DEF Counts, Shapes
  <1>10. Admission
    BY DEF Admission, Resident, Shapes
  <1> QED BY Zenon, <1>1, <1>2, <1>3, <1>4, <1>5, <1>6, <1>7, <1>8, <1>9, <1>10

(* CreateNamespace inserts the row of a vacant name.                       *)
LEMMA InsertStep ==
  ASSUME Shapes, Shapes', Ordered, Counted, NEW r \in Requests, NEW a \in Namespaces, arg[r] =
     a, InsertNamespaceCatalog(r), row[a] = "none"
  PROVE  Ordered' /\ Tally /\ Admission
  <1> USE DEF Ordered
  <1>e. /\ row' = [row EXCEPT ![a] = "active"]
        /\ pc' = [pc EXCEPT ![r] = "admit"]
        /\ UNCHANGED <<config, present, bundle, refcount, pending, arg, held, open, orphans>>
    BY Zenon DEF InsertNamespaceCatalog, At, Goto, slotVars, lockVars, reqVars
  <1>at. pc[r] = "insert"
    BY Zenon DEF InsertNamespaceCatalog, At
  <1>v. ~present[a] /\ (\A b \in open : b[1] # a) /\ \A s \in Requests : pc[s] \in Creating => arg[s] # a
    BY Zenon DEF Vacant
  <1> USE <1>e, <1>at, <1>v
  <1>1. (Slots /\ Sole)'
    BY Zenon DEF Slots, Sole
  <1>2. Unloading'
    BY DEF Unloading, Shapes
  <1>3. Vacant'
    BY DEF Vacant, Creating, Shapes
  <1>4. Creation'
    BY DEF Creation, Creating, Shapes
  <1>5. Awaited'
    BY DEF Awaited, Shapes
  <1>6. Strays'
    BY DEF Strays, Creating, Shapes
  <1>7. Borrowed'
    BY DEF Borrowed, Shapes
  <1>8. Tally
    <2>1. \A ns \in Namespaces : Users(ns)' = Users(ns)
      BY Zenon DEF Users, Shapes
    <2> QED BY Zenon, <2>1 DEF Tally, Counts
  <1>9. Admission
    BY DEF Admission, Resident, Shapes
  <1> QED BY Zenon, <1>1, <1>2, <1>3, <1>4, <1>5, <1>6, <1>7, <1>8, <1>9

(* AdmitCreate refuses at one of its gates.                                *)
LEMMA RefuseStep ==
  ASSUME Shapes, Shapes', Ordered, Counted, NEW r \in Requests, NEW a \in Namespaces, arg[r] =
     a, AdmitCreate(r), ~AlreadyResident(a), ~Gates
  PROVE  Ordered' /\ Tally /\ Admission
  <1> USE DEF Ordered
  <1>e. /\ pc' = [pc EXCEPT ![r] = "remove"]
        /\ UNCHANGED <<config, row, present, bundle, refcount, pending, arg, held, open, orphans>>
    BY Zenon DEF AdmitCreate, At, Goto, slotVars, lockVars, reqVars
  <1>at. pc[r] = "admit"
    BY Zenon DEF AdmitCreate, At
  <1> USE <1>e, <1>at
  <1>1. (Slots /\ Sole)'
    BY Zenon DEF Slots, Sole
  <1>2. Unloading'
    BY Zenon DEF Unloading, Shapes
  <1>3. Vacant'
    BY DEF Vacant, Creating, Shapes
  <1>4. Creation'
    BY DEF Creation, Creating, Shapes
  <1>5. Awaited'
    BY Zenon DEF Awaited, Shapes
  <1>6. Strays'
    BY DEF Strays, Creating, Shapes
  <1>7. Borrowed'
    BY DEF Borrowed, Shapes
  <1>8. Tally
    <2>1. \A ns \in Namespaces : Users(ns)' = Users(ns)
      BY Zenon DEF Users, Shapes
    <2> QED BY Zenon, <2>1 DEF Tally, Counts
  <1>9. Admission
    BY Zenon DEF Admission, Resident, Shapes
  <1> QED BY Zenon, <1>1, <1>2, <1>3, <1>4, <1>5, <1>6, <1>7, <1>8, <1>9

(* AdmitCreate passes its gates and keeps the pool.                        *)
LEMMA AdmitStep ==
  ASSUME Shapes, Shapes', Ordered, Counted, NEW r \in Requests, NEW a \in Namespaces, arg[r] =
     a, AdmitCreate(r), ~AlreadyResident(a), Gates
  PROVE  Ordered' /\ Tally /\ Admission
  <1> USE DEF Ordered
  <1>e. /\ pc' = [pc EXCEPT ![r] = "lookup"]
        /\ UNCHANGED <<config, row, present, bundle, refcount, pending, arg, held, open, orphans>>
    BY Zenon DEF AdmitCreate, At, Goto, slotVars, lockVars, reqVars
  <1>at. pc[r] = "admit"
    BY Zenon DEF AdmitCreate, At
  <1> USE <1>e, <1>at
  <1>1. (Slots /\ Sole)'
    BY Zenon DEF Slots, Sole
  <1>2. Unloading'
    BY Zenon DEF Unloading, Shapes
  <1>3. Vacant'
    BY DEF Vacant, Creating, Shapes
  <1>4. Creation'
    BY DEF Creation, Creating, Shapes
  <1>5. Awaited'
    BY Zenon DEF Awaited, Shapes
  <1>6. Strays'
    BY DEF Strays, Creating, Shapes
  <1>7. Borrowed'
    BY DEF Borrowed, Shapes
  <1>8. Tally
    <2>1. \A ns \in Namespaces : Users(ns)' = Users(ns)
      BY Zenon DEF Users, Shapes
    <2> QED BY Zenon, <2>1 DEF Tally, Counts
  <1>9. Admission
    BY Zenon DEF Admission, Resident, Shapes
  <1> QED BY Zenon, <1>1, <1>2, <1>3, <1>4, <1>5, <1>6, <1>7, <1>8, <1>9

(* The load opens the stores of a namespace of which nothing is open.      *)
LEMMA AdmitLoadStep ==
  ASSUME Shapes, Shapes', Ordered, Counted, NEW r \in Requests, NEW a \in Namespaces, arg[r] =
     a, AdmitLoad(r)
  PROVE  Ordered' /\ Tally /\ Admission
  <1> USE DEF Ordered
  <1>e. /\ pc' = [pc EXCEPT ![r] = "install"]
        /\ held' = [held EXCEPT ![r] = <<a, made + 1>>]
        /\ open' = open \cup {<<a, made + 1>>}
        /\ UNCHANGED <<config, row, present, bundle, refcount, pending, arg, orphans>>
    BY Zenon DEF AdmitLoad, Load, At, Goto, slotVars, lockVars, reqVars
  <1>at. pc[r] = "lookup" /\ row[a] # "none"
    BY Zenon DEF AdmitLoad, Load, At
  <1>n. (\A b \in open : b[1] # a) /\ \A s \in Requests : s # r /\ pc[s] \in Creating => arg[s] # a
    BY <1>at DEF Creation, Creating
  <1> USE <1>e, <1>at, <1>n
  <1>1. Unloading'
    BY Zenon DEF Unloading, Shapes
  <1>2. Slots'
    BY Zenon DEF Slots, Shapes
  <1>3. Vacant'
    BY DEF Vacant, Creating, Shapes
  <1>4. Creation'
    BY DEF Creation, Creating, Shapes
  <1>5. Awaited'
    BY Zenon DEF Awaited, Shapes
  <1>6. Strays'
    BY DEF Strays, Creating, Shapes
  <1>7. Borrowed'
    BY DEF Borrowed, Shapes
  <1>8. Sole'
    BY DEF Sole, Shapes
  <1>9. Tally
    <2>1. \A ns \in Namespaces : Users(ns)' = Users(ns)
      BY Zenon DEF Users, Shapes
    <2> QED BY Zenon, <2>1 DEF Tally, Counts
  <1>10. Admission
    BY Zenon DEF Admission, Resident, Shapes
  <1> QED BY Zenon, <1>1, <1>2, <1>3, <1>4, <1>5, <1>6, <1>7, <1>8, <1>9, <1>10

(* The load fails.                                                         *)
LEMMA AdmitLoadFailsStep ==
  ASSUME Shapes, Shapes', Ordered, Counted, NEW r \in Requests, NEW a \in Namespaces, arg[r] =
     a, AdmitLoadFails(r)
  PROVE  Ordered' /\ Tally /\ Admission
  <1> USE DEF Ordered
  <1>e. /\ pc' = [pc EXCEPT ![r] = "remove"]
        /\ UNCHANGED <<config, row, present, bundle, refcount, pending, arg, held, open, orphans>>
    BY Zenon DEF AdmitLoadFails, At, Goto, slotVars, lockVars, reqVars
  <1>at. pc[r] = "lookup"
    BY Zenon DEF AdmitLoadFails, At
  <1> USE <1>e, <1>at
  <1>1. (Slots /\ Sole)'
    BY Zenon DEF Slots, Sole
  <1>2. Unloading'
    BY Zenon DEF Unloading, Shapes
  <1>3. Vacant'
    BY DEF Vacant, Creating, Shapes
  <1>4. Creation'
    BY DEF Creation, Creating, Shapes
  <1>5. Awaited'
    BY Zenon DEF Awaited, Shapes
  <1>6. Strays'
    BY DEF Strays, Creating, Shapes
  <1>7. Borrowed'
    BY DEF Borrowed, Shapes
  <1>8. Tally
    <2>1. \A ns \in Namespaces : Users(ns)' = Users(ns)
      BY Zenon DEF Users, Shapes
    <2> QED BY Zenon, <2>1 DEF Tally, Counts
  <1>9. Admission
    BY Zenon DEF Admission, Resident, Shapes
  <1> QED BY Zenon, <1>1, <1>2, <1>3, <1>4, <1>5, <1>6, <1>7, <1>8, <1>9

(* AdmitCreate installs what it loaded in an absent slot.                  *)
LEMMA InstallStep ==
  ASSUME Shapes, Shapes', Ordered, Counted, NEW r \in Requests, NEW a \in Namespaces, arg[r] =
     a, AdmitInstall(r), \A s \in Requests : s # r => pc[s] \notin {"lookup", "install"}
  PROVE  Ordered' /\ Tally /\ Admission
  <1> USE DEF Ordered
  <1>e. /\ pc' = [pc EXCEPT ![r] = "idle"]
        /\ arg' = [arg EXCEPT ![r] = None]
        /\ held' = [held EXCEPT ![r] = None]
        /\ present' = [present EXCEPT ![a] = TRUE]
        /\ bundle' = [bundle EXCEPT ![a] = held[r]]
        /\ refcount' = [refcount EXCEPT ![a] = 0]
        /\ pending' = [pending EXCEPT ![a] = FALSE]
        /\ open' = open
        /\ UNCHANGED <<config, row, orphans>>
    <2>1. pc[r] = "install"
      BY Zenon DEF AdmitInstall, At
    <2>2. bundle[a] = None /\ open \ {None} = open
      BY <2>1, ConfigAssumption DEF Slots, Creation, Creating, Shapes, Bundles
    <2> QED BY Zenon, <2>2 DEF AdmitInstall, At, Goto, slotVars, lockVars, reqVars, Return
  <1>at. pc[r] = "install"
    BY Zenon DEF AdmitInstall, At
  <1>h. ~present[a] /\ held[r] \in open /\ held[r][1] = a
    BY Zenon, <1>at DEF Creation, Creating
  <1>c. row[a] # "none" /\ \A s \in Requests : s # r /\ pc[s] \in Creating => arg[s] # a
    BY Zenon, <1>at DEF Vacant, Creation, Creating
  <1>o. \A b \in orphans : b[1] # a
    BY Zenon, <1>at DEF Strays, Creating
  <1> USE <1>e, <1>at, <1>h, <1>c, <1>o
  <1>1. Unloading'
    BY DEF Unloading, Shapes
  <1>2. Slots'
    BY DEF Slots, Shapes
  <1>3. Vacant'
    BY DEF Vacant, Creating, Shapes
  <1>4. Creation'
    BY DEF Creation, Creating, Shapes
  <1>5. Awaited'
    BY DEF Awaited, Shapes
  <1>6. Strays'
    BY DEF Strays, Creating, Shapes
  <1>7. Borrowed'
    BY DEF Borrowed, Shapes
  <1>8. Sole'
    BY Zenon DEF Sole, Shapes
  <1>9. Tally
    <2> SUFFICES ASSUME NEW ns \in Namespaces PROVE Counts(ns)
      BY Zenon DEF Tally
    <2>1. Users(ns)' = Users(ns) /\ (ns = a => Users(ns) = {})
      BY DEF Users, Borrowed, Shapes
    <2> QED BY <2>1 DEF Counts, Shapes
  <1>10. Admission
    <2>1. Resident' = Resident \cup {a} /\ a \notin Resident
      BY DEF Resident, Shapes
    <2>2. \A s \in Requests : pc'[s] \notin {"lookup", "install"}
      BY DEF Shapes
    <2> QED BY Zenon, <2>1, <2>2 DEF Admission
  <1> QED BY Zenon, <1>1, <1>2, <1>3, <1>4, <1>5, <1>6, <1>7, <1>8, <1>9, <1>10

(* A refused create takes its row back.                                    *)
LEMMA RemoveStep ==
  ASSUME Shapes, Shapes', Ordered, Counted, NEW r \in Requests, NEW a \in Namespaces, arg[r] =
     a, RemoveNamespaceCatalogRows(r)
  PROVE  Ordered' /\ Tally /\ Admission
  <1> USE DEF Ordered
  <1>e. /\ pc' = [pc EXCEPT ![r] = "idle"]
        /\ arg' = [arg EXCEPT ![r] = None]
        /\ held' = [held EXCEPT ![r] = None]
        /\ row' = [row EXCEPT ![a] = "none"]
        /\ UNCHANGED <<config, present, bundle, refcount, pending, open, orphans>>
    BY Zenon DEF RemoveNamespaceCatalogRows, At, Goto, slotVars, lockVars, reqVars, Return
  <1>at. pc[r] = "remove"
    BY Zenon DEF RemoveNamespaceCatalogRows, At
  <1>n. ~present[a] /\ (\A b \in open : b[1] # a) /\ \A s \in Requests : s # r /\ pc[s] \in Creating => arg[s] # a
    BY Zenon, <1>at DEF Creation, Creating
  <1> USE <1>e, <1>at, <1>n
  <1>1. (Slots /\ Sole)'
    BY Zenon DEF Slots, Sole
  <1>2. Unloading'
    BY DEF Unloading, Shapes
  <1>3. Vacant'
    BY DEF Vacant, Creating, Shapes
  <1>4. Creation'
    BY DEF Creation, Creating, Shapes
  <1>5. Awaited'
    BY Zenon DEF Awaited, Shapes
  <1>6. Strays'
    BY Zenon DEF Strays, Creating, Shapes
  <1>7. Borrowed'
    BY DEF Borrowed, Shapes
  <1>8. Tally
    <2>1. \A ns \in Namespaces : Users(ns)' = Users(ns)
      BY Zenon DEF Users, Shapes
    <2> QED BY Zenon, <2>1 DEF Tally, Counts
  <1>9. Admission
    BY DEF Admission, Resident, Shapes
  <1> QED BY Zenon, <1>1, <1>2, <1>3, <1>4, <1>5, <1>6, <1>7, <1>8, <1>9

(* DeleteNamespace marks the row.                                          *)
LEMMA SoftDeleteStep ==
  ASSUME Shapes, Shapes', Ordered, Counted, NEW r \in Requests, NEW a \in Namespaces, arg[r] =
     a, SoftDelete(r), row[a] = "active"
  PROVE  Ordered' /\ Tally /\ Admission
  <1> USE DEF Ordered
  <1>e. /\ row' = [row EXCEPT ![a] = "deleted"]
        /\ pc' = [pc EXCEPT ![r] = "evict"]
        /\ UNCHANGED <<config, present, bundle, refcount, pending, arg, held, open, orphans>>
    BY Zenon DEF SoftDelete, At, Goto, slotVars, lockVars, reqVars
  <1>at. pc[r] = "softdelete"
    BY Zenon DEF SoftDelete, At
  <1> USE <1>e, <1>at
  <1>1. (Slots /\ Sole)'
    BY Zenon DEF Slots, Sole
  <1>2. Unloading'
    BY DEF Unloading, Shapes
  <1>3. Vacant'
    BY DEF Vacant, Creating, Shapes
  <1>4. Creation'
    BY DEF Creation, Creating, Shapes
  <1>5. Awaited'
    BY Zenon DEF Awaited, Shapes
  <1>6. Strays'
    BY DEF Strays, Creating, Shapes
  <1>7. Borrowed'
    BY DEF Borrowed, Shapes
  <1>8. Tally
    <2>1. \A ns \in Namespaces : Users(ns)' = Users(ns)
      BY Zenon DEF Users, Shapes
    <2> QED BY Zenon, <2>1 DEF Tally, Counts
  <1>9. Admission
    BY DEF Admission, Resident, Shapes
  <1> QED BY Zenon, <1>1, <1>2, <1>3, <1>4, <1>5, <1>6, <1>7, <1>8, <1>9

(* EvictForDelete leaves a slot in use to its last user.                   *)
LEMMA PendingStep ==
  ASSUME Shapes, Shapes', Ordered, Counted, NEW r \in Requests, NEW a \in Namespaces, arg[r] =
     a, EvictForDelete(r), present[a], refcount[a] > 0
  PROVE  Ordered' /\ Tally /\ Admission
  <1> USE DEF Ordered
  <1>e. /\ pc' = [pc EXCEPT ![r] = "idle"]
        /\ arg' = [arg EXCEPT ![r] = None]
        /\ held' = [held EXCEPT ![r] = None]
        /\ pending' = [pending EXCEPT ![a] = TRUE]
        /\ UNCHANGED <<config, row, present, bundle, refcount, open, orphans>>
    <2>1. ~(refcount[a] <= 0)
      BY DEF Shapes
    <2> QED BY Zenon, <2>1 DEF EvictForDelete, At, Goto, slotVars, lockVars, reqVars, Return
  <1>at. pc[r] = "evict"
    BY Zenon DEF EvictForDelete, At
  <1> USE <1>e, <1>at
  <1>1. Sole'
    BY Zenon DEF Sole
  <1>2. Unloading'
    BY DEF Unloading, Shapes
  <1>3. Slots'
    BY DEF Slots, Shapes
  <1>4. Vacant'
    BY DEF Vacant, Creating, Shapes
  <1>5. Creation'
    BY DEF Creation, Creating, Shapes
  <1>6. Awaited'
    BY DEF Awaited, Shapes
  <1>7. Strays'
    BY DEF Strays, Creating, Shapes
  <1>8. Borrowed'
    BY DEF Borrowed, Shapes
  <1>9. Tally
    <2>1. \A ns \in Namespaces : Users(ns)' = Users(ns)
      BY Zenon DEF Users, Shapes
    <2> QED BY Zenon, <2>1 DEF Tally, Counts
  <1>10. Admission
    BY DEF Admission, Resident, Shapes
  <1> QED BY Zenon, <1>1, <1>2, <1>3, <1>4, <1>5, <1>6, <1>7, <1>8, <1>9, <1>10

(* A request borrows a resident bundle.                                    *)
LEMMA AcquireStep ==
  ASSUME Shapes, Shapes', Ordered, Counted, NEW r \in Requests, NEW a \in Namespaces, arg[r] =
     a, Acquire(r), Acquirable(a)
  PROVE  Ordered' /\ Tally /\ Admission
  <1> USE DEF Ordered
  <1>e. /\ pc' = [pc EXCEPT ![r] = "using"]
        /\ held' = [held EXCEPT ![r] = bundle[a]]
        /\ refcount' = [refcount EXCEPT ![a] = refcount[a] + 1]
        /\ UNCHANGED <<config, row, present, bundle, pending, arg, open, orphans>>
    BY Zenon DEF Acquire, At, Goto, slotVars, lockVars, reqVars
  <1>at. pc[r] = "acquire" /\ present[a] /\ ~pending[a] /\ bundle[a] \in open
    BY Zenon DEF Acquire, Acquirable, At, Slots
  <1> USE <1>e, <1>at
  <1>1. (Slots /\ Sole)'
    BY Zenon DEF Slots, Sole
  <1>2. Unloading'
    BY DEF Unloading, Shapes
  <1>3. Vacant'
    BY DEF Vacant, Creating, Shapes
  <1>4. Creation'
    BY DEF Creation, Creating, Shapes
  <1>5. Awaited'
    BY DEF Awaited, Shapes
  <1>6. Strays'
    BY DEF Strays, Creating, Shapes
  <1>7. Borrowed'
    BY DEF Borrowed, Shapes
  <1>8. Tally
    <2> SUFFICES ASSUME NEW ns \in Namespaces PROVE Counts(ns)
      BY Zenon DEF Tally
    <2>1. CASE ns = a
      <3>1. Users(ns)' = Users(ns) \cup {r} /\ r \notin Users(ns)
        BY <2>1 DEF Users, Shapes
      <3>2. refcount'[ns] = refcount[ns] + 1
        BY Zenon, <2>1 DEF Shapes
      <3> QED BY Zenon, <3>1, <3>2 DEF Counts
    <2>2. CASE ns # a
      <3>1. Users(ns)' = Users(ns)
        BY Zenon, <2>2 DEF Users, Shapes
      <3>2. refcount'[ns] = refcount[ns]
        BY Zenon, <2>2 DEF Shapes
      <3> QED BY Zenon, <3>1, <3>2 DEF Counts
    <2> QED BY Zenon, <2>1, <2>2
  <1>9. Admission
    BY DEF Admission, Resident, Shapes
  <1> QED BY Zenon, <1>1, <1>2, <1>3, <1>4, <1>5, <1>6, <1>7, <1>8, <1>9

(* The last user of a pending slot releases it and goes on to reap.        *)
LEMMA ReleaseLastStep ==
  ASSUME Shapes, Shapes', Ordered, Counted, NEW r \in Requests, NEW a \in Namespaces, arg[r] =
     a, Release(r), present[a], LastOfPending(a)
  PROVE  Ordered' /\ Tally /\ Admission
  <1> USE DEF Ordered
  <1>e. /\ pc' = [pc EXCEPT ![r] = "reap"]
        /\ held' = [held EXCEPT ![r] = None]
        /\ refcount' = [refcount EXCEPT ![a] = refcount[a] - 1]
        /\ UNCHANGED <<config, row, present, bundle, pending, arg, open, orphans>>
    BY Zenon DEF Release, At, Goto, slotVars, lockVars, reqVars
  <1>at. pc[r] = "using" /\ present[a] /\ refcount[a] > 0 /\ r \in Users(a)
    <2>1. pc[r] = "using" /\ present[a] /\ r \in Users(a)
      BY Zenon DEF Release, At, Borrowed, Users
    <2> QED BY <2>1 DEF Counted, Shapes
  <1> USE <1>e, <1>at
  <1>1. (Slots /\ Sole)'
    BY Zenon DEF Slots, Sole
  <1>2. Unloading'
    BY DEF Unloading, Shapes
  <1>3. Vacant'
    BY DEF Vacant, Creating, Shapes
  <1>4. Creation'
    BY DEF Creation, Creating, Shapes
  <1>5. Awaited'
    BY DEF Awaited, Shapes
  <1>6. Strays'
    BY DEF Strays, Creating, Shapes
  <1>7. Borrowed'
    BY DEF Borrowed, Shapes
  <1>8. Tally
    <2> SUFFICES ASSUME NEW ns \in Namespaces PROVE Counts(ns)
      BY Zenon DEF Tally
    <2>1. CASE ns = a
      <3>1. Users(ns)' = Users(ns) \ {r} /\ r \in Users(ns)
        BY Zenon, <2>1 DEF Users, Shapes
      <3>2. refcount'[ns] = refcount[ns] - 1
        BY Zenon, <2>1 DEF Shapes
      <3> QED BY Zenon, <3>1, <3>2 DEF Counts
    <2>2. CASE ns # a
      <3>1. Users(ns)' = Users(ns)
        BY Zenon, <2>2 DEF Users, Shapes
      <3>2. refcount'[ns] = refcount[ns]
        BY Zenon, <2>2 DEF Shapes
      <3> QED BY Zenon, <3>1, <3>2 DEF Counts
    <2> QED BY Zenon, <2>1, <2>2
  <1>9. Admission
    BY DEF Admission, Resident, Shapes
  <1> QED BY Zenon, <1>1, <1>2, <1>3, <1>4, <1>5, <1>6, <1>7, <1>8, <1>9

(* Any other user releases its bundle.                                     *)
LEMMA ReleaseStep ==
  ASSUME Shapes, Shapes', Ordered, Counted, NEW r \in Requests, NEW a \in Namespaces, arg[r] =
     a, Release(r), present[a], ~LastOfPending(a)
  PROVE  Ordered' /\ Tally /\ Admission
  <1> USE DEF Ordered
  <1>e. /\ pc' = [pc EXCEPT ![r] = "idle"]
        /\ arg' = [arg EXCEPT ![r] = None]
        /\ held' = [held EXCEPT ![r] = None]
        /\ refcount' = [refcount EXCEPT ![a] = refcount[a] - 1]
        /\ UNCHANGED <<config, row, present, bundle, pending, open, orphans>>
    BY Zenon DEF Release, At, Goto, slotVars, lockVars, reqVars, Return
  <1>at. pc[r] = "using" /\ present[a] /\ refcount[a] > 0 /\ r \in Users(a)
    <2>1. pc[r] = "using" /\ present[a] /\ r \in Users(a)
      BY Zenon DEF Release, At, Borrowed, Users
    <2> QED BY <2>1 DEF Counted, Shapes
  <1> USE <1>e, <1>at
  <1>1. (Slots /\ Sole)'
    BY Zenon DEF Slots, Sole
  <1>2. Unloading'
    BY DEF Unloading, Shapes
  <1>3. Vacant'
    BY DEF Vacant, Creating, Shapes
  <1>4. Creation'
    BY DEF Creation, Creating, Shapes
  <1>5. Awaited'
    <2>1. pending[a] => refcount[a] - 1 > 0
      BY DEF LastOfPending, Shapes
    <2> QED BY <2>1 DEF Awaited, Shapes
  <1>6. Strays'
    BY DEF Strays, Creating, Shapes
  <1>7. Borrowed'
    BY DEF Borrowed, Shapes
  <1>8. Tally
    <2> SUFFICES ASSUME NEW ns \in Namespaces PROVE Counts(ns)
      BY Zenon DEF Tally
    <2>1. CASE ns = a
      <3>1. Users(ns)' = Users(ns) \ {r} /\ r \in Users(ns)
        BY Zenon, <2>1 DEF Users, Shapes
      <3>2. refcount'[ns] = refcount[ns] - 1
        BY Zenon, <2>1 DEF Shapes
      <3> QED BY Zenon, <3>1, <3>2 DEF Counts
    <2>2. CASE ns # a
      <3>1. Users(ns)' = Users(ns)
        BY Zenon, <2>2 DEF Users, Shapes
      <3>2. refcount'[ns] = refcount[ns]
        BY Zenon, <2>2 DEF Shapes
      <3> QED BY Zenon, <3>1, <3>2 DEF Counts
    <2> QED BY Zenon, <2>1, <2>2
  <1>9. Admission
    BY DEF Admission, Resident, Shapes
  <1> QED BY Zenon, <1>1, <1>2, <1>3, <1>4, <1>5, <1>6, <1>7, <1>8, <1>9

(* The last user comes back and finds nothing to reap.                     *)
LEMMA ReapNothingStep ==
  ASSUME Shapes, Shapes', Ordered, Counted, NEW r \in Requests, NEW a \in Namespaces, arg[r] =
     a, Reap(r), ~(present[a] /\ pending[a] /\ refcount[a] = 0)
  PROVE  Ordered' /\ Tally /\ Admission
  <1> USE DEF Ordered
  <1>e. /\ pc' = [pc EXCEPT ![r] = "idle"]
        /\ arg' = [arg EXCEPT ![r] = None]
        /\ held' = [held EXCEPT ![r] = None]
        /\ UNCHANGED <<config, row, present, bundle, refcount, pending, open, orphans>>
    BY Zenon DEF Reap, Erase, At, Goto, slotVars, lockVars, reqVars, Return
  <1>at. pc[r] = "reap" /\ (pending[a] => refcount[a] > 0)
    <2>1. pc[r] = "reap" /\ refcount[a] \in Int /\ refcount[a] >= 0
      BY Zenon DEF Reap, At, Counted, Shapes
    <2> QED BY <2>1 DEF Slots
  <1> USE <1>e, <1>at
  <1>1. (Slots /\ Sole)'
    BY Zenon DEF Slots, Sole
  <1>2. Unloading'
    BY Zenon DEF Unloading, Shapes
  <1>3. Vacant'
    BY DEF Vacant, Creating, Shapes
  <1>4. Creation'
    BY DEF Creation, Creating, Shapes
  <1>5. Awaited'
    BY DEF Awaited, Shapes
  <1>6. Strays'
    BY DEF Strays, Creating, Shapes
  <1>7. Borrowed'
    BY DEF Borrowed, Shapes
  <1>8. Tally
    <2>1. \A ns \in Namespaces : Users(ns)' = Users(ns)
      BY Zenon DEF Users, Shapes
    <2> QED BY Zenon, <2>1 DEF Tally, Counts
  <1>9. Admission
    BY Zenon DEF Admission, Resident, Shapes
  <1> QED BY Zenon, <1>1, <1>2, <1>3, <1>4, <1>5, <1>6, <1>7, <1>8, <1>9

(* Every step of a request but those of a reload, which never happens here. *)
LEMMA WorkStep ==
  ASSUME TypeOK, TypeOK', Ordered, Counted, NEW r \in Requests, Work(r)
  PROVE  Ordered' /\ Tally /\ Admission
  <1>0. Shapes /\ Shapes' /\ Busy /\ None \notin Requests
    BY Zenon, ConfigAssumption DEF TypeOK, Shapes, Busy
  <1>1. PICK a \in Namespaces : arg[r] = a
    BY Zenon DEF TypeOK, Work, At, InsertNamespaceCatalog, AdmitCreate, AdmitLoad, AdmitLoadFails,
       AdmitInstall, RemoveNamespaceCatalogRows, SoftDelete, EvictForDelete, Acquire, Release,
       Reap, ReloadLoad, ReloadFails, ReloadReplace
  <1>2. pool = None => \A s \in Requests : pc[s] \notin {"lookup", "install"}
    BY <1>0 DEF TypeOK
  <1>3. pc[r] = "install" => \A s \in Requests : s # r => pc[s] \notin {"lookup", "install"}
    BY Zenon DEF TypeOK
  <1> USE <1>0, <1>1 DEF At, Left, LeftErased, slotVars
  <1>4. CASE InsertNamespaceCatalog(r)
    BY Zenon, <1>4, LeavesStep, InsertStep DEF InsertNamespaceCatalog
  <1>5. CASE AdmitCreate(r)
    BY Zenon, <1>5, LeavesStep, RefuseStep, AdmitStep DEF AdmitCreate
  <1>6. CASE SoftDelete(r)
    BY Zenon, <1>6, LeavesStep, SoftDeleteStep DEF SoftDelete
  <1>7. CASE EvictForDelete(r)
    <2>1. CASE ~present[a]
      BY Zenon, <1>7, <2>1, LeavesStep DEF EvictForDelete
    <2>2. CASE present[a] /\ refcount[a] > 0
      BY Zenon, <1>7, <2>2, PendingStep
    <2>3. CASE present[a] /\ ~(refcount[a] > 0)
      <3>1. Users(a) = {}
        BY <2>3 DEF Counted, Shapes
      <3>2. LeftErased(r) /\ pc[r] = "evict" /\ pool = None
        BY Zenon, <1>7, <2>3 DEF EvictForDelete
      <3> QED BY Zenon, <1>2, <2>3, <3>1, <3>2, EraseStep
    <2> QED BY Zenon, <2>1, <2>2, <2>3
  <1>8. CASE Acquire(r)
    BY Zenon, <1>8, LeavesStep, AcquireStep DEF Acquire
  <1>9. CASE Release(r)
    <2>1. present[a]
      BY Zenon, <1>9 DEF Release, Ordered, Borrowed
    <2> QED BY Zenon, <1>9, <2>1, ReleaseStep, ReleaseLastStep
  <1>10. CASE Reap(r)
    <2>1. CASE present[a] /\ pending[a] /\ refcount[a] = 0
      <3>1. Users(a) = {}
        BY Zenon, <2>1 DEF Counted
      <3>2. LeftErased(r) /\ pc[r] = "reap" /\ pool = None
        BY Zenon, <1>10, <2>1 DEF Reap
      <3> QED BY Zenon, <1>2, <2>1, <3>1, <3>2, EraseStep
    <2> QED BY Zenon, <1>10, <2>1, ReapNothingStep
  <1>11. CASE AdmitInstall(r)
    BY Zenon, <1>3, <1>11, InstallStep DEF AdmitInstall
  <1>12. CASE ReloadLoad(r) \/ ReloadFails(r) \/ ReloadReplace(r)
    BY Zenon, <1>12 DEF ReloadLoad, ReloadFails, ReloadReplace, Ordered, Unloading
  <1> QED BY Zenon, <1>4, <1>5, <1>6, <1>7, <1>8, <1>9, <1>10, <1>11, <1>12, AdmitLoadStep,
             AdmitLoadFailsStep, RemoveStep DEF Work

(* A request starts: its name and its label are all that change. *)
LEMMA StartStep ==
  ASSUME Shapes, Shapes', Ordered, NEW r \in Requests, NEW ns \in Namespaces, NEW k,
         NEW label \in {"insert", "softdelete", "acquire"}, Start(r, k, label, ns)
  PROVE  Ordered' /\ Tally /\ Admission
  <1> USE DEF Ordered
  <1>e. /\ pc[r] = "idle" /\ pc' = [pc EXCEPT ![r] = label] /\ arg' = [arg EXCEPT ![r] = ns]
        /\ UNCHANGED <<config, row, present, bundle, refcount, pending, held, open, orphans>>
    BY Zenon DEF Start, At, Goto, slotVars
  <1>1. (Slots /\ Sole)'
    BY Zenon, <1>e DEF Slots, Sole
  <1>2. Unloading'
    BY Zenon, <1>e DEF Unloading, Shapes
  <1>3. Vacant'
    BY <1>e DEF Vacant, Creating, Shapes
  <1>4. Creation'
    <2>1. \A s \in Requests : pc'[s] \in Creating => /\ pc[s] \in Creating /\ pc'[s] = pc[s]
                                                   /\ arg'[s] = arg[s]
      BY Zenon, <1>e DEF Creating, Shapes
    <2>2. \A s \in Requests : pc'[s] = "install" => pc[s] = "install" /\ arg'[s] = arg[s]
      BY Zenon, <1>e DEF Shapes
    <2> QED BY <1>e, <2>1, <2>2 DEF Creation
  <1>5. Awaited'
    BY Zenon, <1>e DEF Awaited, Shapes
  <1>6. Strays'
    BY <1>e DEF Strays, Creating, Shapes
  <1>7. Borrowed'
    BY <1>e DEF Borrowed, Shapes
  <1>8. Tally
    <2>1. \A n \in Namespaces : Users(n)' = Users(n)
      BY Zenon, <1>e DEF Users, Shapes
    <2> QED BY Zenon, <1>e, <2>1 DEF Tally, Counts
  <1>9. Admission
    BY Zenon, <1>e DEF Admission, Resident, Shapes
  <1> QED BY Zenon, <1>1, <1>2, <1>3, <1>4, <1>5, <1>6, <1>7, <1>8, <1>9

(* A startup load that timed out closes what it opened. *)
LEMMA OrphanStep ==
  ASSUME Shapes, Shapes', Busy, Ordered, NEW b \in orphans, OrphanEnds(b)
  PROVE  Ordered' /\ Tally /\ Admission
  <1> USE DEF Ordered
  <1>e. /\ orphans' = orphans \ {b} /\ open' = open \ {b}
        /\ UNCHANGED <<config, row, present, bundle, refcount, pending, pc, arg, held>>
    BY Zenon DEF OrphanEnds, slotVars, reqVars
  <1>b. b \in open /\ ~present[b[1]] /\ \A r \in Requests : pc[r] \in Creating => arg[r] # b[1]
    BY Zenon DEF Strays
  <1>1. (Unloading /\ Awaited)' /\ Tally /\ Admission
    BY Zenon, <1>e DEF Unloading, Awaited, Tally, Counts, Users, Admission, Resident
  <1>2. Slots'
    BY <1>e, <1>b DEF Slots
  <1>3. (Vacant /\ Strays /\ Sole)'
    BY Zenon, <1>e DEF Vacant, Strays, Creating, Sole
  <1>4. Creation'
    BY <1>e, <1>b DEF Creation, Creating
  <1>5. Borrowed'
    <2>1. \A r \in Requests : pc[r] = "using" => held[r] # b
      <3>1. \A r \in Requests : pc[r] = "using" => arg[r] \in Namespaces
        BY Zenon DEF Shapes, Borrowed, Busy
      <3> QED BY <1>b, <3>1 DEF Borrowed, Slots
    <2> QED BY Zenon, <1>e, <2>1 DEF Borrowed
  <1> QED BY Zenon, <1>1, <1>2, <1>3, <1>4, <1>5
=============================================================================
