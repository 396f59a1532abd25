---------------------------- MODULE NamespacePool ---------------------------
(***************************************************************************)
(* The namespace life cycle: DefaultINSRouter (the catalog rows, under     *)
(* mu_) and DefaultNamespacePool (the resident resource bundles, under     *)
(* pool_mutex_), driven by concurrent requests that create, delete, reload *)
(* and use namespaces.                                                     *)
(*                                                                         *)
(* A bundle is one opening of the index, WAL, WriteCoordinator and         *)
(* store.db of a namespace's unit directory: the pair <<namespace, n>>.    *)
(* Both locks are explicit where a request keeps one while it waits for    *)
(* the other; a critical section that waits for nothing is one step.       *)
(***************************************************************************)
EXTENDS Integers, FiniteSets

CONSTANTS Requests,    \* request threads
          Namespaces,
          None,
          Configs      \* workloads: see ConfigAssumption

Kinds == {"create", "delete", "reload", "use", "loadfail"}

ASSUME ConfigAssumption ==
    /\ None \notin Requests \cup Namespaces \cup (Namespaces \X Nat)
    /\ IsFiniteSet(Requests)
    /\ \A c \in Configs :
        /\ c.names \subseteq Namespaces   \* the names requests use
        /\ c.catalog \subseteq Namespaces \* active rows when the server starts
        /\ IsFiniteSet(c.catalog)
        /\ c.max_namespaces \in Nat       \* max_namespaces_per_instance
        /\ c.budget \in Nat               \* memory budget in bundles, 0 = off
        /\ c.max \in [Kinds -> Nat]       \* how often each request is made

VARIABLES config,
          row,       \* the catalog: "none", "active" or "deleted"
          present,   \* bundles_ has a slot for the namespace
          bundle,    \* slot.bundle
          refcount,  \* slot.refcount
          pending,   \* slot.pending_delete
          mu,        \* who keeps DefaultINSRouter::mu_
          pool,      \* who keeps pool_mutex_ exclusively
          pc,        \* where each request is
          arg,       \* the namespace it is about
          held,      \* the bundle it loads or has borrowed
          open,      \* bundles that exist
          orphans,   \* those of timed-out startup loads still running
          made,      \* bundles opened so far
          count      \* requests made so far, by kind

slotVars == <<present, bundle, refcount, pending>>
lockVars == <<mu, pool>>
reqVars == <<pc, arg, held>>
vars == <<config, row, slotVars, lockVars, reqVars, open, orphans, made, count>>

Resident == {ns \in Namespaces : present[ns]}

Count(k) == /\ count[k] < config.max[k]
            /\ count' = [count EXCEPT ![k] = @ + 1]

Goto(r, label) == pc' = [pc EXCEPT ![r] = label]
At(r, label) == pc[r] = label

(* The request returns. *)
Return(r) == /\ Goto(r, "idle")
             /\ arg' = [arg EXCEPT ![r] = None]
             /\ held' = [held EXCEPT ![r] = None]

Start(r, kind, label, ns) ==
    /\ At(r, "idle") /\ Count(kind)
    /\ Goto(r, label)
    /\ arg' = [arg EXCEPT ![r] = ns]
    /\ UNCHANGED <<config, row, slotVars, lockVars, held, open, orphans, made>>

----------------------------------------------------------------------------
(* CreateNamespace: the row first, then the pool, the row removed again    *)
(* when the pool refuses.                                                  *)

CreateNamespace(r, ns) == Start(r, "create", "insert", ns)

InsertOverDeleted(r) ==
    /\ At(r, "insert") /\ mu = None
    /\ \/ /\ row[arg[r]] # "active"
          /\ row' = [row EXCEPT ![arg[r]] = "active"]
          /\ Goto(r, "admit") /\ UNCHANGED <<arg, held>>
       \/ /\ row[arg[r]] = "active"
          /\ Return(r) /\ UNCHANGED row
    /\ UNCHANGED <<config, slotVars, lockVars, open, orphans, made, count>>

InsertNamespaceCatalog(r) ==
    /\ At(r, "insert") /\ mu = None
    /\ \/ /\ row[arg[r]] = "none"
          /\ row' = [row EXCEPT ![arg[r]] = "active"]
          /\ Goto(r, "admit") /\ UNCHANGED <<arg, held>>
       \/ /\ row[arg[r]] # "none"             \* CX_ERR_NS_ALREADY_EXISTS
          /\ Return(r) /\ UNCHANGED row
    /\ UNCHANGED <<config, slotVars, lockVars, open, orphans, made, count>>

AlreadyResident(ns) == present[ns] /\ ~ pending[ns]

(* Gate 1 and gate 2 of AdmitCreate (estimated_size_bytes is always 0). *)
GatesOffByOne == Cardinality(Resident) <= config.max_namespaces

Gates == /\ Cardinality(Resident) + 1 <= config.max_namespaces
         /\ config.budget > 0 => Cardinality(Resident) <= config.budget

(* AdmitCreate takes the pool exclusively and keeps it while it loads. *)
AdmitCreateRetries(r) ==
    /\ At(r, "admit") /\ pool = None
    /\ \/ /\ AlreadyResident(arg[r])
          /\ Return(r) /\ UNCHANGED pool
       \/ /\ ~ AlreadyResident(arg[r]) /\ Gates
          /\ pool' = r
          /\ Goto(r, "lookup") /\ UNCHANGED <<arg, held>>
    /\ UNCHANGED <<config, row, slotVars, mu, open, orphans, made, count>>

AdmitCreate(r) ==
    /\ At(r, "admit") /\ pool = None
    /\ \/ /\ AlreadyResident(arg[r])
          /\ Return(r) /\ UNCHANGED pool
       \/ /\ ~ AlreadyResident(arg[r]) /\ ~ Gates
          /\ Goto(r, "remove") /\ UNCHANGED <<arg, held, pool>>
       \/ /\ ~ AlreadyResident(arg[r]) /\ Gates
          /\ pool' = r
          /\ Goto(r, "lookup") /\ UNCHANGED <<arg, held>>
    /\ UNCHANGED <<config, row, slotVars, mu, open, orphans, made, count>>

(* LoadOneNamespaceInner: GetActiveUnit needs mu_ and finds the unit of    *)
(* any row, deleted or not; then the stores are opened.                    *)
Load(r, next) ==
    /\ mu = None /\ row[arg[r]] # "none"
    /\ made' = made + 1
    /\ held' = [held EXCEPT ![r] = <<arg[r], made + 1>>]
    /\ open' = open \cup {<<arg[r], made + 1>>}
    /\ Goto(r, next)
    /\ UNCHANGED <<config, row, slotVars, lockVars, arg, orphans, count>>

AdmitLoad(r) == At(r, "lookup") /\ Load(r, "install")

AdmitLoadFails(r) ==
    /\ At(r, "lookup") /\ mu = None /\ Count("loadfail")
    /\ Goto(r, "remove") /\ pool' = None
    /\ UNCHANGED <<config, row, slotVars, mu, arg, held, open, orphans, made>>

(* The slot is created or, when its delete is pending, taken over. *)
AdmitInstall(r) ==
    /\ At(r, "install")
    /\ present' = [present EXCEPT ![arg[r]] = TRUE]
    /\ bundle' = [bundle EXCEPT ![arg[r]] = held[r]]
    /\ refcount' = [refcount EXCEPT ![arg[r]] = 0]
    /\ pending' = [pending EXCEPT ![arg[r]] = FALSE]
    /\ open' = open \ {bundle[arg[r]]}
    /\ pool' = None
    /\ Return(r)
    /\ UNCHANGED <<config, row, mu, orphans, made, count>>

RemoveNamespaceCatalogRows(r) ==
    /\ At(r, "remove") /\ mu = None
    /\ row' = [row EXCEPT ![arg[r]] = "none"]
    /\ Return(r)
    /\ UNCHANGED <<config, slotVars, lockVars, open, orphans, made, count>>

----------------------------------------------------------------------------
(* DeleteNamespace keeps mu_ while EvictForDelete takes the pool.          *)

DeleteNamespace(r, ns) == Start(r, "delete", "softdelete", ns)

SoftDeleteUnlocks(r) ==
    /\ At(r, "softdelete") /\ mu = None
    /\ \/ /\ row[arg[r]] = "active"
          /\ row' = [row EXCEPT ![arg[r]] = "deleted"]
          /\ Goto(r, "evict") /\ UNCHANGED <<arg, held>>
       \/ /\ row[arg[r]] # "active"
          /\ Return(r) /\ UNCHANGED row
    /\ UNCHANGED <<config, slotVars, lockVars, open, orphans, made, count>>

SoftDelete(r) ==
    /\ At(r, "softdelete") /\ mu = None
    /\ \/ /\ row[arg[r]] = "active"
          /\ row' = [row EXCEPT ![arg[r]] = "deleted"]
          /\ mu' = r
          /\ Goto(r, "evict") /\ UNCHANGED <<arg, held>>
       \/ /\ row[arg[r]] # "active"           \* CX_ERR_NS_NOT_FOUND
          /\ Return(r) /\ UNCHANGED <<row, mu>>
    /\ UNCHANGED <<config, slotVars, pool, open, orphans, made, count>>

(* bundles_.erase: the bundle's stores are closed. *)
Erase(ns) ==
    /\ present' = [present EXCEPT ![ns] = FALSE]
    /\ bundle' = [bundle EXCEPT ![ns] = None]
    /\ refcount' = [refcount EXCEPT ![ns] = 0]
    /\ pending' = [pending EXCEPT ![ns] = FALSE]
    /\ open' = open \ {bundle[ns]}

EvictNow(r) ==
    /\ At(r, "evict") /\ pool = None
    /\ Erase(arg[r])
    /\ mu' = None
    /\ Return(r)
    /\ UNCHANGED <<config, row, pool, orphans, made, count>>

EvictForDelete(r) ==
    /\ At(r, "evict") /\ pool = None
    /\ \/ /\ ~ present[arg[r]]
          /\ UNCHANGED <<slotVars, open>>
       \/ /\ present[arg[r]] /\ refcount[arg[r]] > 0
          /\ pending' = [pending EXCEPT ![arg[r]] = TRUE]
          /\ UNCHANGED <<present, bundle, refcount, open>>
       \/ /\ present[arg[r]] /\ refcount[arg[r]] <= 0
          /\ Erase(arg[r])
    /\ mu' = None
    /\ Return(r)
    /\ UNCHANGED <<config, row, pool, orphans, made, count>>

----------------------------------------------------------------------------
(* A request that uses a namespace: the NamespaceFacade acquires the       *)
(* bundle and its destructor releases it.                                  *)

UseNamespace(r, ns) == Start(r, "use", "acquire", ns)

Acquirable(ns) == present[ns] /\ ~ pending[ns]

AcquireCountsRefused(r) ==
    /\ At(r, "acquire") /\ pool = None
    /\ refcount' = [refcount EXCEPT ![arg[r]] = @ + (IF present[arg[r]] THEN 1
                                                                      ELSE 0)]
    /\ \/ /\ Acquirable(arg[r])
          /\ held' = [held EXCEPT ![r] = bundle[arg[r]]]
          /\ Goto(r, "using") /\ UNCHANGED arg
       \/ ~ Acquirable(arg[r]) /\ Return(r)
    /\ UNCHANGED <<config, row, present, bundle, pending, lockVars, open,
                   orphans, made, count>>

Acquire(r) ==
    /\ At(r, "acquire") /\ pool = None
    /\ \/ /\ Acquirable(arg[r])
          /\ refcount' = [refcount EXCEPT ![arg[r]] = @ + 1]
          /\ held' = [held EXCEPT ![r] = bundle[arg[r]]]
          /\ Goto(r, "using") /\ UNCHANGED arg
       \/ /\ ~ Acquirable(arg[r])             \* CX_ERR_NS_NOT_FOUND
          /\ Return(r) /\ UNCHANGED refcount
    /\ UNCHANGED <<config, row, present, bundle, pending, lockVars, open,
                   orphans, made, count>>

LastIsZero(ns) == refcount[ns] = 0 /\ pending[ns]

LastOfPending(ns) == refcount[ns] = 1 /\ pending[ns]

(* Release, under the shared lock: drop the reference. *)
Release(r) ==
    /\ At(r, "using") /\ pool = None
    /\ \/ /\ ~ present[arg[r]]
          /\ Return(r) /\ UNCHANGED refcount
       \/ /\ present[arg[r]]
          /\ refcount' = [refcount EXCEPT ![arg[r]] = @ - 1]
          /\ \/ /\ LastOfPending(arg[r])
                /\ Goto(r, "reap") /\ held' = [held EXCEPT ![r] = None]
                /\ UNCHANGED arg
             \/ ~ LastOfPending(arg[r]) /\ Return(r)
    /\ UNCHANGED <<config, row, present, bundle, pending, lockVars, open,
                   orphans, made, count>>

(* The last reader comes back with the exclusive lock and looks again. *)
Reap(r) ==
    /\ At(r, "reap") /\ pool = None
    /\ \/ /\ present[arg[r]] /\ pending[arg[r]] /\ refcount[arg[r]] = 0
          /\ Erase(arg[r])
       \/ /\ ~ (present[arg[r]] /\ pending[arg[r]] /\ refcount[arg[r]] = 0)
          /\ UNCHANGED <<slotVars, open>>
    /\ Return(r)
    /\ UNCHANGED <<config, row, lockVars, orphans, made, count>>

----------------------------------------------------------------------------
(* ReloadNamespace loads without the pool's lock and then replaces the     *)
(* slot's bundle, whatever the slot holds.                                 *)

ReloadNamespace(r, ns) == Start(r, "reload", "reload", ns)

ReloadLoad(r) == At(r, "reload") /\ Load(r, "replace")

ReloadFails(r) ==
    /\ At(r, "reload") /\ mu = None
    /\ \/ row[arg[r]] = "none" /\ UNCHANGED count
       \/ row[arg[r]] # "none" /\ Count("loadfail")
    /\ Return(r)
    /\ UNCHANGED <<config, row, slotVars, lockVars, open, orphans, made>>

ReloadReplace(r) ==
    /\ At(r, "replace") /\ pool = None
    /\ present' = [present EXCEPT ![arg[r]] = TRUE]
    /\ bundle' = [bundle EXCEPT ![arg[r]] = held[r]]
    /\ open' = open \ {bundle[arg[r]]}
    /\ Return(r)
    /\ UNCHANGED <<config, row, refcount, pending, lockVars, orphans, made,
                   count>>

(* A startup load that timed out finishes in the background and closes     *)
(* what it opened.                                                         *)
OrphanEnds(b) ==
    /\ b \in orphans
    /\ orphans' = orphans \ {b} /\ open' = open \ {b}
    /\ UNCHANGED <<config, row, slotVars, lockVars, reqVars, made, count>>

----------------------------------------------------------------------------
(* StartupLoadAll has run: up to max_namespaces rows were tried, some      *)
(* loads failed, and some of those only timed out.                         *)
Init ==
    /\ config \in Configs
    /\ row = [ns \in Namespaces |-> IF ns \in config.catalog THEN "active"
                                                             ELSE "none"]
    /\ \E loaded \in SUBSET config.catalog :
       \E late \in SUBSET config.catalog :
        /\ loaded \cap late = {}
        /\ Cardinality(loaded \cup late) <= config.max_namespaces
        /\ present = [ns \in Namespaces |-> ns \in loaded]
        /\ bundle = [ns \in Namespaces |-> IF ns \in loaded THEN <<ns, 0>>
                                                            ELSE None]
        /\ orphans = {<<ns, 0>> : ns \in late}
        /\ open = {<<ns, 0>> : ns \in loaded \cup late}
    /\ refcount = [ns \in Namespaces |-> 0]
    /\ pending = [ns \in Namespaces |-> FALSE]
    /\ mu = None /\ pool = None
    /\ pc = [r \in Requests |-> "idle"]
    /\ arg = [r \in Requests |-> None] /\ held = [r \in Requests |-> None]
    /\ made = 0 /\ count = [k \in Kinds |-> 0]

Work(r) ==
    \/ InsertNamespaceCatalog(r) \/ AdmitCreate(r) \/ AdmitLoad(r)
    \/ AdmitLoadFails(r) \/ AdmitInstall(r) \/ RemoveNamespaceCatalogRows(r)
    \/ SoftDelete(r) \/ EvictForDelete(r)
    \/ Acquire(r) \/ Release(r) \/ Reap(r)
    \/ ReloadLoad(r) \/ ReloadFails(r) \/ ReloadReplace(r)

Next ==
    \/ \E r \in Requests :
        \/ Work(r)
        \/ \E ns \in config.names :
            \/ CreateNamespace(r, ns) \/ DeleteNamespace(r, ns)
            \/ UseNamespace(r, ns) \/ ReloadNamespace(r, ns)
    \/ \E b \in orphans : OrphanEnds(b)

Spec == Init /\ [][Next]_vars

(* Request threads run, and a request that has the bundle returns. *)
FairSpec == Spec /\ \A r \in Requests : WF_vars(Work(r))

----------------------------------------------------------------------------
(* Properties.                                                             *)

Labels == {"idle", "insert", "admit", "lookup", "install", "remove",
           "softdelete", "evict", "acquire", "using", "reap", "reload",
           "replace"}

Bundles == Namespaces \X Nat

(* Every variable has its type, and the locks are kept by exactly the      *)
(* requests that are between their two steps under them.                   *)
TypeOK ==
    /\ config \in Configs
    /\ row \in [Namespaces -> {"none", "active", "deleted"}]
    /\ present \in [Namespaces -> BOOLEAN]
    /\ bundle \in [Namespaces -> Bundles \cup {None}]
    /\ refcount \in [Namespaces -> Int]
    /\ pending \in [Namespaces -> BOOLEAN]
    /\ pc \in [Requests -> Labels]
    /\ arg \in [Requests -> Namespaces \cup {None}]
    /\ \A r \in Requests : pc[r] # "idle" => arg[r] \in Namespaces
    /\ held \in [Requests -> Bundles \cup {None}]
    /\ open \subseteq Bundles /\ orphans \subseteq Bundles
    /\ made \in Nat /\ count \in [Kinds -> Nat]
    /\ mu \in Requests \cup {None} /\ pool \in Requests \cup {None}
    /\ \A r \in Requests : /\ mu = r <=> pc[r] = "evict"
                           /\ pool = r <=> pc[r] \in {"lookup", "install"}

Users(ns) == {r \in Requests : pc[r] = "using" /\ arg[r] = ns}

(* Nobody asked for a reload: the code takes for granted that one only     *)
(* ever meets a namespace that is not resident.                            *)
NoReload == count["reload"] = 0

(* The bundle a request borrowed stays the slot's bundle, and open, until  *)
(* that request releases it, whatever deletes, reaps and creates do.       *)
BorrowValid ==
    NoReload => \A r \in Requests : pc[r] = "using" =>
        /\ present[arg[r]]
        /\ bundle[arg[r]] = held[r]
        /\ held[r] \in open

(* The reference count is the number of requests inside the bundle. *)
RefcountExact ==
    NoReload => \A ns \in Namespaces : refcount[ns] = Cardinality(Users(ns))

(* Two openings of the same unit directory never exist at once, so its WAL *)
(* and its index have one writer.                                          *)
OneOwner ==
    NoReload => \A b, c \in open : b[1] = c[1] => b = c

(* The pool never holds more than max_namespaces_per_instance bundles.     *)
WithinCapacity ==
    NoReload => Cardinality(Resident) <= config.max_namespaces

(* A slot waiting to be deleted is waiting for somebody: a request still   *)
(* inside it, or the last one on its way to reap it.                       *)
PendingHasReaper ==
    NoReload => \A ns \in Namespaces : pending[ns] =>
        \E r \in Requests : pc[r] \in {"using", "reap"} /\ arg[r] = ns

(* The pool's guarantees together: borrowed bundles stay, the counts are   *)
(* exact, a unit directory has one owner, the limit holds and no pending   *)
(* delete is forgotten.                                                    *)
PoolSafe == /\ TypeOK /\ BorrowValid /\ RefcountExact /\ OneOwner
            /\ WithinCapacity /\ PendingHasReaper

(* A create keeps the pool and waits for mu_ while a delete keeps mu_ and  *)
(* waits for the pool.                                                     *)
Crossed == \E r, s \in Requests : pc[r] = "lookup" /\ pc[s] = "evict"

(* Every request returns, unless a create and a delete crossed. *)
RequestsReturn ==
    \A r \in Requests : pc[r] # "idle" ~> pc[r] = "idle" \/ Crossed
=============================================================================
