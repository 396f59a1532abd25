--------------------------- MODULE MCNamespacePool --------------------------
(***************************************************************************)
(* Two namespaces, three request threads, six workloads.                   *)
(***************************************************************************)
EXTENDS NamespacePool, TLC

CONSTANTS n1, n2

Calm == [k \in Kinds |-> 0]

Workload(names, catalog, max_namespaces, budget, max) ==
    [names |-> names, catalog |-> catalog,
     max_namespaces |-> max_namespaces,
     budget |-> budget, max |-> max @@ Calm]

MCConfigs ==
    { Workload(Namespaces, {n1}, 2, 0, [use |-> 2, delete |-> 1, create |-> 2]),
      Workload(Namespaces, {n1}, 1, 0, [use |-> 2, delete |-> 1, create |-> 2]),
      Workload(Namespaces, {n1}, 2, 1, [use |-> 2, create |-> 2,
                                        loadfail |-> 1]),
      Workload(Namespaces, {n1, n2}, 1, 0, [use |-> 3, delete |-> 2]),
      Workload(Namespaces, {n1}, 2, 0, [use |-> 1, reload |-> 1, delete |-> 1,
                                        loadfail |-> 1]),
      Workload({n1}, {}, 2, 0, [create |-> 2, delete |-> 2, reload |-> 1,
                                use |-> 1, loadfail |-> 1]) }
=============================================================================
