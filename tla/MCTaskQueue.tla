---------------------------- MODULE MCTaskQueue -----------------------------
(***************************************************************************)
(* Small workloads for TaskQueue: three submissions to one document        *)
(* (contents a, b, a), or two to one document and one to another.          *)
(***************************************************************************)
EXTENDS TaskQueue, TLC

CONSTANTS s1, s2, s3, d1, d2, a, b

Calm == [k \in Kinds |-> 0]

Workload(subs, docs, hashes, max) ==
    [subs |-> subs,
     doc |-> [s \in Subs |-> CASE s = s1 -> docs[1] [] s = s2 -> docs[2]
                               [] s = s3 -> docs[3]],
     hash |-> [s \in Subs |-> CASE s = s1 -> hashes[1] [] s = s2 -> hashes[2]
                                [] s = s3 -> hashes[3]],
     max |-> max @@ Calm]

Same == <<d1, d1, d1>>
Two == <<d1, d1, d2>>

MCConfigs ==
    { Workload(Subs, Same, <<a, b, a>>, [enqueue |-> 1]),
      Workload(Subs, Same, <<a, a, a>>, [cancel |-> 1]),
      Workload(Subs, Two, <<a, b, a>>, [cancel |-> 1]),
      Workload({s1, s2}, Same, <<a, b, a>>, [sweep |-> 1, cancel |-> 1]),
      Workload({s1, s2}, Same, <<a, a, a>>, [crash |-> 1, cancel |-> 1]),
      Workload({s1, s2}, Same, <<a, b, a>>, [crash |-> 1, persist |-> 1]),
      Workload({s1, s2}, Two, <<a, b, a>>, [throw |-> 1, cancel |-> 1,
                                            expire |-> 1]) }
=============================================================================
