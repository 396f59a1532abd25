------------------------ MODULE MCWriteCoordinator ------------------------
(* Small instances of WriteCoordinator: i1 and i2 are two ingests of the   *)
(* document d1, r1 and r2 repairs of it, i3 an ingest of d2.               *)
EXTENDS WriteCoordinator
CONSTANTS d1, d2, i1, i2, r1, r2, i3

MCDoc == [w \in Writes |-> IF w = i3 THEN d2 ELSE d1]
MCScope == [w \in Writes |-> IF w \in {r1, r2} THEN "blocks" ELSE "document"]
MCVectored == Writes \ {r2}

Faults(append, late, store, clean, crash) ==
  [append |-> append, late |-> late, store |-> store, clean |-> clean, crash |-> crash]

Config(writes, retries, threshold, entries, strict, max_faults) ==
  [writes |-> writes, commit_max_retries |-> retries, compact_threshold |-> threshold,
   max_recovery_entries |-> entries, strict_recovery |-> strict, max_faults |-> max_faults]

\* An ingest and a repair of d1 beside an ingest of d2, failing stores, two crashes.
RepairConfig == Config({i1, r1, i3}, 1, 0, 20, FALSE, Faults(0, 0, 1, 0, 2))

\* Two ingests and a repair of d1, inline compaction, two crashes.
ReingestConfig == Config({i1, i2, r2, i3}, 1, 2, 20, FALSE, Faults(0, 0, 0, 0, 2))

\* A failing log: with failing stores, with inline compaction and a low recovery
\* limit, and with strict recovery.
LogConfigs ==
  {Config({i1, r1}, 0, 0, 20, FALSE, Faults(1, 1, 1, 0, 1)),
   Config({i1, r1, i3}, 0, 1, 3, FALSE, Faults(1, 1, 0, 0, 1)),
   Config({i1, r1}, 1, 2, 20, TRUE, Faults(2, 0, 0, 0, 2))}

\* Two ingests of d1, of which one may fail.
FailedIngestConfig == Config({i1, i2}, 1, 0, 20, FALSE, Faults(0, 0, 1, 0, 1))

\* Every kind of failure, with inline compaction: the cleanups that get lost.
LostCleanupConfig == Config({i1, i2}, 0, 1, 20, FALSE, Faults(1, 1, 1, 1, 1))

SafeConfigs ==
  {RepairConfig, ReingestConfig, FailedIngestConfig, LostCleanupConfig} \cup LogConfigs
LiveConfigs == {Config({i1, r2, i3}, 0, 1, 20, FALSE, Faults(0, 0, 1, 1, 1))}
==========================================================================
