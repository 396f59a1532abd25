------------------------------ MODULE MCPHnsw ------------------------------
(***************************************************************************)
(* Writes of one block, each insert or delete, in batches of up to two and *)
(* a snapshot after every batch.                                           *)
(***************************************************************************)
EXTENDS PHnsw

CONSTANTS w1, w2, w3, b1

Faults(io, torn, crash, header, clk, corrupt) ==
  [k \in Kinds |-> CASE k = "io" -> io [] k = "torn" -> torn [] k = "crash" -> crash
                     [] k = "header" -> header [] k = "clock" -> clk [] k = "corrupt" -> corrupt]

Config(ws, f, total) ==
  [writes |-> ws, max_batch |-> 2, snapshot_max_wal_entries |-> 1, keep_count |-> 1,
   max_faults |-> f, max_total |-> total, max_clock |-> 2]

\* Three writes and one fault of any kind, or two writes and two faults.
SafeConfigs ==
  {Config({w1, w2, w3}, Faults(1, 1, 1, 1, 1, 1), 1),
   Config({w1, w2}, Faults(1, 1, 2, 1, 1, 1), 2)}
=============================================================================
