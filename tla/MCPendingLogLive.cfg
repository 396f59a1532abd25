CONSTANTS
  p1 = p1
  c1 = c1
  c1retry = c1retry
  p2 = p2
  c2 = c2
  t1 = t1
  t2 = t2
  Reqs <- MCReqs
  Terminal <- MCTerminal
  Txn <- MCTxn
  MaxBatch = 2
  MaxFaults = 1
  MaxTorn = 1
  MaxReopenFaults = 1
  MaxCrashes = 1
SPECIFICATION FairSpec
\* The system may really stop: all requests answered and the writer shut down.
CHECK_DEADLOCK FALSE
PROPERTIES
    WriterProgress
