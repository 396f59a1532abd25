SPECIFICATION Spec
CONSTANTS
  i1 = i1
  i2 = i2
  i3 = i3
  r1 = r1
  r2 = r2
  d1 = d1
  d2 = d2
  None = None
  Writes = {i1, i2, i3, r1, r2}
  Docs = {d1, d2}
  Doc <- MCDoc
  Scope <- MCScope
  Vectored <- MCVectored
  Configs <- SafeConfigs
\* A finished workload has nothing left to do, and a refused load stays refused.
CHECK_DEADLOCK FALSE
INVARIANTS
    WritersApart
    
    AllOrNothing
PROPERTIES
    CommitFailureKeepsData
