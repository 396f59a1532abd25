CONSTANTS
  w1 = w1
  w2 = w2
  w3 = w3
  b1 = b1
  Absent = Absent
  Deleted = Deleted
  Torn = Torn
  Writes = {w1, w2, w3}
  Blocks = {b1}
  Configs <- SafeConfigs
SPECIFICATION FairSpec
\* The system may stop: every write answered and a snapshot set that does not load.
CHECK_DEADLOCK FALSE
INVARIANTS
    IndexSound
    
PROPERTIES
    IndexProgress
