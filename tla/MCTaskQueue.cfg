SPECIFICATION FairSpec
CONSTANTS
    s1 = s1  s2 = s2  s3 = s3
    d1 = d1  d2 = d2
    a = a    b = b
    None = None
    Subs = {s1, s2, s3}
    Workers = {w1, w2}
    Configs <- MCConfigs
CHECK_DEADLOCK FALSE
INVARIANTS
    OneWorkerPerDoc
    InputLifetime
    LatestWins
PROPERTIES
    StatusSteps
    EveryTaskEnds
