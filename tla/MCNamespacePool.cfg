SPECIFICATION FairSpec
CONSTANTS
    n1 = n1  n2 = n2
    None = None
    Namespaces = {n1, n2}
    Requests = {r1, r2, r3}
    Configs <- MCConfigs
CHECK_DEADLOCK FALSE
INVARIANTS
    PoolSafe
PROPERTIES
    RequestsReturn
