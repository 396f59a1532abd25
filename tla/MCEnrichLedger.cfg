SPECIFICATION Spec
CONSTANTS
    c1 = c1
    c2 = c2
    a = a
    b = b
    Chunk = {c1, c2}
    Caller = {a, b}
    Timer = Timer
    None = None
    MaxAttempts = 2
    Configs <- MCConfigs
\* A document that owes nothing, with no request left, has nothing to do.
CHECK_DEADLOCK FALSE
INVARIANTS
    LedgerSound
    ProviderBudget
    OkIsComplete

    
