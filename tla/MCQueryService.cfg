SPECIFICATION MCSpec
CHECK_DEADLOCK FALSE
CONSTANTS
    Req = {"r1", "r2"}
    Worker = {"w1"}
    Ns = {1, 2}
    QueueCapacity = 2
    NsTimeout = 1
    TotalTimeout = 2
    BudgetFloor = 1
    Multiplier = 2
    RrfK = 2
    WindowSize = 2
    WindowStride = 1
    AnchorMax = 1
    NoHash = 0
    Chunk <- MCChunk
    Content <- MCContent
    Model <- MCModel
    Configs <- MCConfigs
INVARIANTS
    
    
    ScoresTrueOrZero
PROPERTIES
    WholeUnlessSaid
    AnsweredUnlessFull
    Recovers
