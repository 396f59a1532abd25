CONSTANTS
    s1 = s1
    s2 = s2
    Worker = {w1, w2}
    Client = {c1, c2}
    Session = {s1, s2}
    NoSession = none
    Text = {"none", "e", "f", "g", "p", "q"}
    QueueMax = 2
    RetryMax = 1
    MaxSessions = 1
    MaxRows = 3
    TopK = 1
    Configs <- Workloads
SPECIFICATION Spec
INVARIANTS
    ReplacedByNewer
    DeletedStaysDeleted
    
PROPERTIES
    
    TurnsSettle
