SPECIFICATION LiveSpec
CONSTANTS
    MaxDocs = 3
    Sources = {s}
    Uploaded = {s}
    Contents = {a, b}
    Large = {b}
    Workers = {w1, w2}
    Uploaders = {u1, u2}
    QueueLimit = 2
    MaxPurge = 1
    None = None
    Configs <- MCConfigs
INVARIANTS
    OneAnswer
    
PROPERTIES
    AnswerKept
    PromisesKept
