SPECIFICATION LiveSpec
CONSTANTS
    MaxDocs = 5
    Sources = {s}
    Uploaded = {}
    File = s
    Contents = {a, b}
    Workers = {w1}
    QueueLimit = 2
    MaxPurge = 1
    None = None
    Configs <- MCConfigs
INVARIANTS
    FollowsFile
    WatchSound
PROPERTIES
    RequestsReturnUnlessJammed
