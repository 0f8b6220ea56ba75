SPECIFICATION Spec
CONSTANTS
    Task = {t1, t2}
    Editor = {t1, t2}
    Path = {p1, p2}
    Shared = {p1}
    Content = {c1, c2}
    Reader = {}
    NoTask = NoTask
    NoHash = NoHash
    MaxTasks = 2
    MaxAnchors = 0
    MaxTokens = 2
    MaxRevision = 3
    MaxVerify = 1
SYMMETRY Symmetry
CHECK_DEADLOCK FALSE
PROPERTIES
    ImplementsOptimisticCommit
INVARIANTS
    CitedRevisionIsCurrent
    NoUpdateIsLost
