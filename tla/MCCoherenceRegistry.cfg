SPECIFICATION Spec
CONSTANTS
    Task = {t1, t2, t3}
    Editor = {}
    Path = {p1}
    Shared = {p1}
    Content = {c1}
    Reader = {r1, r2}
    NoTask = NoTask
    NoHash = NoHash
    MaxTasks = 2
    MaxAnchors = 1
    MaxTokens = 4
    MaxRevision = 1
    MaxVerify = 0
SYMMETRY Symmetry
CHECK_DEADLOCK FALSE
INVARIANTS
    TypeOK
    RegistryConsistent
    OwnTokenNeverMismatched
PROPERTIES
    EvictionIsFIFOAtCap
    DeadTokenStaysDead
