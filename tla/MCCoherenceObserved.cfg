SPECIFICATION Spec
CONSTANTS
    Task = {t1}
    Editor = {t1}
    Path = {p1}
    Shared = {p1}
    Content = {c1, c2}
    Reader = {r1}
    NoTask = NoTask
    NoHash = NoHash
    MaxTasks = 1
    MaxAnchors = 1
    MaxTokens = 1
    MaxRevision = 2
    MaxVerify = 1
SYMMETRY Symmetry
PROPERTIES
    ObservedIsValidated
