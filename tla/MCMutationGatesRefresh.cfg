SPECIFICATION Spec
CONSTANTS
    Reader = {r1}
    Path = {p1}
    Head = Head
    Content = {c1, c2}
    NoHash = NoHash
    NoPath = NoPath
    MaxRefresh = 2
    MaxApprovals = 1
    MaxOverrides = 1
CHECK_DEADLOCK FALSE
PROPERTIES
    DriftBlocksUntilRefreshed
