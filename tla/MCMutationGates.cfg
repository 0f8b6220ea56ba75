SPECIFICATION SmallSpec
CONSTANTS
    Reader = {r1}
    Path = {p1}
    Head = Head
    Content = {c1, c2, c3}
    NoHash = NoHash
    NoPath = NoPath
    MaxRefresh = 2
    MaxApprovals = 1
    MaxOverrides = 1
SYMMETRY Symmetry
CHECK_DEADLOCK FALSE
INVARIANTS
    TypeOK
    OverrideIsOneShot
PROPERTIES
    DriftIsNotMissed
    ImplementsSupervisedEdit
