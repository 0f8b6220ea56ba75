SPECIFICATION RecoverySpec
CONSTANTS
    Path = {p1, p2}
    Target = p1
    Line = {l1, l2}
    Wanted = l2
    Rest = {r1, r2}
    NoText = NoText
    MaxChanges = 2
CHECK_DEADLOCK FALSE
INVARIANTS
    OperatorNeedsDisturbance
