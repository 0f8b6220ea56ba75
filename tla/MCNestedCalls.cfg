SPECIFICATION SpecInTurn
CONSTANTS
    Request = {1, 2, 3}
    Call <- ServedCalls
    p1 = p1
    c1 = c1
    Path = {p1}
    Content = {c1, c2}
    Shared = {p1}
    NoRequest = NoRequest
    NoText = NoText
CHECK_DEADLOCK FALSE
INVARIANTS
    TypeOK
    LocksFollowCombos
PROPERTIES
    LockedFilesAreLeftAlone
    EveryRequestIsAnswered
