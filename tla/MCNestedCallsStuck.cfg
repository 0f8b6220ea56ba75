SPECIFICATION Spec
CONSTANTS
    Request = {r1, r2}
    Call <- ApprovedCombo
    p1 = p1
    c1 = c1
    Path = {p1}
    Content = {c1, c2}
    Shared = {}
    NoRequest = NoRequest
    NoText = NoText
CHECK_DEADLOCK FALSE
PROPERTIES
    EveryRequestIsAnswered
