CONSTANTS
    a = a
    b = b
    m = m
    noName = noName
    failure = failure
    data = data
    NoName = noName
    FailureName = failure
    FakeTopName = data
    Names <- TwoNames
    MarkerNames <- OneMarker
    NameMap <- NoMap
    Options <- TagStyles
    Roles <- OneRole
    MaxDepth = 3
SPECIFICATION KeptSpec
INVARIANTS ClosesMatch OutputMatchesStack
PROPERTY CallReturns
CHECK_DEADLOCK FALSE
