CONSTANTS
    a = a
    b = b
    m = m
    noName = noName
    failure = failure
    data = data
    NoName = noName
    FailureName = failure
    FakeTopName = data
    Names <- TwoNames
    MarkerNames <- OneMarker
    NameMap <- MapAToB
    Options <- ProperStyles
    Roles <- BothRoles
    MaxDepth = 4
SPECIFICATION ProperSpec
INVARIANTS NoComplaint
CHECK_DEADLOCK FALSE
