CONSTANTS
    a = a
    b = b
    m = m
    noName = noName
    failure = failure
    data = data
    NoName = noName
    FailureName = failure
    FakeTopName = data
    Names <- OneName
    MarkerNames <- OneMarker
    NameMap <- NoMap
    Options <- TextAndJson
    Roles <- BothRoles
    MaxDepth = 4
SPECIFICATION AnySpec
INVARIANTS TypeOK ListsHoldInstances CommasSeparate LabelsFit OutputMatchesStack FinishedIsBalanced
PROPERTY MarkerStays
CHECK_DEADLOCK FALSE
