CONSTANTS
    a = a
    b = b
    k = k
    v = v
    x = x
    empty = empty
    unseen = unseen
    star = star
    dot = dot
    noValue = noValue
    Tags <- AllTags
    AnyTag = star
    Dot = dot
    Values <- TwoValues
    Empty = empty
    Unseen = unseen
    NoValue = noValue
    FrameSlots = 8
    Lists <- OnlyA
    Containers <- OnlyB
    Fields <- TwoFields
    KeyFields <- OneKey
    Options <- AllOptions
    Cases <- KeptCases
    MaxLevel = 3
    MaxElements = 4
    MaxFields = 3
SPECIFICATION KeptSpec
INVARIANTS FinishedIsExpected OffsetsInOrder SeparatorsFit
PROPERTY ImplementsDocument
CHECK_DEADLOCK FALSE
