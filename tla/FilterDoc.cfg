CONSTANTS
    a = a
    b = b
    k = k
    v = v
    x = x
    empty = empty
    unseen = unseen
    star = star
    dot = dot
    noValue = noValue
    Tags <- AllTags
    AnyTag = star
    Dot = dot
    Values <- TwoValues
    Empty = empty
    Unseen = unseen
    NoValue = noValue
    FrameSlots = 8
    Expressions <- SomePaths
    MaxPaths = 2
    MaxLevel = 2
    Containers <- OnlyB
    Instances <- OnlyA
    Fields <- TwoFields
    KeyFields <- OneKey
    MaxElements = 3
SPECIFICATION DocSpec
INVARIANTS FilterTypeOK StatusIsWanted PathUnbroken CountsGivenBack
PROPERTY JudgedAtClose
CHECK_DEADLOCK FALSE
