CONSTANTS
    aware = aware
    plain = plain
    older = older
    newer = newer
    slashed = slashed
    system = system
    own = own
    nobody = nobody
    Names <- AllNames
    BadNames <- Slashed
    Dirs <- TwoDirs
    SystemDir = system
    Library <- Libraries
    NoEncoder = nobody
    MaxWords = 2
    MaxCalls = 4
    Careful = TRUE
SPECIFICATION Spec
INVARIANTS AcceptedMeansNoError FilterNeedsAware EncoderIsCallable OrderDoesNotMatter
CHECK_DEADLOCK FALSE
