SPECIFICATION Spec
CONSTANTS
    MaxFields = 12
    MaxSpecs = 24
    Pieces <- MCPieces
    Translatable <- MCTranslatable
    MaxPieces = 3
    MaxMessage = 3
    Aligned <- MCAligned
    MaxAligned = 6
    Fragments <- MCFragments
    MaxFragments = 4
    Handles <- MCHandles
INVARIANTS ParseFits ArgsMatch ArgumentsFollow ReadsAsTranslated UnitsInTag
CHECK_DEADLOCK FALSE
