CONSTANTS
    c = c
    l = l
    m = m
    v = v
    k = k
    x = x
    noName = noName
    emptyString = emptyString
    noCell = noCell
    junkCell = junkCell
    Containers <- OneContainer
    Lists <- TwoLists
    LeafLists <- OneLeafList
    Fields <- TwoFields
    KeyFields <- OneKey
    Setups <- PlainSetups
    StackSize = 16
    LeafMax = 2
    NoName = noName
    EmptyString = emptyString
    NoCell = noCell
    JunkCell = junkCell
    Length <- Lengths
    MaxOpen = 4
SPECIFICATION Spec
INVARIANTS LeaderIsPath CborReads CsvTable RowsAreComplete PathFollows LinesAreDocument
CHECK_DEADLOCK FALSE
