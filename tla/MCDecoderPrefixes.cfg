SPECIFICATION PrefixSpec
CONSTANTS
    MaxLength = 5
    Bytes <- MCBytes
    BufferSizes = {2, 6}
    Modes = {"LONG_64", "LEGACY_32"}
INVARIANTS PrefixTypeOK LastOfGroupWins MandatoryChoice SegmentChoice RexIsLast
           NotrackChoice CollectedMarks
CHECK_DEADLOCK FALSE
