SPECIFICATION FairSpec
CONSTANTS
    MaxLength = 4
    Bytes <- PrefixBytes
    ModrmBytes = {192}
    SibBytes = {4}
    BufferSizes = {4}
    Modes = {"LONG_64", "LEGACY_32"}
    DecoderModes <- PrefixModes
    Definitions <- PrefixDefinitions
INVARIANTS ConsumptionAccounted NoPrefixDropped MarksMatchAttributes
           OneMeaningPerPrefix SegmentsNamePrefixes
PROPERTIES FallbackRestores Terminates
CHECK_DEADLOCK FALSE
