SPECIFICATION Spec
CONSTANTS
    MaxLength = 6
    Bytes <- ShortBytes
    ModrmBytes = {192}
    SibBytes = {4}
    BufferSizes = {2, 6}
    Modes = {"LONG_64"}
    DecoderModes = {{"APX"}}
    Definitions <- ShortDefinitions
INVARIANTS OverwrittenIgnored
CHECK_DEADLOCK FALSE
