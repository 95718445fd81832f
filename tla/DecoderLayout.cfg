SPECIFICATION Spec
CONSTANTS
    MaxLength = 15
    Bytes <- LayoutBytes
    ModrmBytes <- LayoutModrm
    SibBytes <- LayoutSib
    BufferSizes = {5, 16}
    Modes = {"LONG_64", "LEGACY_16"}
    DecoderModes <- LayoutModes
    Definitions <- LayoutDefinitions
INVARIANTS TypeOK PartsTileInstruction FullWindowSuffices NeverUnreachable SegmentsTileInstruction
CHECK_DEADLOCK FALSE
