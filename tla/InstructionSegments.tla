------------------------ MODULE InstructionSegments ------------------------
(***************************************************************************)
(* ZydisGetInstructionSegments (src/Segment.c): the logical parts of a     *)
(* decoded instruction, computed from what one call of                     *)
(* ZydisDecoderDecodeInstruction (Decoder) has left in *instruction.       *)
(*                                                                         *)
(* Only some of the offsets come from the decoder.  The opcode has none    *)
(* recorded: it is put behind the segment before it, and its size is       *)
(* guessed from the encoding and the opcode map.  The lengths of the REX,  *)
(* XOP, EVEX, MVEX and REX2 prefixes are constants of Segment.c.           *)
(***************************************************************************)
EXTENDS Decoder, Sequences

ZYDIS_MAX_INSTRUCTION_SEGMENT_COUNT == 9

Segment(type, offset, size) == [type |-> type, offset |-> offset, size |-> size]
If(condition, segment) == IF condition THEN <<segment>> ELSE <<>>

(* HAS_MODRM and HAS_SIB are set where the byte is read.                   *)
HasPart(p) == raw[p].size > 0

PrefixSegments ==
    LET rex_offset == IF "HAS_REX" \in attributes THEN 1 ELSE 0
    IN  If(prefixCount > rex_offset,
           Segment("PREFIXES", 0, prefixCount - rex_offset))
        \o If(prefixCount > 0 /\ rex_offset = 1,
              Segment("REX", prefixCount - rex_offset, 1))

EncodingPrefixSize ==
    CASE encoding = "XOP" -> 3
      [] encoding = "VEX" -> raw.ESCAPE.size
      [] encoding \in {"EVEX", "MVEX"} -> 4
      [] encoding = "REX2" -> 2

EncodingSegment ==
    IF encoding \in Modern \cup {"REX2"}
    THEN <<Segment(encoding, raw.ESCAPE.offset, EncodingPrefixSize)>>
    ELSE <<>>

OpcodeSizeOfMap ==  \* mutant: the map of a VEX or EVEX instruction is counted
    CASE map = "DEFAULT" -> 1
      [] map \in {"0F", "0F0F"} -> 2
      [] OTHER -> 3

OpcodeSize ==
    IF encoding \notin {"LEGACY", "3DNOW"} \/ map = "DEFAULT" THEN 1
    ELSE IF map \in {"0F", "0F0F"} THEN 2
    ELSE 3

(* The opcode goes behind what has been listed so far.                     *)
OpcodeSegment(before) ==
    LET last == before[Len(before)]
    IN  Segment("OPCODE",
                IF before = <<>> THEN 0 ELSE last.offset + last.size, OpcodeSize)

PartSegment(p, type) == If(HasPart(p), Segment(type, raw[p].offset, raw[p].size))

ZydisGetInstructionSegments ==
    LET before == PrefixSegments \o EncodingSegment
    IN  before \o <<OpcodeSegment(before)>>
        \o PartSegment("MODRM", "MODRM") \o PartSegment("SIB", "SIB")
        \o PartSegment("DISP", "DISPLACEMENT")
        \o PartSegment("IMM0", "IMMEDIATE") \o PartSegment("IMM1", "IMMEDIATE")
        \o If(encoding = "3DNOW", Segment("OPCODE", length - 1, 1))

-----------------------------------------------------------------------------
(* The segments of a decoded instruction tile it: they are listed in the   *)
(* order of the bytes, none is empty, each starts where the one before it  *)
(* ends, and together they are the instruction.  There are never more of   *)
(* them than the result has room for (the function does not look).         *)
SegmentsTileInstruction ==
    status = "SUCCESS" =>
      LET s == ZydisGetInstructionSegments
          End(i) == s[i].offset + s[i].size
      IN  /\ Len(s) \in 1 .. ZYDIS_MAX_INSTRUCTION_SEGMENT_COUNT
          /\ s[1].offset = 0 /\ End(Len(s)) = length
          /\ \A i \in 1 .. Len(s) : s[i].size > 0
          /\ \A i \in 2 .. Len(s) : s[i].offset = End(i - 1)

(* The segments say what the bytes are: a REX segment is a REX byte,       *)
(* directly before the opcode, with an effect; no other prefix byte that   *)
(* is a REX is effective; the legacy prefixes are the bytes before it.     *)
SegmentsNamePrefixes ==
    status = "SUCCESS" =>
      LET s == ZydisGetInstructionSegments
          Of(t) == {i \in 1 .. Len(s) : s[i].type = t}
      IN  /\ \A i \in Of("REX") :
               /\ IsRex(prefixes[s[i].offset]) /\ types[s[i].offset] = "EFFECTIVE"
               /\ s[i + 1].type = "OPCODE"
          /\ \A i \in Of("PREFIXES") : \A k \in 0 .. s[i].size - 1 :
               IsRex(prefixes[k]) => types[k] = "IGNORED"
=============================================================================
