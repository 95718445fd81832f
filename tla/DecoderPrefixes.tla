-------------------------- MODULE DecoderPrefixes --------------------------
(***************************************************************************)
(* The first phase of the decoder (src/Decoder.c): the loop that collects  *)
(* the legacy prefixes and the REX prefix of one instruction.              *)
(*                                                                         *)
(* The input is revealed byte by byte: an action picks the byte that       *)
(* ZydisInputPeek finds at the read position.  The byte that ends the loop *)
(* is peeked and not skipped; it stays in "ahead" for the opcode handler.  *)
(***************************************************************************)
EXTENDS Integers

CONSTANTS
    MaxLength,    \* ZYDIS_MAX_INSTRUCTION_LENGTH (15)
    Bytes,        \* the byte values the input is made of
    BufferSizes,  \* the buffer lengths a caller passes
    Modes         \* the machine modes a decoder is initialised with

MachineModes == {"LONG_64", "LONG_COMPAT_32", "LONG_COMPAT_16",
                 "LEGACY_32", "LEGACY_16", "REAL_16"}

ASSUME LengthAssumption == MaxLength \in Nat \ {0}
ASSUME InputAssumption ==
    Bytes \subseteq 0 .. 255 /\ BufferSizes \subseteq Nat \ {0}
ASSUME ModeAssumption == Modes \subseteq MachineModes

VARIABLES
    mode,         \* decoder->machine_mode
    bufferLen,    \* state->buffer_len: what is left of the input
    ahead,        \* the byte peeked and not yet skipped, or NoByte
    length,       \* instruction->length
    prefixes,     \* instruction->raw.prefixes[].value
    types,        \* instruction->raw.prefixes[].type
    prefixCount,  \* instruction->raw.prefix_count, the loop's "offset" too
    pfx,          \* state->prefixes
    attributes,   \* instruction->attributes
    rex,          \* the loop's "rex": the REX byte that still counts, or 0
    rexOffset,    \* instruction->raw.rex.offset
    status        \* where the call is, or how it ended

prefixVars == <<mode, bufferLen, ahead, length, prefixes, types, prefixCount,
                pfx, attributes, rex, rexOffset, status>>

NoByte == -1

LOCK == 240           \* F0
REPNE == 242          \* F2
REP == 243            \* F3
CS == 46              \* 2E
SS == 54              \* 36
DS == 62              \* 3E
ES == 38              \* 26
FS == 100             \* 64
GS == 101             \* 65
OSZ == 102            \* 66
ASZ == 103            \* 67

Group1 == {REPNE, REP}
OldSegments == {CS, SS, DS, ES}
NewSegments == {FS, GS}
Group2 == OldSegments \cup NewSegments

IsRex(b) == mode = "LONG_64" /\ b \div 16 = 4
RexW(b) == (b \div 8) % 2

IsPrefix(b) == b \in {LOCK, OSZ, ASZ} \cup Group1 \cup Group2 \/ IsRex(b)

-----------------------------------------------------------------------------
(* Both structures are cleared with ZYAN_MEMSET; offset_notrack becomes -1. *)

NoPrefixes ==
    [has_lock |-> FALSE, offset_lock |-> 0,
     group1 |-> 0, offset_group1 |-> 0,
     group2 |-> 0, offset_group2 |-> 0,
     effective_segment |-> 0, offset_segment |-> 0,
     mandatory_candidate |-> 0, offset_mandatory |-> 0,
     offset_osz_override |-> 0, offset_asz_override |-> 0,
     offset_notrack |-> -1]

InitPrefixes ==
    /\ mode \in Modes
    /\ bufferLen \in BufferSizes
    /\ ahead = NoByte
    /\ length = 0
    /\ prefixes = [i \in 0 .. MaxLength - 1 |-> 0]
    /\ types = [i \in 0 .. MaxLength - 1 |-> "IGNORED"]
    /\ prefixCount = 0
    /\ pfx = NoPrefixes
    /\ attributes = {}
    /\ rex = 0
    /\ rexOffset = 0
    /\ status = "PREFIXES"

-----------------------------------------------------------------------------
(* ZydisInputPeek: the length limit is tested before the end of the input. *)

PeekTooLong ==
    /\ status = "PREFIXES"
    /\ length >= MaxLength
    /\ status' = "INSTRUCTION_TOO_LONG"
    /\ UNCHANGED <<mode, bufferLen, ahead, length, prefixes, types,
                   prefixCount, pfx, attributes, rex, rexOffset>>

PeekNoMoreData ==
    /\ status = "PREFIXES"
    /\ length < MaxLength
    /\ bufferLen = 0
    /\ status' = "NO_MORE_DATA"
    /\ UNCHANGED <<mode, bufferLen, ahead, length, prefixes, types,
                   prefixCount, pfx, attributes, rex, rexOffset>>

PeekOneMore ==  \* mutant: off by one at the longest instruction
    status = "PREFIXES" /\ length <= MaxLength /\ bufferLen > 0

PeekSucceeds == status = "PREFIXES" /\ length < MaxLength /\ bufferLen > 0

(* The end of an iteration that found a prefix: it is recorded and skipped. *)
Record(b) ==
    /\ prefixes' = [prefixes EXCEPT ![prefixCount] = b]
    /\ prefixCount' = prefixCount + 1
    /\ length' = length + 1
    /\ bufferLen' = bufferLen - 1
    /\ UNCHANGED <<mode, ahead, types, status>>

(* A REX prefix that is not the last prefix is invalidated.                *)
KeepRex == UNCHANGED <<rex, rexOffset>>  \* mutant: REX survives

InvalidateRex ==
    /\ rex' = 0
    /\ rexOffset' = IF rex # 0 THEN 0 ELSE rexOffset

CollectLock ==
    /\ PeekSucceeds /\ LOCK \in Bytes
    /\ pfx' = [pfx EXCEPT !.has_lock = TRUE, !.offset_lock = prefixCount]
    /\ Record(LOCK) /\ InvalidateRex
    /\ UNCHANGED attributes

CollectGroup1(b) ==
    /\ PeekSucceeds /\ b \in Group1
    /\ pfx' = [pfx EXCEPT !.group1 = b, !.offset_group1 = prefixCount,
                          !.mandatory_candidate = b,
                          !.offset_mandatory = prefixCount]
    /\ Record(b) /\ InvalidateRex
    /\ UNCHANGED attributes

OldSegmentOverrides(b) ==  \* mutant: 64-bit mode treated like the others
    /\ PeekSucceeds /\ b \in OldSegments /\ mode = "LONG_64"
    /\ pfx' = [pfx EXCEPT !.group2 = b, !.offset_group2 = prefixCount,
                          !.effective_segment = b,
                          !.offset_segment = prefixCount]
    /\ Record(b) /\ InvalidateRex
    /\ UNCHANGED attributes

(* 64-bit mode: 2E, 36, 3E and 26 are no segment overrides any more.       *)
CollectOldSegment64(b) ==
    /\ PeekSucceeds /\ b \in OldSegments /\ mode = "LONG_64"
    /\ pfx' = [pfx EXCEPT
                 !.group2 = b, !.offset_group2 = prefixCount,
                 !.offset_notrack =
                     IF b = DS /\ pfx.effective_segment \notin NewSegments
                     THEN prefixCount ELSE @]
    /\ Record(b) /\ InvalidateRex
    /\ UNCHANGED attributes

SegmentKeepsOffset(b) ==  \* mutant: offset_group2 is not updated
    /\ PeekSucceeds
    /\ b \in NewSegments \/ (b \in OldSegments /\ mode # "LONG_64")
    /\ pfx' = [pfx EXCEPT !.group2 = b, !.effective_segment = b,
                          !.offset_segment = prefixCount,
                          !.offset_notrack = -1]
    /\ Record(b) /\ InvalidateRex
    /\ UNCHANGED attributes

SegmentKeepsNotrack(b) ==  \* mutant: FS and GS do not cancel a 3E
    /\ PeekSucceeds
    /\ b \in NewSegments \/ (b \in OldSegments /\ mode # "LONG_64")
    /\ pfx' = [pfx EXCEPT !.group2 = b, !.offset_group2 = prefixCount,
                          !.effective_segment = b,
                          !.offset_segment = prefixCount]
    /\ Record(b) /\ InvalidateRex
    /\ UNCHANGED attributes

CollectSegment(b) ==
    /\ PeekSucceeds
    /\ b \in NewSegments \/ (b \in OldSegments /\ mode # "LONG_64")
    /\ pfx' = [pfx EXCEPT !.group2 = b, !.offset_group2 = prefixCount,
                          !.effective_segment = b,
                          !.offset_segment = prefixCount,
                          !.offset_notrack = -1]
    /\ Record(b) /\ InvalidateRex
    /\ UNCHANGED attributes

OperandSizeBeatsGroup1 ==  \* mutant: 66 has precedence over F2 and F3
    /\ PeekSucceeds /\ OSZ \in Bytes
    /\ pfx' = [pfx EXCEPT !.offset_osz_override = prefixCount,
                          !.mandatory_candidate = OSZ,
                          !.offset_mandatory = prefixCount]
    /\ attributes' = attributes \cup {"HAS_OPERANDSIZE"}
    /\ Record(OSZ) /\ InvalidateRex

CollectOperandSize ==
    /\ PeekSucceeds /\ OSZ \in Bytes
    /\ pfx' = [pfx EXCEPT
                 !.offset_osz_override = prefixCount,
                 !.mandatory_candidate = IF @ = 0 THEN OSZ ELSE @,
                 !.offset_mandatory = IF pfx.mandatory_candidate = 0
                                      THEN prefixCount ELSE @]
    /\ attributes' = attributes \cup {"HAS_OPERANDSIZE"}
    /\ Record(OSZ) /\ InvalidateRex

CollectAddressSize ==
    /\ PeekSucceeds /\ ASZ \in Bytes
    /\ pfx' = [pfx EXCEPT !.offset_asz_override = prefixCount]
    /\ attributes' = attributes \cup {"HAS_ADDRESSSIZE"}
    /\ Record(ASZ) /\ InvalidateRex

CollectRex(b) ==
    /\ PeekSucceeds /\ IsRex(b)
    /\ rex' = b
    /\ rexOffset' = prefixCount
    /\ Record(b)
    /\ UNCHANGED <<pfx, attributes>>

(* The marks ZydisCollectOptionalPrefixes leaves after its loop.           *)
MarksWithoutTest ==  \* mutant: a cancelled REX is marked
    [i \in 0 .. MaxLength - 1 |->
        IF \/ "HAS_OPERANDSIZE" \in attributes /\ i = pfx.offset_osz_override
           \/ "HAS_ADDRESSSIZE" \in attributes /\ i = pfx.offset_asz_override
           \/ i = rexOffset
        THEN "EFFECTIVE" ELSE types[i]]

CollectedTypes ==
    [i \in 0 .. MaxLength - 1 |->
        IF \/ "HAS_OPERANDSIZE" \in attributes /\ i = pfx.offset_osz_override
           \/ "HAS_ADDRESSSIZE" \in attributes /\ i = pfx.offset_asz_override
           \/ rex # 0 /\ i = rexOffset
        THEN "EFFECTIVE" ELSE types[i]]

(* The loop ends at the first byte that is no prefix in this mode. *)
CollectDone(b) ==
    /\ PeekSucceeds /\ ~IsPrefix(b)
    /\ ahead' = b
    /\ types' = CollectedTypes
    /\ attributes' = IF rex # 0 THEN attributes \cup {"HAS_REX"}
                                ELSE attributes
    /\ pfx' = IF mode # "LONG_64" /\ pfx.group2 = DS
              THEN [pfx EXCEPT !.offset_notrack = pfx.offset_group2]
              ELSE pfx
    /\ status' = "TREE"
    /\ UNCHANGED <<mode, bufferLen, length, prefixes, prefixCount, rex,
                   rexOffset>>

CollectOptionalPrefixes ==
    \/ PeekTooLong
    \/ PeekNoMoreData
    \/ CollectLock
    \/ CollectOperandSize
    \/ CollectAddressSize
    \/ \E b \in Bytes :
         \/ CollectGroup1(b)
         \/ CollectOldSegment64(b)
         \/ CollectSegment(b)
         \/ CollectRex(b)
         \/ CollectDone(b)

PrefixSpec == InitPrefixes /\ [][CollectOptionalPrefixes]_prefixVars

-----------------------------------------------------------------------------
PrefixTypes == {"IGNORED", "EFFECTIVE", "MANDATORY"}
Slots == 0 .. MaxLength - 1

PrefixState ==
    [has_lock : BOOLEAN, offset_lock : Slots,
     group1 : Group1 \cup {0}, offset_group1 : Slots,
     group2 : Group2 \cup {0}, offset_group2 : Slots,
     effective_segment : Group2 \cup {0}, offset_segment : Slots,
     mandatory_candidate : Group1 \cup {OSZ, 0}, offset_mandatory : Slots,
     offset_osz_override : Slots, offset_asz_override : Slots,
     offset_notrack : Slots \cup {-1}]

(* Every field has its type; in particular each recorded offset is an      *)
(* index of raw.prefixes[15].                                              *)
PrefixTypeOK ==
    /\ mode \in Modes
    /\ bufferLen \in Nat
    /\ ahead \in Bytes \cup {NoByte}
    /\ length \in 0 .. MaxLength
    /\ prefixes \in [Slots -> Bytes \cup {0}]
    /\ types \in [Slots -> PrefixTypes]
    /\ prefixCount \in 0 .. MaxLength
    /\ pfx \in PrefixState
    /\ attributes \subseteq {"HAS_OPERANDSIZE", "HAS_ADDRESSSIZE", "HAS_REX"}
    /\ rex \in Bytes \cup {0} /\ rexOffset \in Slots
    /\ status \in {"PREFIXES", "TREE", "NO_MORE_DATA", "INSTRUCTION_TOO_LONG"}

(***************************************************************************)
(* What the loop should have found, said of the bytes and not of the loop. *)
(***************************************************************************)
Present(S) == {i \in 0 .. prefixCount - 1 : prefixes[i] \in S}
Greatest(i, P) == i \in P /\ \A j \in P : j <= i
Least(i, P) == i \in P /\ \A j \in P : i <= j
Last(i, S) == Greatest(i, Present(S))
First(i, S) == Least(i, Present(S))

(* ZydisDecoderState documents each field as "the effective prefix" of its *)
(* group: the one closest to the opcode, with its own offset, however the  *)
(* groups are interleaved.                                                 *)
LastOfGroupWins ==
    /\ IF pfx.has_lock THEN Last(pfx.offset_lock, {LOCK})
                       ELSE Present({LOCK}) = {}
    /\ IF pfx.group1 = 0 THEN Present(Group1) = {}
       ELSE /\ Last(pfx.offset_group1, Group1)
            /\ prefixes[pfx.offset_group1] = pfx.group1
    /\ IF pfx.group2 = 0 THEN Present(Group2) = {}
       ELSE /\ Last(pfx.offset_group2, Group2)
            /\ prefixes[pfx.offset_group2] = pfx.group2
    /\ Present({OSZ}) # {} => Last(pfx.offset_osz_override, {OSZ})
    /\ Present({ASZ}) # {} => Last(pfx.offset_asz_override, {ASZ})

(* "The last F3/F2 prefix has precedence over previous ones and F3/F2 in   *)
(* general have precedence over 66"; among several 66 the first one is the *)
(* candidate.                                                              *)
MandatoryChoice ==
    /\ pfx.mandatory_candidate \in Group1 =>
         /\ Last(pfx.offset_mandatory, Group1)
         /\ prefixes[pfx.offset_mandatory] = pfx.mandatory_candidate
    /\ pfx.mandatory_candidate = OSZ =>
         /\ Present(Group1) = {}
         /\ First(pfx.offset_mandatory, {OSZ})
    /\ pfx.mandatory_candidate = 0 => Present(Group1 \cup {OSZ}) = {}

(* The segment override is the last prefix that can be one in this mode: a *)
(* later 2E, 36, 3E or 26 does not displace FS or GS in 64-bit mode.       *)
SegmentChoice ==
    LET overrides == IF mode = "LONG_64" THEN NewSegments ELSE Group2
    IN  IF pfx.effective_segment = 0 THEN Present(overrides) = {}
        ELSE /\ Last(pfx.offset_segment, overrides)
             /\ prefixes[pfx.offset_segment] = pfx.effective_segment

(* REX counts only when it is the last prefix of all: a later prefix of    *)
(* any kind cancels it, and a later REX replaces it.                       *)
RexIsLast ==
    LET last == prefixes[prefixCount - 1]
    IN  IF prefixCount > 0 /\ IsRex(last)
        THEN rex = last /\ rexOffset = prefixCount - 1
        ELSE rex = 0 /\ rexOffset = 0

(* Where a CET no-track prefix may be once the loop is over: in 64-bit     *)
(* mode the last 3E, unless FS or GS is anywhere among the prefixes; in    *)
(* the other modes the last segment prefix, if that is a 3E.               *)
NotrackChoice ==
    status = "TREE" =>
      LET valid(i) == IF mode = "LONG_64"
                      THEN Last(i, {DS}) /\ Present(NewSegments) = {}
                      ELSE Last(i, Group2) /\ prefixes[i] = DS
      IN  IF pfx.offset_notrack = -1
          THEN \A i \in 0 .. prefixCount - 1 : ~valid(i)
          ELSE valid(pfx.offset_notrack)

(* When the loop ends exactly the last 66, the last 67 and an uncancelled  *)
(* REX are marked as effective, and the attributes agree with the marks.   *)
CollectedMarks ==
    status = "TREE" =>
      /\ \A i \in Slots :
           types[i] = IF \/ Last(i, {OSZ})
                         \/ Last(i, {ASZ})
                         \/ i = prefixCount - 1 /\ IsRex(prefixes[i])
                      THEN "EFFECTIVE" ELSE "IGNORED"
      /\ ("HAS_OPERANDSIZE" \in attributes) <=> (Present({OSZ}) # {})
      /\ ("HAS_ADDRESSSIZE" \in attributes) <=> (Present({ASZ}) # {})
      /\ ("HAS_REX" \in attributes) <=>
           \E i \in 0 .. prefixCount - 1 :
             i = prefixCount - 1 /\ IsRex(prefixes[i])
=============================================================================
