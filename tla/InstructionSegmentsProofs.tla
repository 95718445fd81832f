---------------------- MODULE InstructionSegmentsProofs ----------------------
(***************************************************************************)
(* The segments of every instruction the decoder can return, proved for    *)
(* every set of definitions, every length limit, every input and every     *)
(* mode.                                                                   *)
(***************************************************************************)
EXTENDS InstructionSegments, DecoderMeaningProofs, SequenceTheorems

USE LengthAssumption, InputAssumption, ModeAssumption
USE DEF Switches, Heads, VectorNodes, LegacyNodes, PartSteps

-----------------------------------------------------------------------------
(* The lengths Segment.c takes for granted are those the decoder has read. *)

EscapeSized ==
    status \in {"TREE", "SUCCESS"} =>
      /\ encoding = "XOP" => raw.ESCAPE.size = 3
      /\ encoding = "VEX" => raw.ESCAPE.size \in 2 .. 3
      /\ encoding \in {"EVEX", "MVEX"} => raw.ESCAPE.size = 4
      /\ encoding = "REX2" => raw.ESCAPE.size = 2

LEMMA InitEscapeSized == Init => EscapeSized
  BY DEF Init, InitPrefixes, EscapeSized

LEMMA WalkEscapeSized ==
  ASSUME Meaning, EscapeSized, Continues, Walk
  PROVE  EscapeSized'
  <1>1. status = "TREE" /\ ~Failing
    BY DEF Continues
  <1>2. raw \in [Fields -> [offset : Int, size : Nat]]
    BY DEF Meaning, Sized
  <1>3. CASE \/ Opcode3DNow \/ Rex2Node \/ MandatoryPrefix \/ OperandSize
             \/ VectorNode \/ Fallback \/ \E p \in Bytes : Escape(p)
    BY <1>1, <1>3 DEF Opcode3DNow, Rex2Node, MandatoryPrefix, OperandSize,
       VectorNode, Fallback, FallbackState, Escape, treeVars, EscapeSized
  <1>4. ASSUME NEW b \in Bytes, Opcode(b) PROVE EscapeSized'
    <2>1. encoding' \in {encoding, "3DNOW"} /\ raw' = raw
      BY <1>4 DEF Opcode
    <2> QED
      BY <1>1, <2>1 DEF EscapeSized
  <1>5. CASE SwitchTable
    <2>1. encoding \in Expected \cup OwnMeaning
      BY <1>5 DEF SwitchTable, Expected, Meaning, Control, NodeFitsEncoding
    <2> QED
      BY <1>1, <1>5, <2>1 DEF SwitchTable, treeVars, EscapeSized
  <1>6. ASSUME NEW w \in 0 .. 1, VectorPrefix(w) PROVE EscapeSized'
    <2>1. /\ node = "VECTOR_PREFIX" /\ encoding' = PrefixEncoding
          /\ raw' = [raw EXCEPT !.ESCAPE = [offset |-> length - 1,
                                            size |-> 1 + PayloadBytes]]
      BY <1>6 DEF VectorPrefix, At
    <2>2. opcode \in {98, 143, 196, 197}
      BY <2>1 DEF Meaning, Control, NodeFitsEncoding
    <2>3. raw'["ESCAPE"].size = 1 + PayloadBytes
      BY <1>2, <2>1 DEF Fields
    <2> QED
      BY <2>1, <2>2, <2>3 DEF PayloadBytes, PrefixEncoding, EscapeSized
  <1>7. ASSUME NEW w \in 0 .. 1, NEW m0 \in 0 .. 1, Rex2(w, m0) PROVE EscapeSized'
    <2>1. /\ encoding' = "REX2"
          /\ raw' = [raw EXCEPT !.ESCAPE = [offset |-> length - 1, size |-> 2]]
      BY <1>7 DEF Rex2
    <2> QED
      BY <1>2, <2>1 DEF Fields, EscapeSized
  <1>8. CASE Modrm
    <2>1. encoding' = encoding /\ raw'["ESCAPE"] = raw["ESCAPE"]
      BY <1>2, <1>8 DEF Modrm, ReadModrm, Read, Fields, Parts
    <2> QED
      BY <1>1, <2>1 DEF EscapeSized
  <1> QED
    BY <1>1, <1>3, <1>4, <1>5, <1>6, <1>7, <1>8 DEF Walk, Failing

LEMMA EscapeSizedStep ==
  ASSUME Meaning, EscapeSized, [Next]_vars
  PROVE  EscapeSized'
  <1>1. CASE Collect /\ IInv' /\ status = "PREFIXES"
    BY <1>1 DEF Collect, Meaning, Control, AtTheStart, EscapeSized
  <1>2. CASE Refused
    BY <1>2 DEF Refused, RefusedWith, Fail, Errors, EscapeSized
  <1>3. CASE Succeed \/ UNCHANGED vars
    BY <1>3 DEF Succeed, At, vars, prefixVars, treeVars, EscapeSized
  <1>4. CASE Continues /\ Walk
    BY <1>4, WalkEscapeSized
  <1>5. CASE Part
    <2>1. PartOf[node] \in Parts /\ status = "TREE" /\ encoding' = encoding
      BY <1>5 DEF Part, AtPart, PartOf, Parts
    <2>2. raw'["ESCAPE"] = raw["ESCAPE"]
      BY <1>5, <2>1 DEF Part, Read, Meaning, Sized, Fields, Parts
    <2> QED
      BY <2>1, <2>2 DEF EscapeSized
  <1>6. CASE \/ \E d \in Definitions : Definition(d) \/ ThreeDNowOpcode(d)
             \/ CheckErrorConditions
    BY <1>6 DEF Definition, ThreeDNowOpcode, CheckErrorConditions, At, treeVars,
       EscapeSized
  <1> QED
    BY <1>1, <1>2, <1>3, <1>4, <1>5, <1>6, StepKinds DEF Continues, Decode, Failing

-----------------------------------------------------------------------------
(* A REX byte is effective where it is the last prefix and HAS_REX says    *)
(* so, and ignored everywhere else.                                        *)
RexMarks ==
    status = "SUCCESS" =>
      \A k \in 0 .. prefixCount - 1 :
        IsRex(prefixes[k]) =>
          types[k] = IF "HAS_REX" \in attributes /\ k = prefixCount - 1
                     THEN "EFFECTIVE" ELSE "IGNORED"

LEMMA SucceedRexMarks == Meaning /\ Succeed => RexMarks'
  <1> SUFFICES ASSUME Meaning, Succeed PROVE RexMarks'
    OBVIOUS
  <1>0. UNCHANGED <<mode, prefixes, prefixCount>>
    BY Answered DEF prefixFacts
  <1> SUFFICES ASSUME NEW k \in 0 .. prefixCount - 1, IsRex(prefixes[k])
               PROVE  types'[k] = IF "HAS_REX" \in attributes' /\ k = prefixCount - 1
                                  THEN "EFFECTIVE" ELSE "IGNORED"
    BY <1>0 DEF RexMarks, IsRex
  <1>1. k \in Slots /\ status = "TREE"
    BY Answered, SlotsUsed DEF Succeed, At
  <1>2. ~Last(k, {OSZ}) /\ ~Last(k, {ASZ})
    <2>1. ~IsRex(OSZ) /\ ~IsRex(ASZ)
      BY DEF IsRex, OSZ, ASZ
    <2> QED
      BY <2>1, Unique
  <1>3. k \notin Consumed
    <2>1. Consumed \subseteq Candidate
      BY <1>1 DEF Meaning, Marked, Walking
    <2> QED
      BY <2>1, Answered, CandidateFacts DEF Candidate
  <1>4. types[k] = IF "HAS_REX" \in attributes /\ k = prefixCount - 1
                   THEN "EFFECTIVE" ELSE "IGNORED"
    BY <1>1, <1>2, <1>3 DEF Meaning, Marked, Walking, Overriding
  <1>5. "HAS_REX" \in attributes' <=> "HAS_REX" \in attributes
    <2>1. "HAS_REX" \notin Added
      BY Answered, AddedNames, SegmentAttributeNames
      DEF Added, RepeatAttributes, BranchAttributes
    <2> QED
      BY <2>1, Answered DEF SetAttributes, Added
  <1>6. types'[k] = types[k]
    <2>1. CASE "MINIMAL" \in modes
      BY <2>1, Answered
    <2>2. CASE "MINIMAL" \notin modes
      <3>1. ~ \E a \in Added : Marking(a, k)
        <4>1. SUFFICES ASSUME NEW a \in Added, Marking(a, k) PROVE FALSE
          OBVIOUS
        <4>2. Names(a, k)
          BY <4>1, Answered, MarkingNames
        <4>3. prefixes[k] \in {LOCK} \cup Group1 \cup Group2
          BY <4>2, Answered, ByteOfName
        <4> QED
          BY <4>3 DEF IsRex, LOCK, Group1, Group2, OldSegments, NewSegments, REPNE,
             REP, CS, SS, DS, ES, FS, GS
      <3>2. k \notin NowEffective
        BY <3>1 DEF Added, Marking, NowEffective, Mark, Group1Mark
      <3> QED
        BY <1>1, <2>2, <3>2, Answered DEF SetAttributes
    <2> QED
      BY <2>1, <2>2
  <1> QED
    BY <1>4, <1>5, <1>6

LEMMA RexMarksStep ==
  ASSUME Meaning, RexMarks, [Next]_vars
  PROVE  RexMarks'
  <1>1. CASE UNCHANGED vars
    BY <1>1 DEF vars, prefixVars, RexMarks, IsRex
  <1>2. CASE status' # "SUCCESS"
    BY <1>2 DEF RexMarks
  <1> QED
    BY <1>1, <1>2, SuccessStep, SucceedRexMarks

-----------------------------------------------------------------------------
(* Sequences of segments that cover the bytes from a up to b.              *)

Kinds == Encodings \cup {"PREFIXES", "REX", "OPCODE", "MODRM", "SIB",
                         "DISPLACEMENT", "IMMEDIATE"}

Covering == [type : Kinds, offset : Int, size : Nat \ {0}]

Tiles(s, a, b) ==
    /\ s \in Seq(Covering)
    /\ s = <<>> => a = b
    /\ s # <<>> => s[1].offset = a /\ s[Len(s)].offset + s[Len(s)].size = b
    /\ \A i \in 2 .. Len(s) : s[i].offset = s[i - 1].offset + s[i - 1].size

LEMMA TilesJoin ==
  ASSUME NEW s, NEW t, NEW a, NEW b, NEW c, Tiles(s, a, b), Tiles(t, b, c)
  PROVE  Tiles(s \o t, a, c) /\ Len(s \o t) = Len(s) + Len(t)
  <1>1. s \in Seq(Covering) /\ t \in Seq(Covering)
    BY DEF Tiles
  <1>2. /\ s \o t \in Seq(Covering) /\ Len(s \o t) = Len(s) + Len(t)
        /\ \A i \in 1 .. Len(s) + Len(t) :
             (s \o t)[i] = IF i <= Len(s) THEN s[i] ELSE t[i - Len(s)]
    BY <1>1, ConcatProperties
  <1>3. CASE s = <<>>
    <2>1. s \o t = t /\ a = b
      BY <1>1, <1>3, ConcatEmptySeq DEF Tiles
    <2> QED
      BY <1>2, <2>1 DEF Tiles
  <1>4. CASE t = <<>>
    <2>1. s \o t = s /\ b = c
      BY <1>1, <1>4, ConcatEmptySeq DEF Tiles
    <2> QED
      BY <1>2, <2>1 DEF Tiles
  <1>5. CASE s # <<>> /\ t # <<>>
    <2>1. Len(s) \in Nat \ {0} /\ Len(t) \in Nat \ {0}
      BY <1>1, <1>5, EmptySeq
    <2>2. s \o t # <<>>
      BY <1>2, <2>1
    <2>3. (s \o t)[1].offset = a
      BY <1>2, <1>5, <2>1 DEF Tiles
    <2>4. (s \o t)[Len(s \o t)] = t[Len(t)]
      BY <1>2, <2>1
    <2>5. ASSUME NEW i \in 2 .. Len(s \o t)
          PROVE  (s \o t)[i].offset = (s \o t)[i - 1].offset + (s \o t)[i - 1].size
      <3>1. CASE i <= Len(s)
        BY <1>2, <2>1, <3>1 DEF Tiles
      <3>2. CASE i = Len(s) + 1
        BY <1>2, <1>5, <2>1, <3>2 DEF Tiles
      <3>3. CASE i > Len(s) + 1
        <4>1. i - Len(s) \in 2 .. Len(t)
          BY <1>2, <2>1, <3>3
        <4> QED
          BY <1>2, <2>1, <3>3, <4>1 DEF Tiles
      <3> QED
        BY <2>1, <3>1, <3>2, <3>3
    <2> QED
      BY <1>2, <1>5, <2>2, <2>3, <2>4, <2>5 DEF Tiles
  <1> QED
    BY <1>3, <1>4, <1>5

LEMMA TilesOne ==
  ASSUME NEW g \in Covering
  PROVE  Tiles(<<g>>, g.offset, g.offset + g.size) /\ Len(<<g>>) = 1
  <1>1. <<g>> \in Seq(Covering) /\ Len(<<g>>) = 1 /\ <<g>>[1] = g
    OBVIOUS
  <1>2. <<g>> # <<>>
    BY <1>1, EmptySeq
  <1> QED
    BY <1>1, <1>2 DEF Tiles

LEMMA TilesSegment ==
  ASSUME NEW kind \in Kinds, NEW a \in Int, NEW n \in Nat \ {0}
  PROVE  Tiles(<<Segment(kind, a, n)>>, a, a + n) /\ Len(<<Segment(kind, a, n)>>) = 1
  <1>1. /\ Segment(kind, a, n) \in Covering /\ Segment(kind, a, n).offset = a
        /\ Segment(kind, a, n).size = n
    BY DEF Segment, Covering
  <1> QED
    BY <1>1, TilesOne

LEMMA TilesNone == \A a : Tiles(<<>>, a, a) /\ Len(<<>>) = 0
  BY EmptySeq DEF Tiles

-----------------------------------------------------------------------------
(* The segments of a decoded instruction, one after the other.             *)

Decoded == Meaning /\ EscapeSized /\ RexMarks /\ status = "SUCCESS"

LEMMA DecodedNumbers ==
  ASSUME Decoded
  PROVE  /\ prefixCount \in Nat /\ length \in Nat
         /\ \A p \in Fields : raw[p].size \in Nat
         /\ OpcodeBytes \in Nat
         /\ encoding \in Encodings
         /\ encoding \in {"LEGACY", "3DNOW"} => raw.ESCAPE.size = 0
         /\ raw.ESCAPE.size > 0 => raw.ESCAPE.offset = prefixCount
         /\ \A p \in Parts : raw[p].size > 0 => raw[p].offset = PartStart[p]
         /\ length = PartStart.IMM1 + raw.IMM1.size
                       + (IF encoding = "3DNOW" THEN 1 ELSE 0)
  <1>1. Control /\ Sized /\ Layout
    BY DEF Decoded, Meaning
  <1>2. PartsTileInstruction
    BY <1>1, LayoutTiles
  <1>3. PartsPlaced
    BY <1>1 DEF Layout, Decoded
  <1>4. \A p \in Fields : raw[p].size \in Nat
    BY <1>1 DEF Sized
  <1>5. \A p \in Parts : raw[p].size > 0 => raw[p].offset = PartStart[p]
    BY <1>2, <1>4 DEF PartsTileInstruction, Decoded, Fields
  <1> QED
    BY <1>1, <1>2, <1>3, <1>4, <1>5, OpcodeBytesNumber
    DEF Sized, Control, EncodingKnown, PartsTileInstruction, PartsPlaced, Decoded

LEMMA DecodedStarts ==
  ASSUME Decoded
  PROVE  /\ PartStart.MODRM = prefixCount + raw.ESCAPE.size + OpcodeBytes
         /\ PartStart.SIB = PartStart.MODRM + raw.MODRM.size
         /\ PartStart.DISP = PartStart.SIB + raw.SIB.size
         /\ PartStart.IMM0 = PartStart.DISP + raw.DISP.size
         /\ PartStart.IMM1 = PartStart.IMM0 + raw.IMM0.size
         /\ \A p \in Parts : PartStart[p] \in Nat
  <1>1. /\ prefixCount \in Nat /\ raw.ESCAPE.size \in Nat /\ OpcodeBytes \in Nat
        /\ raw.MODRM.size \in Nat /\ raw.SIB.size \in Nat /\ raw.DISP.size \in Nat
        /\ raw.IMM0.size \in Nat /\ raw.IMM1.size \in Nat
    BY DecodedNumbers DEF Fields, Parts
  <1>2. /\ PartStart.MODRM = prefixCount + raw.ESCAPE.size + OpcodeBytes
        /\ PartStart.SIB = PartStart.MODRM + raw.MODRM.size
        /\ PartStart.DISP = PartStart.SIB + raw.SIB.size
        /\ PartStart.IMM0 = PartStart.DISP + raw.DISP.size
        /\ PartStart.IMM1 = PartStart.IMM0 + raw.IMM0.size
    BY <1>1, PartStarts
  <1> QED
    BY <1>1, <1>2 DEF Parts

(* A REX prefix that counts is the last prefix, and excludes any other     *)
(* encoding prefix.                                                        *)
LEMMA RexExcludes ==
  ASSUME Decoded
  PROVE  "HAS_REX" \in attributes <=> LastRex /\ encoding \in {"LEGACY", "3DNOW"}
  <1>1. attributes \cap EncodingAttributes = EncodingMarks
    BY DEF Decoded, Meaning, Encoded
  <1>2. "HAS_REX" \in attributes <=> "HAS_REX" \in EncodingMarks
    BY <1>1 DEF EncodingAttributes
  <1>3. "HAS_REX" \in EncodingMarks <=> LastRex /\ encoding \notin Modern \cup {"REX2"}
    BY DecodedNumbers DEF EncodingMarks, HasPrefix, Modern
  <1> QED
    BY <1>2, <1>3, DecodedNumbers DEF Encodings, Modern

LEMMA PrefixSegmentsTile ==
  ASSUME Decoded
  PROVE  /\ Tiles(PrefixSegments, 0, prefixCount)
         /\ Len(PrefixSegments) \in 0 .. (IF "HAS_REX" \in attributes THEN 2 ELSE 1)
  <1>1. prefixCount \in Nat /\ "PREFIXES" \in Kinds /\ "REX" \in Kinds
    BY DecodedNumbers DEF Kinds
  <1>2. CASE "HAS_REX" \in attributes
    <2> DEFINE p == If(prefixCount > 1, Segment("PREFIXES", 0, prefixCount - 1))
               r == <<Segment("REX", prefixCount - 1, 1)>>
    <2>1. prefixCount > 0
      BY <1>2, RexExcludes DEF LastRex
    <2>2. PrefixSegments = p \o r
      BY <1>2, <2>1 DEF PrefixSegments, If
    <2>3. Tiles(p, 0, prefixCount - 1) /\ Len(p) \in 0 .. 1
      <3>1. CASE prefixCount > 1
        <4>1. prefixCount - 1 \in Nat \ {0} /\ 0 + (prefixCount - 1) = prefixCount - 1
          BY <1>1, <3>1
        <4>2. p = <<Segment("PREFIXES", 0, prefixCount - 1)>>
          BY <3>1 DEF If
        <4> QED
          BY <1>1, <4>1, <4>2, TilesSegment
      <3>2. CASE ~(prefixCount > 1)
        <4>1. p = <<>> /\ prefixCount - 1 = 0
          BY <1>1, <2>1, <3>2 DEF If
        <4> QED
          BY <4>1, TilesNone
      <3> QED
        BY <3>1, <3>2
    <2>4. Tiles(r, prefixCount - 1, prefixCount) /\ Len(r) = 1
      <3>1. prefixCount - 1 \in Int /\ prefixCount - 1 + 1 = prefixCount
        BY <1>1
      <3> QED
        BY <1>1, <3>1, TilesSegment
    <2> HIDE DEF p, r
    <2>5. /\ Tiles(PrefixSegments, 0, prefixCount)
          /\ Len(PrefixSegments) = Len(p) + 1
      BY <2>2, <2>3, <2>4, TilesJoin
    <2>6. Len(PrefixSegments) \in 0 .. 2
      <3>1. \A n \in 0 .. 1 : n + 1 \in 0 .. 2
        OBVIOUS
      <3>2. Len(p) \in 0 .. 1
        BY <2>3
      <3> QED
        BY <2>5, <3>1, <3>2
    <2> QED
      BY <1>2, <2>5, <2>6
  <1>3. CASE "HAS_REX" \notin attributes
    <2>1. PrefixSegments = IF prefixCount > 0 THEN <<Segment("PREFIXES", 0, prefixCount)>>
                                              ELSE <<>>
      <3>1. prefixCount - 0 = prefixCount
        BY <1>1
      <3>2. PrefixSegments = If(prefixCount > 0, Segment("PREFIXES", 0, prefixCount)) \o <<>>
        BY <1>3, <3>1 DEF PrefixSegments, If
      <3>3. \A g : <<g>> \o <<>> = <<g>>
        OBVIOUS
      <3>4. <<>> \o <<>> = <<>>
        OBVIOUS
      <3> QED
        BY <3>2, <3>3, <3>4 DEF If
    <2>2. CASE prefixCount > 0
      <3>1. prefixCount \in Nat \ {0} /\ 0 + prefixCount = prefixCount
        BY <1>1, <2>2
      <3> QED
        BY <1>1, <1>3, <2>1, <2>2, <3>1, TilesSegment
    <2>3. CASE ~(prefixCount > 0)
      <3>1. prefixCount = 0
        BY <1>1, <2>3
      <3> QED
        BY <1>3, <2>1, <3>1, TilesNone
    <2> QED
      BY <2>2, <2>3
  <1> QED
    BY <1>2, <1>3

LEMMA EncodingSegmentTiles ==
  ASSUME Decoded
  PROVE  /\ Tiles(EncodingSegment, prefixCount, prefixCount + raw.ESCAPE.size)
         /\ Len(EncodingSegment) \in 0 .. (IF "HAS_REX" \in attributes THEN 0 ELSE 1)
  <1>1. /\ prefixCount \in Nat /\ raw.ESCAPE.size \in Nat
        /\ encoding \in Encodings
    BY DecodedNumbers DEF Fields
  <1>2. CASE encoding \in Modern \cup {"REX2"}
    <2>1. EncodingPrefixSize = raw.ESCAPE.size /\ raw.ESCAPE.size > 0
      BY <1>2 DEF Decoded, EscapeSized, EncodingPrefixSize, Modern
    <2>2. raw.ESCAPE.offset = prefixCount
      BY <2>1, DecodedNumbers
    <2>3. /\ Segment(encoding, raw.ESCAPE.offset, EncodingPrefixSize) \in Covering
          /\ Segment(encoding, raw.ESCAPE.offset, EncodingPrefixSize).offset = prefixCount
          /\ Segment(encoding, raw.ESCAPE.offset, EncodingPrefixSize).size = raw.ESCAPE.size
      BY <1>1, <2>1, <2>2 DEF Segment, Covering, Kinds
    <2>4. "HAS_REX" \notin attributes
      BY <1>2, RexExcludes DEF Modern
    <2> QED
      BY <1>2, <2>3, <2>4, TilesOne DEF EncodingSegment
  <1>3. CASE encoding \notin Modern \cup {"REX2"}
    <2>1. EncodingSegment = <<>>
      BY <1>3 DEF EncodingSegment
    <2>2. raw.ESCAPE.size = 0 /\ prefixCount + 0 = prefixCount
      BY <1>1, <1>3, DecodedNumbers DEF Encodings
    <2> QED
      BY <2>1, <2>2, TilesNone
  <1> QED
    BY <1>2, <1>3

(* What is listed before the opcode ends where the opcode starts.          *)
Before == PrefixSegments \o EncodingSegment

LEMMA BeforeTiles ==
  ASSUME Decoded
  PROVE  /\ Tiles(Before, 0, prefixCount + raw.ESCAPE.size)
         /\ Len(Before) \in 0 .. 2
  <1>1. /\ Tiles(Before, 0, prefixCount + raw.ESCAPE.size)
        /\ Len(Before) = Len(PrefixSegments) + Len(EncodingSegment)
    BY PrefixSegmentsTile, EncodingSegmentTiles, TilesJoin DEF Before
  <1>2. \A m \in 0 .. 2, n \in 0 .. 0 : m + n \in 0 .. 2
    OBVIOUS
  <1>3. \A m \in 0 .. 1, n \in 0 .. 1 : m + n \in 0 .. 2
    OBVIOUS
  <1>4. CASE "HAS_REX" \in attributes
    <2>1. Len(PrefixSegments) \in 0 .. 2 /\ Len(EncodingSegment) \in 0 .. 0
      BY <1>4, PrefixSegmentsTile, EncodingSegmentTiles
    <2> QED
      BY <1>1, <1>2, <2>1
  <1>5. CASE "HAS_REX" \notin attributes
    <2>1. Len(PrefixSegments) \in 0 .. 1 /\ Len(EncodingSegment) \in 0 .. 1
      BY <1>5, PrefixSegmentsTile, EncodingSegmentTiles
    <2> QED
      BY <1>1, <1>3, <2>1
  <1> QED
    BY <1>4, <1>5

(* The size Segment.c guesses for the opcode is the number of opcode bytes *)
(* the walk has read, and its offset is behind the prefixes.               *)
LEMMA OpcodeSegmentPlaced ==
  ASSUME Decoded
  PROVE  OpcodeSegment(Before)
           = Segment("OPCODE", prefixCount + raw.ESCAPE.size, OpcodeBytes)
  <1>1. Tiles(Before, 0, prefixCount + raw.ESCAPE.size)
    BY BeforeTiles
  <1>2. OpcodeSize = OpcodeBytes
    BY DecodedNumbers DEF OpcodeSize, OpcodeBytes, Encodings, Modern
  <1>3. CASE Before = <<>>
    BY <1>1, <1>2, <1>3 DEF OpcodeSegment, Tiles
  <1>4. CASE Before # <<>>
    BY <1>1, <1>2, <1>4 DEF OpcodeSegment, Tiles
  <1> QED
    BY <1>3, <1>4

LEMMA OpcodeSegmentTiles ==
  ASSUME Decoded
  PROVE  /\ Tiles(<<OpcodeSegment(Before)>>, prefixCount + raw.ESCAPE.size,
                  PartStart.MODRM)
         /\ Len(<<OpcodeSegment(Before)>>) = 1
  <1>1. /\ prefixCount + raw.ESCAPE.size \in Int
        /\ OpcodeBytes \in Nat \ {0} /\ "OPCODE" \in Kinds
    BY DecodedNumbers DEF Fields, OpcodeBytes, Kinds
  <1> QED
    BY <1>1, OpcodeSegmentPlaced, DecodedStarts, TilesSegment

LEMMA PartSegmentTiles ==
  ASSUME Decoded, NEW p \in Parts, NEW kind \in Kinds
  PROVE  /\ Tiles(PartSegment(p, kind), PartStart[p], PartStart[p] + raw[p].size)
         /\ Len(PartSegment(p, kind)) \in 0 .. 1
  <1>1. PartStart[p] \in Nat /\ raw[p].size \in Nat
    BY DecodedStarts, DecodedNumbers DEF Fields
  <1>2. CASE raw[p].size > 0
    <2>1. PartSegment(p, kind) = <<Segment(kind, PartStart[p], raw[p].size)>>
      BY <1>2, DecodedNumbers DEF PartSegment, If, HasPart
    <2>2. PartStart[p] \in Int /\ raw[p].size \in Nat \ {0}
      BY <1>1, <1>2
    <2> QED
      BY <2>1, <2>2, TilesSegment
  <1>3. CASE ~(raw[p].size > 0)
    <2>1. PartSegment(p, kind) = <<>>
      BY <1>3 DEF PartSegment, If, HasPart
    <2>2. PartStart[p] + raw[p].size = PartStart[p]
      BY <1>1, <1>3
    <2> QED
      BY <2>1, <2>2, TilesNone
  <1> QED
    BY <1>2, <1>3

(* The opcode of a 3DNow! instruction is its last byte.                    *)
ThreeDNowSegment == If(encoding = "3DNOW", Segment("OPCODE", length - 1, 1))

LEMMA ThreeDNowSegmentTiles ==
  ASSUME Decoded
  PROVE  /\ Tiles(ThreeDNowSegment, PartStart.IMM1 + raw.IMM1.size, length)
         /\ Len(ThreeDNowSegment) \in 0 .. 1
  <1>1. /\ PartStart.IMM1 + raw.IMM1.size \in Int /\ "OPCODE" \in Kinds
        /\ PartStart.IMM1 \in Nat /\ raw.IMM1.size \in Nat
    BY DecodedStarts, DecodedNumbers DEF Fields, Parts, Kinds
  <1>2. CASE encoding = "3DNOW"
    <2>1. /\ length - 1 = PartStart.IMM1 + raw.IMM1.size
          /\ PartStart.IMM1 + raw.IMM1.size + 1 = length
      BY <1>1, <1>2, DecodedNumbers
    <2>2. ThreeDNowSegment = <<Segment("OPCODE", PartStart.IMM1 + raw.IMM1.size, 1)>>
      BY <1>2, <2>1 DEF ThreeDNowSegment, If
    <2> QED
      BY <1>1, <2>1, <2>2, TilesSegment
  <1>3. CASE encoding # "3DNOW"
    <2>1. ThreeDNowSegment = <<>> /\ length = PartStart.IMM1 + raw.IMM1.size
      BY <1>1, <1>3, DecodedNumbers DEF ThreeDNowSegment, If
    <2> QED
      BY <2>1, TilesNone
  <1> QED
    BY <1>2, <1>3

(* The list up to the opcode, and the list of the parts behind it.         *)
Lead == Before \o <<OpcodeSegment(Before)>>

LEMMA LeadTiles ==
  ASSUME Decoded
  PROVE  Tiles(Lead, 0, PartStart.MODRM) /\ Len(Lead) \in 1 .. 3
  <1>1. Tiles(Lead, 0, PartStart.MODRM) /\ Len(Lead) = Len(Before) + 1
    BY BeforeTiles, OpcodeSegmentTiles, TilesJoin DEF Lead
  <1>2. \A n \in 0 .. 2 : n + 1 \in 1 .. 3
    OBVIOUS
  <1> QED
    BY <1>1, <1>2, BeforeTiles

(* The bound 9 is what the shape of the list gives: two entries before the *)
(* opcode at most, the opcode, five parts, and the opcode of 3DNow!.       *)
LEMMA SegmentsTile ==
  ASSUME Decoded
  PROVE  /\ Tiles(ZydisGetInstructionSegments, 0, length)
         /\ Len(ZydisGetInstructionSegments) \in 1 .. 9
  <1> DEFINE m == PartSegment("MODRM", "MODRM")
             s == PartSegment("SIB", "SIB")
             d == PartSegment("DISP", "DISPLACEMENT")
             i == PartSegment("IMM0", "IMMEDIATE")
             j == PartSegment("IMM1", "IMMEDIATE")
             o == ThreeDNowSegment
  <1>1. /\ "MODRM" \in Parts \cap Kinds /\ "SIB" \in Parts \cap Kinds
        /\ "DISP" \in Parts /\ "DISPLACEMENT" \in Kinds
        /\ "IMM0" \in Parts /\ "IMM1" \in Parts /\ "IMMEDIATE" \in Kinds
    BY DEF Parts, Kinds
  <1>2. /\ PartStart.SIB = PartStart.MODRM + raw.MODRM.size
        /\ PartStart.DISP = PartStart.SIB + raw.SIB.size
        /\ PartStart.IMM0 = PartStart.DISP + raw.DISP.size
        /\ PartStart.IMM1 = PartStart.IMM0 + raw.IMM0.size
    BY DecodedStarts
  <1>3. /\ Tiles(m, PartStart.MODRM, PartStart.SIB) /\ Len(m) \in 0 .. 1
        /\ Tiles(s, PartStart.SIB, PartStart.DISP) /\ Len(s) \in 0 .. 1
    BY <1>1, <1>2, PartSegmentTiles
  <1>4. /\ Tiles(d, PartStart.DISP, PartStart.IMM0) /\ Len(d) \in 0 .. 1
        /\ Tiles(i, PartStart.IMM0, PartStart.IMM1) /\ Len(i) \in 0 .. 1
        /\ Tiles(j, PartStart.IMM1, PartStart.IMM1 + raw.IMM1.size) /\ Len(j) \in 0 .. 1
    BY <1>1, <1>2, PartSegmentTiles
  <1>5. ZydisGetInstructionSegments = Lead \o m \o s \o d \o i \o j \o o
    BY DEF ZydisGetInstructionSegments, Lead, Before, ThreeDNowSegment
  <1>6. Tiles(o, PartStart.IMM1 + raw.IMM1.size, length) /\ Len(o) \in 0 .. 1
    BY ThreeDNowSegmentTiles
  <1> HIDE DEF m, s, d, i, j, o
  <1>7. Tiles(Lead \o m, 0, PartStart.SIB) /\ Len(Lead \o m) \in 1 .. 4
    <2>1. Tiles(Lead \o m, 0, PartStart.SIB) /\ Len(Lead \o m) = Len(Lead) + Len(m)
      BY <1>3, LeadTiles, TilesJoin
    <2>2. \A n \in 1 .. 3, k \in 0 .. 1 : n + k \in 1 .. 4
      OBVIOUS
    <2> QED
      BY <1>3, <2>1, <2>2, LeadTiles
  <1>8. /\ Tiles(Lead \o m \o s, 0, PartStart.DISP)
        /\ Len(Lead \o m \o s) \in 1 .. 5
    <2>1. /\ Tiles(Lead \o m \o s, 0, PartStart.DISP)
          /\ Len(Lead \o m \o s) = Len(Lead \o m) + Len(s)
      BY <1>3, <1>7, TilesJoin
    <2>2. \A n \in 1 .. 4, k \in 0 .. 1 : n + k \in 1 .. 5
      OBVIOUS
    <2> QED
      BY <1>3, <1>7, <2>1, <2>2
  <1>9. /\ Tiles(Lead \o m \o s \o d, 0, PartStart.IMM0)
         /\ Len(Lead \o m \o s \o d) \in 1 .. 6
    <2>1. /\ Tiles(Lead \o m \o s \o d, 0, PartStart.IMM0)
          /\ Len(Lead \o m \o s \o d) = Len(Lead \o m \o s) + Len(d)
      BY <1>4, <1>8, TilesJoin
    <2>2. \A n \in 1 .. 5, k \in 0 .. 1 : n + k \in 1 .. 6
      OBVIOUS
    <2> QED
      BY <1>4, <1>8, <2>1, <2>2
  <1>10. /\ Tiles(Lead \o m \o s \o d \o i, 0, PartStart.IMM1)
         /\ Len(Lead \o m \o s \o d \o i) \in 1 .. 7
    <2>1. /\ Tiles(Lead \o m \o s \o d \o i, 0, PartStart.IMM1)
          /\ Len(Lead \o m \o s \o d \o i) = Len(Lead \o m \o s \o d) + Len(i)
      BY <1>4, <1>9, TilesJoin
    <2>2. \A n \in 1 .. 6, k \in 0 .. 1 : n + k \in 1 .. 7
      OBVIOUS
    <2> QED
      BY <1>4, <1>9, <2>1, <2>2
  <1>11. /\ Tiles(Lead \o m \o s \o d \o i \o j, 0, PartStart.IMM1 + raw.IMM1.size)
         /\ Len(Lead \o m \o s \o d \o i \o j) \in 1 .. 8
    <2>1. /\ Tiles(Lead \o m \o s \o d \o i \o j, 0, PartStart.IMM1 + raw.IMM1.size)
          /\ Len(Lead \o m \o s \o d \o i \o j)
               = Len(Lead \o m \o s \o d \o i) + Len(j)
      BY <1>4, <1>10, TilesJoin
    <2>2. \A n \in 1 .. 7, k \in 0 .. 1 : n + k \in 1 .. 8
      OBVIOUS
    <2> QED
      BY <1>4, <1>10, <2>1, <2>2
  <1> QED
    <2>1. /\ Tiles(Lead \o m \o s \o d \o i \o j \o o, 0, length)
          /\ Len(Lead \o m \o s \o d \o i \o j \o o)
               = Len(Lead \o m \o s \o d \o i \o j) + Len(o)
      BY <1>6, <1>11, TilesJoin
    <2>2. \A n \in 1 .. 8, k \in 0 .. 1 : n + k \in 1 .. 9
      OBVIOUS
    <2> QED
      BY <1>5, <1>6, <1>11, <2>1, <2>2

LEMMA DecodedTiles == Decoded => SegmentsTileInstruction
  <1> SUFFICES ASSUME Decoded PROVE SegmentsTileInstruction
    OBVIOUS
  <1> DEFINE s == ZydisGetInstructionSegments
  <1>1. Tiles(s, 0, length) /\ Len(s) \in 1 .. 9
    BY SegmentsTile
  <1> HIDE DEF s
  <1>2. s \in Seq(Covering) /\ s # <<>>
    <2>1. Len(<<>>) = 0 /\ 0 \notin 1 .. 9
      OBVIOUS
    <2> QED
      BY <1>1, <2>1 DEF Tiles
  <1>3. s[1].offset = 0 /\ s[Len(s)].offset + s[Len(s)].size = length
    BY <1>1, <1>2 DEF Tiles
  <1>4. \A i \in 1 .. Len(s) : s[i].size > 0
    <2>1. \A i \in 1 .. Len(s) : s[i] \in Covering
      BY <1>2, ElementOfSeq
    <2>2. \A g \in Covering : g.size \in Nat \ {0}
      BY DEF Covering
    <2>3. \A n \in Nat \ {0} : n > 0
      OBVIOUS
    <2> QED
      BY <2>1, <2>2, <2>3
  <1>5. \A i \in 2 .. Len(s) : s[i].offset = s[i - 1].offset + s[i - 1].size
    BY <1>1 DEF Tiles
  <1> QED
    BY <1>1, <1>3, <1>4, <1>5
    DEF s, SegmentsTileInstruction, ZYDIS_MAX_INSTRUCTION_SEGMENT_COUNT

-----------------------------------------------------------------------------
(* What a segment of type REX or PREFIXES stands for.                      *)
Explained(s) ==
    \A i \in 1 .. Len(s) :
      /\ s[i].type = "REX" =>
           /\ "HAS_REX" \in attributes /\ s[i].offset = prefixCount - 1
           /\ i + 1 \in 1 .. Len(s) /\ s[i + 1].type = "OPCODE"
      /\ s[i].type = "PREFIXES" =>
           /\ s[i].offset = 0
           /\ s[i].size = prefixCount - (IF "HAS_REX" \in attributes THEN 1 ELSE 0)

(* No such segment.                                                        *)
Behind(s) == \A i \in 1 .. Len(s) : s[i].type \notin {"REX", "PREFIXES"}

LEMMA ExplainedJoin ==
  ASSUME NEW s \in Seq(Covering), NEW t \in Seq(Covering), Explained(s), Behind(t)
  PROVE  Explained(s \o t) /\ s \o t \in Seq(Covering)
  <1>1. /\ s \o t \in Seq(Covering) /\ Len(s \o t) = Len(s) + Len(t)
        /\ \A i \in 1 .. Len(s) + Len(t) :
             (s \o t)[i] = IF i <= Len(s) THEN s[i] ELSE t[i - Len(s)]
    BY ConcatProperties
  <1>2. Len(s) \in Nat /\ Len(t) \in Nat
    OBVIOUS
  <1>3. ASSUME NEW i \in 1 .. Len(s)
        PROVE  /\ (s \o t)[i] = s[i]
               /\ i + 1 \in 1 .. Len(s) =>
                    i + 1 \in 1 .. Len(s \o t) /\ (s \o t)[i + 1] = s[i + 1]
    BY <1>1, <1>2
  <1>4. ASSUME NEW i \in 1 .. Len(s \o t), ~(i <= Len(s))
        PROVE  (s \o t)[i].type \notin {"REX", "PREFIXES"}
    <2>1. i - Len(s) \in 1 .. Len(t) /\ (s \o t)[i] = t[i - Len(s)]
      BY <1>1, <1>2, <1>4
    <2> QED
      BY <2>1 DEF Behind
  <1>5. \A i \in 1 .. Len(s \o t) : i <= Len(s) => i \in 1 .. Len(s)
    BY <1>2
  <1> QED
    BY <1>1, <1>3, <1>4, <1>5 DEF Explained

LEMMA BehindOne ==
  ASSUME NEW g, g.type \notin {"REX", "PREFIXES"}
  PROVE  Behind(<<g>>)
  BY DEF Behind

LEMMA BehindNone == Behind(<<>>)
  BY DEF Behind

LEMMA PartSegmentBehind ==
  ASSUME Decoded, NEW p \in Parts, NEW kind \in Kinds \ {"REX", "PREFIXES"}
  PROVE  Behind(PartSegment(p, kind)) /\ PartSegment(p, kind) \in Seq(Covering)
  <1>1. PartSegment(p, kind) \in Seq(Covering)
    BY PartSegmentTiles DEF Tiles
  <1>2. CASE HasPart(p)
    <2>1. PartSegment(p, kind) = <<Segment(kind, raw[p].offset, raw[p].size)>>
      BY <1>2 DEF PartSegment, If
    <2>2. Segment(kind, raw[p].offset, raw[p].size).type = kind
      BY DEF Segment
    <2> QED
      BY <1>1, <2>1, <2>2, BehindOne
  <1>3. CASE ~HasPart(p)
    BY <1>3, BehindNone DEF PartSegment, If
  <1> QED
    BY <1>1, <1>2, <1>3

LEMMA TwoThree ==
  ASSUME NEW x, NEW y, NEW z
  PROVE  LET two == <<x>> \o <<y>>
             three == two \o <<z>>
         IN  /\ Len(two) = 2 /\ two[1] = x /\ two[2] = y
             /\ Len(three) = 3 /\ three[1] = x /\ three[2] = y /\ three[3] = z
  <1> DEFINE S == {x, y, z}
             two == <<x>> \o <<y>>
             three == two \o <<z>>
  <1>1. /\ <<x>> \in Seq(S) /\ <<y>> \in Seq(S) /\ <<z>> \in Seq(S)
        /\ Len(<<x>>) = 1 /\ Len(<<y>>) = 1 /\ Len(<<z>>) = 1
        /\ <<x>>[1] = x /\ <<y>>[1] = y /\ <<z>>[1] = z
    OBVIOUS
  <1> HIDE DEF S
  <1>2. /\ two \in Seq(S) /\ Len(two) = 1 + 1
        /\ \A i \in 1 .. 1 + 1 : two[i] = IF i <= 1 THEN <<x>>[i] ELSE <<y>>[i - 1]
    BY <1>1, ConcatProperties
  <1>3. Len(two) = 2 /\ two[1] = x /\ two[2] = y
    BY <1>1, <1>2
  <1> HIDE DEF two
  <1>4. /\ Len(three) = 2 + 1
        /\ \A i \in 1 .. 2 + 1 : three[i] = IF i <= 2 THEN two[i] ELSE <<z>>[i - 2]
    BY <1>1, <1>2, <1>3, ConcatProperties
  <1>5. Len(three) = 3 /\ three[1] = x /\ three[2] = y /\ three[3] = z
    BY <1>1, <1>3, <1>4
  <1> QED
    BY <1>3, <1>5 DEF two

LEMMA HeadExplained ==
  ASSUME Decoded
  PROVE  Explained(Lead) /\ Lead \in Seq(Covering)
  <1>1. Lead \in Seq(Covering)
    BY LeadTiles DEF Tiles
  <1>2. PrefixSegments \in Seq(Covering) /\ EncodingSegment \in Seq(Covering)
    BY PrefixSegmentsTile, EncodingSegmentTiles DEF Tiles
  <1>3. <<OpcodeSegment(Before)>> \in Seq(Covering)
    BY OpcodeSegmentTiles DEF Tiles
  <1>4. OpcodeSegment(Before).type = "OPCODE" /\ OpcodeSegment(Before) \in Covering
    <2>1. OpcodeSegment(Before).type = "OPCODE"
      BY OpcodeSegmentPlaced DEF Segment
    <2>2. <<OpcodeSegment(Before)>>[1] \in Covering
      BY <1>3
    <2> QED
      BY <2>1, <2>2
  <1>5. prefixCount \in Nat
    BY DecodedNumbers
  <1>6. CASE "HAS_REX" \in attributes
    <2>1. prefixCount > 0 /\ EncodingSegment = <<>>
      <3>1. encoding \notin Modern \cup {"REX2"} /\ prefixCount > 0
        BY <1>6, RexExcludes DEF LastRex, Modern
      <3> QED
        BY <3>1 DEF EncodingSegment
    <2>2. Before = PrefixSegments
      BY <1>2, <2>1, ConcatEmptySeq DEF Before
    <2> DEFINE P == Segment("PREFIXES", 0, prefixCount - 1)
               R == Segment("REX", prefixCount - 1, 1)
               O == OpcodeSegment(Before)
    <2>3. CASE prefixCount > 1
      <3>1. PrefixSegments = <<P>> \o <<R>>
        BY <1>6, <2>1, <2>3 DEF PrefixSegments, If
      <3>2. Lead = (<<P>> \o <<R>>) \o <<O>>
        BY <2>2, <3>1 DEF Lead
      <3>3. /\ P.type = "PREFIXES" /\ P.offset = 0 /\ P.size = prefixCount - 1
            /\ R.type = "REX" /\ R.offset = prefixCount - 1 /\ O.type = "OPCODE"
        BY <1>4 DEF Segment
      <3>4. Len(Lead) = 3 /\ Lead[1] = P /\ Lead[2] = R /\ Lead[3] = O
        BY <3>2, TwoThree
      <3> HIDE DEF P, R, O
      <3>5. Explained(Lead)
        BY <1>6, <3>3, <3>4 DEF Explained
      <3> QED
        BY <1>1, <3>5
    <2>4. CASE ~(prefixCount > 1)
      <3>1. PrefixSegments = <<R>>
        <4>1. PrefixSegments = <<>> \o <<R>>
          BY <1>6, <2>1, <2>4 DEF PrefixSegments, If
        <4> HIDE DEF R
        <4>2. <<>> \o <<R>> = <<R>>
          OBVIOUS
        <4> QED
          BY <4>1, <4>2
      <3>2. Lead = <<R>> \o <<O>>
        BY <2>2, <3>1 DEF Lead
      <3>3. R.type = "REX" /\ R.offset = prefixCount - 1 /\ O.type = "OPCODE"
        BY <1>4 DEF Segment
      <3>4. Len(Lead) = 2 /\ Lead[1] = R /\ Lead[2] = O
        BY <3>2, TwoThree
      <3> HIDE DEF R, O
      <3>5. Explained(Lead)
        BY <1>6, <3>3, <3>4 DEF Explained
      <3> QED
        BY <1>1, <3>5
    <2> QED
      BY <2>3, <2>4
  <1>7. CASE "HAS_REX" \notin attributes
    <2>1. Explained(PrefixSegments)
      <3>1. CASE prefixCount > 0
        <4>1. PrefixSegments = <<Segment("PREFIXES", 0, prefixCount - 0)>>
          <5>1. PrefixSegments = <<Segment("PREFIXES", 0, prefixCount - 0)>> \o <<>>
            BY <1>7, <3>1 DEF PrefixSegments, If
          <5>2. \A g : <<g>> \o <<>> = <<g>>
            OBVIOUS
          <5> QED
            BY <5>1, <5>2
        <4> QED
          BY <1>7, <4>1 DEF Explained, Segment
      <3>2. CASE ~(prefixCount > 0)
        <4>1. PrefixSegments = <<>>
          <5>1. PrefixSegments = <<>> \o <<>>
            BY <1>5, <1>7, <3>2 DEF PrefixSegments, If
          <5>2. <<>> \o <<>> = <<>>
            OBVIOUS
          <5> QED
            BY <5>1, <5>2
        <4> QED
          BY <4>1 DEF Explained
      <3> QED
        BY <3>1, <3>2
    <2>2. Behind(EncodingSegment)
      <3>1. CASE encoding \in Modern \cup {"REX2"}
        BY <3>1 DEF EncodingSegment, Behind, Segment, Modern
      <3>2. CASE encoding \notin Modern \cup {"REX2"}
        BY <3>2, BehindNone DEF EncodingSegment
      <3> QED
        BY <3>1, <3>2
    <2>3. Explained(Before) /\ Before \in Seq(Covering)
      BY <1>2, <2>1, <2>2, ExplainedJoin DEF Before
    <2>4. Behind(<<OpcodeSegment(Before)>>)
      BY <1>4, BehindOne
    <2> QED
      BY <1>3, <2>3, <2>4, ExplainedJoin DEF Lead
  <1> QED
    BY <1>6, <1>7

LEMMA SegmentsExplained ==
  ASSUME Decoded
  PROVE  Explained(ZydisGetInstructionSegments)
  <1> DEFINE m == PartSegment("MODRM", "MODRM")
             s == PartSegment("SIB", "SIB")
             d == PartSegment("DISP", "DISPLACEMENT")
             i == PartSegment("IMM0", "IMMEDIATE")
             j == PartSegment("IMM1", "IMMEDIATE")
             o == ThreeDNowSegment
  <1>1. /\ {"MODRM", "SIB", "DISPLACEMENT", "IMMEDIATE"} \subseteq Kinds \ {"REX", "PREFIXES"}
        /\ {"MODRM", "SIB", "DISP", "IMM0", "IMM1"} \subseteq Parts
    BY DEF Parts, Kinds
  <1>2. /\ Behind(m) /\ m \in Seq(Covering) /\ Behind(s) /\ s \in Seq(Covering)
        /\ Behind(d) /\ d \in Seq(Covering) /\ Behind(i) /\ i \in Seq(Covering)
        /\ Behind(j) /\ j \in Seq(Covering)
    BY <1>1, PartSegmentBehind
  <1>3. Behind(o) /\ o \in Seq(Covering)
    <2>1. o \in Seq(Covering)
      BY ThreeDNowSegmentTiles DEF Tiles
    <2>2. CASE encoding = "3DNOW"
      <3>1. ThreeDNowSegment = <<Segment("OPCODE", length - 1, 1)>>
        BY <2>2 DEF ThreeDNowSegment, If
      <3>2. Segment("OPCODE", length - 1, 1).type = "OPCODE"
        BY DEF Segment
      <3> QED
        BY <2>1, <3>1, <3>2, BehindOne
    <2>3. CASE encoding # "3DNOW"
      BY <2>1, <2>3, BehindNone DEF ThreeDNowSegment, If
    <2> QED
      BY <2>1, <2>2, <2>3
  <1>4. ZydisGetInstructionSegments = Lead \o m \o s \o d \o i \o j \o o
    BY DEF ZydisGetInstructionSegments, Lead, Before, ThreeDNowSegment
  <1> HIDE DEF m, s, d, i, j, o
  <1>5. Explained(Lead \o m) /\ Lead \o m \in Seq(Covering)
    BY <1>2, HeadExplained, ExplainedJoin
  <1>6. Explained(Lead \o m \o s) /\ Lead \o m \o s \in Seq(Covering)
    BY <1>2, <1>5, ExplainedJoin
  <1>7. Explained(Lead \o m \o s \o d) /\ Lead \o m \o s \o d \in Seq(Covering)
    BY <1>2, <1>6, ExplainedJoin
  <1>8. Explained(Lead \o m \o s \o d \o i) /\ Lead \o m \o s \o d \o i \in Seq(Covering)
    BY <1>2, <1>7, ExplainedJoin
  <1>9. /\ Explained(Lead \o m \o s \o d \o i \o j)
        /\ Lead \o m \o s \o d \o i \o j \in Seq(Covering)
    BY <1>2, <1>8, ExplainedJoin
  <1>10. Explained(Lead \o m \o s \o d \o i \o j \o o)
    BY <1>3, <1>9, ExplainedJoin
  <1> QED
    BY <1>4, <1>10

LEMMA DecodedNames == Decoded => SegmentsNamePrefixes
  <1> SUFFICES ASSUME Decoded PROVE SegmentsNamePrefixes
    OBVIOUS
  <1> DEFINE s == ZydisGetInstructionSegments
  <1>1. Explained(s)
    BY SegmentsExplained
  <1>2. prefixCount \in Nat
    BY DecodedNumbers
  <1> HIDE DEF s
  <1>3. ASSUME NEW i \in 1 .. Len(s), s[i].type = "REX"
        PROVE  /\ IsRex(prefixes[s[i].offset]) /\ types[s[i].offset] = "EFFECTIVE"
               /\ s[i + 1].type = "OPCODE"
    <2>1. /\ "HAS_REX" \in attributes /\ s[i].offset = prefixCount - 1
          /\ s[i + 1].type = "OPCODE"
      BY <1>1, <1>3 DEF Explained
    <2>2. prefixCount > 0 /\ IsRex(prefixes[prefixCount - 1])
      BY <2>1, RexExcludes DEF LastRex
    <2>3. types[prefixCount - 1] = "EFFECTIVE"
      <3>1. prefixCount - 1 \in 0 .. prefixCount - 1
        BY <1>2, <2>2
      <3> QED
        BY <2>1, <2>2, <3>1 DEF Decoded, RexMarks
    <2> QED
      BY <2>1, <2>2, <2>3
  <1>4. ASSUME NEW i \in 1 .. Len(s), s[i].type = "PREFIXES",
               NEW k \in 0 .. s[i].size - 1, IsRex(prefixes[k])
        PROVE  types[k] = "IGNORED"
    <2>1. s[i].size = prefixCount - (IF "HAS_REX" \in attributes THEN 1 ELSE 0)
      BY <1>1, <1>4 DEF Explained
    <2>2. /\ k \in 0 .. prefixCount - 1
          /\ ~("HAS_REX" \in attributes /\ k = prefixCount - 1)
      BY <1>2, <2>1
    <2> QED
      BY <1>4, <2>2 DEF Decoded, RexMarks
  <1> QED
    BY <1>3, <1>4 DEF s, SegmentsNamePrefixes

-----------------------------------------------------------------------------
(* The encoding prefixes have the lengths ZydisGetInstructionSegments      *)
(* writes down for them, and a REX byte is effective only where HAS_REX    *)
(* says so: the two facts about the decoder the segments rest on.          *)
THEOREM SegmentFacts == Spec => [](Meaning /\ EscapeSized /\ RexMarks)
  <1>1. Init => EscapeSized /\ RexMarks
    BY InitEscapeSized DEF Init, InitPrefixes, RexMarks
  <1>2. Meaning /\ EscapeSized /\ RexMarks /\ [Next]_vars => EscapeSized' /\ RexMarks'
    BY EscapeSizedStep, RexMarksStep
  <1> QED
    BY <1>1, <1>2, MeaningInductive, PTL DEF Spec

(* ZydisGetInstructionSegments lists the parts of every decoded            *)
(* instruction in byte order, without gap or overlap, up to its last byte, *)
(* and never more than nine of them, the room of the result array.         *)
THEOREM SegmentsCover == Spec => []SegmentsTileInstruction
  <1>1. Meaning /\ EscapeSized /\ RexMarks => SegmentsTileInstruction
    <2>1. CASE status = "SUCCESS"
      BY <2>1, DecodedTiles DEF Decoded
    <2>2. CASE status # "SUCCESS"
      BY <2>2 DEF SegmentsTileInstruction
    <2> QED
      BY <2>1, <2>2
  <1> QED
    BY <1>1, SegmentFacts, PTL

(* What ZydisGetInstructionSegments calls a REX prefix is an effective REX *)
(* byte directly before the opcode, and every REX byte among what it calls *)
(* prefixes has been ignored by the decoder.                               *)
THEOREM SegmentsAreNamed == Spec => []SegmentsNamePrefixes
  <1>1. Meaning /\ EscapeSized /\ RexMarks => SegmentsNamePrefixes
    <2>1. CASE status = "SUCCESS"
      BY <2>1, DecodedNames DEF Decoded
    <2>2. CASE status # "SUCCESS"
      BY <2>2 DEF SegmentsNamePrefixes
    <2> QED
      BY <2>1, <2>2
  <1> QED
    BY <1>1, SegmentFacts, PTL

=============================================================================
