------------------------ MODULE DecoderMeaningProofs ------------------------
(***************************************************************************)
(* What the prefixes of a decoded instruction mean, proved for every set   *)
(* of definitions, every length limit, every input and every mode: who     *)
(* consumes them during the walk, and then what ZydisSetAttributes makes   *)
(* of what the walk left; at the end, the types of all fields.             *)
(***************************************************************************)
EXTENDS DecoderProofs

USE LengthAssumption, InputAssumption, ModeAssumption
USE DEF Switches, Heads, VectorNodes, LegacyNodes, PartSteps

-----------------------------------------------------------------------------
(* What the collection has found stays as it was found.                    *)

FieldsTyped ==
    /\ mode \in Modes
    /\ prefixes \in [Slots -> Bytes \cup {0}] /\ prefixCount \in 0 .. MaxLength
    /\ pfx \in PrefixState
    /\ rex \in Bytes \cup {0} /\ rexOffset \in Slots

ValidNotrack(i) ==
    IF mode = "LONG_64" THEN Last(i, {DS}) /\ Present(NewSegments) = {}
                        ELSE Last(i, Group2) /\ prefixes[i] = DS

NotrackPlaced ==
    pfx.offset_notrack # -1 => ValidNotrack(pfx.offset_notrack)

Choices == FieldsTyped /\ LastOfGroupWins /\ MandatoryChoice /\ SegmentChoice
             /\ RexIsLast

Found ==
    /\ Choices
    /\ status = "PREFIXES" => IInv /\ EndInv
    /\ status \in {"TREE", "SUCCESS"} => NotrackPlaced

(* A mandatory prefix is consumed behind its node and nowhere else.        *)
Pathed ==
    /\ node \in Heads => path = {}
    /\ node = "MANDATORY_PREFIX" => "MANDATORY_PREFIX" \notin path
    /\ temp => "MANDATORY_PREFIX" \in path

Candidate == IF pfx.mandatory_candidate = 0 THEN {} ELSE {pfx.offset_mandatory}

LastRex == prefixCount > 0 /\ IsRex(prefixes[prefixCount - 1])

Overriding(i) ==
    \/ Last(i, {OSZ}) \/ Last(i, {ASZ})
    \/ "HAS_REX" \in attributes /\ i = prefixCount - 1

(* The marks while the walk goes on, and the attributes that go with them. *)
Marked ==
    Walking =>
      /\ types \in [Slots -> PrefixTypes]
      /\ Consumed \subseteq Candidate
      /\ "MANDATORY_PREFIX" \notin path => Consumed = {}
      /\ \A i \in Slots \ Consumed :
           types[i] = IF Overriding(i) THEN "EFFECTIVE" ELSE "IGNORED"
      /\ ("HAS_OPERANDSIZE" \in attributes) =
           (Present({OSZ}) # {} /\ \A i \in Consumed : prefixes[i] # OSZ)

EncodingMarks ==
    CASE encoding \in Modern \cup {"REX2"} -> {HasPrefix[encoding]}
      [] OTHER -> IF LastRex THEN {"HAS_REX"} ELSE {}

(* Which prefixes an encoding leaves room for.                             *)
Encoded ==
    /\ status \in {"TREE", "SUCCESS"} =>
         /\ attributes \cap EncodingAttributes = EncodingMarks
         /\ encoding \in Modern \/ node = "VECTOR_PREFIX" =>
              pfx.mandatory_candidate = 0 /\ ~pfx.has_lock /\ ~LastRex
         /\ encoding = "REX2" => ~LastRex
         /\ encoding = "3DNOW" => ~pfx.has_lock
    /\ status = "TREE" =>
         attributes \subseteq {"HAS_OPERANDSIZE", "HAS_ADDRESSSIZE"}
                                \cup EncodingAttributes

(* A definition is there when it is asked, and accepts the lock it gets.   *)
Chosen ==
    /\ node \in {"CHECK", "3DNOW_OPCODE", "ATTRIBUTES"} =>
         \E d \in Definitions : def = {d}
    /\ node = "ATTRIBUTES" /\ IsLegacy /\ pfx.has_lock => Takes("LOCK")

-----------------------------------------------------------------------------
(* What does not change what was found changes no choice that rests on it. *)
LEMMA FactsStay ==
  ASSUME UNCHANGED prefixFacts
  PROVE  /\ \A S : Present(S)' = Present(S)
         /\ \A S, i : Last(i, S)' <=> Last(i, S)
         /\ \A S, i : First(i, S)' <=> First(i, S)
         /\ \A b : IsRex(b)' <=> IsRex(b)
         /\ LastRex' <=> LastRex
         /\ Choices => Choices'
         /\ NotrackPlaced => NotrackPlaced'
  <1>0. UNCHANGED <<mode, prefixes, prefixCount, pfx, rex, rexOffset>>
    BY DEF prefixFacts
  <1>1. \A S : Present(S)' = Present(S)
    BY <1>0 DEF Present
  <1>2. /\ \A S, i : Last(i, S)' <=> Last(i, S)
        /\ \A S, i : First(i, S)' <=> First(i, S)
    BY <1>1 DEF Last, First
  <1>3. \A b : IsRex(b)' <=> IsRex(b)
    BY <1>0 DEF IsRex
  <1>4. LastRex' <=> LastRex
    BY <1>0, <1>3 DEF LastRex
  <1>5. ASSUME Choices PROVE Choices'
    <2>1. FieldsTyped'
      BY <1>0, <1>5 DEF Choices, FieldsTyped
    <2>2. LastOfGroupWins' /\ MandatoryChoice' /\ SegmentChoice'
      BY <1>0, <1>1, <1>2, <1>5
      DEF Choices, LastOfGroupWins, MandatoryChoice, SegmentChoice
    <2>3. RexIsLast'
      BY <1>0, <1>3, <1>5 DEF Choices, RexIsLast
    <2> QED
      BY <2>1, <2>2, <2>3 DEF Choices
  <1>6. ASSUME NotrackPlaced PROVE NotrackPlaced'
    BY <1>0, <1>1, <1>2, <1>6 DEF NotrackPlaced, ValidNotrack
  <1> QED
    BY <1>1, <1>2, <1>3, <1>4, <1>5, <1>6

(* The walk and the definition case leave what was found alone.            *)
LEMMA StepShape ==
  ASSUME Control, Sized, Walk \/ Decode
  PROVE  status = "TREE" /\ status' # "PREFIXES" /\ UNCHANGED prefixFacts
  <1>1. CASE Failing
    <2>1. PICK s : RefusedWith(s)
      BY <1>1, FailingRefused DEF Refused
    <2>2. status = "TREE"
      BY <1>1 DEF Failing, OpcodeFails, EscapeFails, VectorPrefixFails, Rex2Fails,
         ModrmFails, VectorNodeFails, NoEntry, PartFails, CheckFails,
         ThreeDNowFails, At, AtPart
    <2> QED
      BY <2>1, <2>2 DEF RefusedWith, Errors, Fail, prefixFacts
  <1>2. CASE Walk /\ ~Failing
    BY <1>2
    DEF Walk, Failing, Opcode, Opcode3DNow, Escape, VectorPrefix, Rex2,
        SwitchTable, Rex2Node, Modrm, MandatoryPrefix, OperandSize, VectorNode,
        Fallback, FallbackState, At, Fail, prefixFacts
  <1>3. CASE Decode /\ ~Failing
    BY <1>3
    DEF Decode, Failing, Definition, ThreeDNowOpcode, Part, AtPart,
        CheckErrorConditions, Succeed, At, prefixFacts
  <1> QED
    BY <1>1, <1>2, <1>3

LEMMA InitFound == Init => Found
  <1> SUFFICES ASSUME Init PROVE Found
    OBVIOUS
  <1>1. IInv /\ EndInv /\ status = "PREFIXES"
    BY InitInv, InitEnd DEF Init, InitPrefixes
  <1> QED
    BY <1>1 DEF Found, Choices, FieldsTyped, IInv, PrefixTypeOK

LEMMA CollectFound ==
  ASSUME Found, Collect
  PROVE  /\ Found' /\ IInv' /\ EndInv' /\ status = "PREFIXES"
  <1>1. status = "PREFIXES" /\ IInv /\ EndInv
    BY CollectCases DEF Collect, PrefixFails, PrefixTaken, OpcodeFound, Found
  <1>2. IInv' /\ EndInv'
    BY <1>1, PrefixStep, EndStep DEF Collect
  <1>3. Choices'
    BY <1>2 DEF IInv, PrefixTypeOK, Choices, FieldsTyped
  <1>4. status' \in {"TREE", "SUCCESS"} => NotrackPlaced'
    <2>1. status' # "SUCCESS"
      BY <1>2 DEF IInv, PrefixTypeOK
    <2> QED
      BY <1>2, <2>1 DEF EndInv, NotrackChoice, NotrackPlaced, ValidNotrack
  <1> QED
    BY <1>1, <1>2, <1>3, <1>4 DEF Found

LEMMA FoundStep ==
  ASSUME Control, Sized, Found, [Next]_vars
  PROVE  Found'
  <1>1. CASE Collect
    BY <1>1, CollectFound
  <1>2. CASE Walk \/ Decode
    <2>1. status = "TREE" /\ status' # "PREFIXES" /\ UNCHANGED prefixFacts
      BY <1>2, StepShape
    <2> QED
      BY <2>1, FactsStay DEF Found
  <1>3. CASE UNCHANGED vars
    <2>1. UNCHANGED prefixFacts /\ UNCHANGED prefixVars
      BY <1>3 DEF vars, prefixVars, prefixFacts
    <2>2. status = "PREFIXES" => IInv' /\ EndInv'
      BY <2>1, PrefixStep, EndStep DEF Found
    <2> QED
      BY <2>1, <2>2, FactsStay DEF Found, prefixVars
  <1> QED
    BY <1>1, <1>2, <1>3 DEF Next

-----------------------------------------------------------------------------
LEMMA InitPathed == Init => Pathed
  BY DEF Init, Pathed

LEMMA DescendPath ==
  ASSUME Control, NEW n \in {"OPCODE_TABLE", "MODRM"} \cup LegacyNodes \cup VectorNodes,
         Descend(n), n \in LegacyNodes => encoding \in {"LEGACY", "REX2"},
         n \in VectorNodes => encoding \in Modern
  PROVE  /\ path' = path \cup {n} /\ node' \notin Heads
         /\ node' = "MANDATORY_PREFIX" => "MANDATORY_PREFIX" \notin path'
  <1>1. path' = path \cup {n} /\ node' \in Below(n)
    BY DEF Descend
  <1>2. node' \notin Heads
    BY BelowLegacyNodes
  <1>3. ASSUME node' = "MANDATORY_PREFIX"
        PROVE  n # "MANDATORY_PREFIX" /\ "MANDATORY_PREFIX" \notin path
    <2>1. CASE encoding = "3DNOW"
      BY <1>1, <1>3, <2>1 DEF Below
    <2>2. CASE encoding \in Modern
      <3>1. encoding # "3DNOW"
        BY <2>2 DEF Modern
      <3>2. node' \in BelowModern[n]
        BY <1>1, <1>3, <2>2, <3>1 DEF Below
      <3>3. n \in DOMAIN BelowModern
        BY <2>2 DEF BelowModern, Modern
      <3> QED
        BY <1>3, <3>2, <3>3 DEF BelowModern
    <2>3. CASE encoding \in {"LEGACY", "REX2"}
      <3>1. n \in DOMAIN BelowLegacy
        BY <2>3 DEF BelowLegacy, Modern
      <3>2. node' \in BelowLegacy[n] \ path
        BY <1>1, <1>3, <2>3 DEF Below, Modern
      <3> QED
        BY <1>3, <3>1, <3>2 DEF BelowLegacy
    <2> QED
      BY <2>1, <2>2, <2>3 DEF Control, EncodingKnown, Encodings
  <1> QED
    BY <1>1, <1>2, <1>3

(* An opcode byte leads to another head, or below the table.               *)
LEMMA OpcodePath ==
  ASSUME Control, Pathed, NEW b \in Bytes, Opcode(b)
  PROVE  /\ path = {} /\ ~temp /\ temp' = temp
         /\ \/ path' = path /\ node' \in Heads
            \/ Descend("OPCODE_TABLE")
  <1>1. node = "OPCODE_TABLE" /\ temp' = temp
    BY DEF Opcode, At
  <1>2. path = {} /\ ~temp
    BY <1>1 DEF Pathed, Control, NodeFitsEncoding
  <1>3. SwitchOf(b) # "NONE" => SwitchOf(b) \in Heads
    BY DEF SwitchOf
  <1> QED
    BY <1>1, <1>2, <1>3 DEF Opcode, EnterOpcode

LEMMA PathedStep ==
  ASSUME Control, Sized, Pathed, [Next]_vars
  PROVE  Pathed'
  <1>1. CASE Collect \/ UNCHANGED vars
    BY <1>1 DEF Collect, vars, treeVars, Pathed
  <1>2. CASE Failing
    BY <1>2, FailingRefused DEF Refused, RefusedWith, Fail, treeVars, Pathed
  <1>3. ASSUME NEW b \in Bytes, Opcode(b) PROVE Pathed'
    <2>1. CASE path' = path /\ node' \in Heads
      BY <1>3, <2>1, OpcodePath DEF Pathed
    <2>2. CASE Descend("OPCODE_TABLE")
      BY <1>3, <2>2, OpcodePath, DescendPath DEF Pathed
    <2> QED
      BY <1>3, <2>1, <2>2, OpcodePath
  <1>4. CASE Opcode3DNow
    BY <1>4 DEF Opcode3DNow, At, Pathed
  <1>5. ASSUME NEW p \in Bytes, Escape(p) PROVE Pathed'
    <2>1. node = "ESCAPE" /\ UNCHANGED <<path, temp>> /\ node' # "MANDATORY_PREFIX"
      BY <1>5 DEF Escape, At, treeVars, SwitchOf
    <2> QED
      BY <2>1 DEF Pathed
  <1>6. CASE \/ \E w \in 0 .. 1 : VectorPrefix(w)
             \/ \E w, m0 \in 0 .. 1 : Rex2(w, m0)
    <2>1. node \in Heads /\ UNCHANGED <<path, temp>> /\ node' # "MANDATORY_PREFIX"
      BY <1>6 DEF VectorPrefix, Rex2, At, SwitchOf
    <2> QED
      BY <2>1 DEF Pathed
  <1>7. CASE SwitchTable
    <2>1. node \in Heads /\ UNCHANGED <<path, temp>> /\ node' # "MANDATORY_PREFIX"
      BY <1>7 DEF SwitchTable, Expected, treeVars, Fail
    <2> QED
      BY <2>1 DEF Pathed
  <1>8. CASE Rex2Node \/ Modrm \/ MandatoryPrefix \/ OperandSize \/ VectorNode
    <2>1. PICK n \in {"MODRM"} \cup LegacyNodes \cup VectorNodes :
            /\ status = "TREE" /\ node = n /\ Descend(n)
            /\ n # "MANDATORY_PREFIX" => temp' = temp
      BY <1>8 DEF Rex2Node, Modrm, MandatoryPrefix, OperandSize, VectorNode, At
    <2>2. /\ n \in LegacyNodes => encoding \in {"LEGACY", "REX2"}
          /\ n \in VectorNodes => encoding \in Modern
      BY <2>1 DEF Control, NodeFitsEncoding
    <2> QED
      BY <2>1, <2>2, DescendPath DEF Pathed
  <1>9. CASE Fallback
    BY <1>9 DEF Fallback, FallbackState, BelowLegacy, Pathed
  <1>10. CASE Decode /\ ~Failing
    <2>1. /\ node' \notin Heads \cup {"MANDATORY_PREFIX"} /\ temp' = temp
          /\ path' = path \/ path' = path \cap {"MANDATORY_PREFIX"}
      <3>1. CASE Part
        <4>1. \E i \in 1 .. 5 : PartNodes[i] = node
          BY <3>1 DEF Part, AtPart, PartOf, PartNodes
        <4>2. node' \in {"SIB_PART", "DISP_PART", "IMM0_PART", "IMM1_PART", "CHECK"}
          BY <3>1, <4>1 DEF Part, NextPart, PartNodes
        <4> QED
          BY <3>1, <4>2 DEF Part
      <3>2. CASE Decode /\ ~Failing /\ ~Part
        BY <3>2 DEF Decode, Failing, Definition, ThreeDNowOpcode,
           CheckErrorConditions, Succeed, At, treeVars
      <3> QED
        BY <1>10, <3>1, <3>2
    <2> QED
      BY <2>1 DEF Pathed
  <1> QED
    BY <1>1, <1>2, <1>3, <1>4, <1>5, <1>6, <1>7, <1>8, <1>9, <1>10
    DEF Next, Walk, Failing

-----------------------------------------------------------------------------
(* Behind an encoding's first byte only prefixes and that byte are read.   *)
LEMMA EscapeLength ==
  ASSUME Sized, Layout, status = "TREE", node = "ESCAPE", encoding = "LEGACY"
  PROVE  length = prefixCount + 1
  <1>1. PartsPlaced /\ BytesCounted
    BY DEF Layout, NoEntryHere
  <1>2. \A p \in Parts : raw[p].size = 0
    BY <1>1 DEF PartsPlaced, Unread
  <1>3. PartsRead = 0 /\ OpcodeRead = 1 /\ raw["ESCAPE"].size = 0
    BY <1>1, <1>2 DEF PartsRead, Parts, OpcodeRead, PartsPlaced
  <1> QED
    BY <1>1, <1>3 DEF BytesCounted, Sized

LEMMA InitEncoded == Init => Encoded
  BY DEF Init, InitPrefixes, Encoded

(* Wherever neither the encoding nor its attributes change.                *)
LEMMA KeptEncoded ==
  ASSUME Encoded, status = "TREE", UNCHANGED <<prefixFacts, encoding>>,
         attributes' \cap EncodingAttributes = attributes \cap EncodingAttributes,
         status' = "TREE" => attributes' \subseteq
            {"HAS_OPERANDSIZE", "HAS_ADDRESSSIZE"} \cup EncodingAttributes,
         node' # "VECTOR_PREFIX"
  PROVE  Encoded'
  <1>1. LastRex' <=> LastRex
    BY FactsStay
  <1>2. EncodingMarks' = EncodingMarks
    BY <1>1 DEF EncodingMarks
  <1>3. pfx' = pfx
    BY DEF prefixFacts
  <1> QED
    BY <1>1, <1>2, <1>3 DEF Encoded

LEMMA CollectEncoded ==
  ASSUME Control, Found, Collect
  PROVE  Encoded'
  <1>1. IInv' /\ EndInv' /\ status = "PREFIXES"
    BY CollectFound
  <1>2. node' = "OPCODE_TABLE" /\ encoding' = "LEGACY"
    BY <1>1 DEF Collect, Control, AtTheStart
  <1>3. status' # "SUCCESS"
    BY <1>1 DEF IInv, PrefixTypeOK
  <1>4. attributes' \subseteq {"HAS_OPERANDSIZE", "HAS_ADDRESSSIZE", "HAS_REX"}
    BY <1>1 DEF IInv, PrefixTypeOK
  <1>5. ASSUME status' = "TREE"
        PROVE  "HAS_REX" \in attributes' <=> LastRex'
    <2>1. ("HAS_REX" \in attributes') <=>
             \E i \in 0 .. prefixCount' - 1 :
               i = prefixCount' - 1 /\ mode' = "LONG_64" /\ prefixes'[i] \div 16 = 4
      BY <1>1, <1>5 DEF EndInv, CollectedMarks, IsRex
    <2>2. prefixCount' \in Nat
      BY <1>1 DEF IInv, PrefixTypeOK
    <2>3. LastRex' <=> /\ prefixCount' > 0 /\ mode' = "LONG_64"
                       /\ prefixes'[prefixCount' - 1] \div 16 = 4
      BY DEF LastRex, IsRex
    <2>4. prefixCount' > 0 <=> prefixCount' - 1 \in 0 .. prefixCount' - 1
      <3>1. \A n \in Nat : n > 0 <=> n - 1 \in 0 .. n - 1
        OBVIOUS
      <3> QED
        BY <2>2, <3>1
    <2> QED
      BY <2>1, <2>3, <2>4
  <1>6. status' = "TREE" => attributes' \cap EncodingAttributes = EncodingMarks'
    BY <1>2, <1>4, <1>5 DEF EncodingMarks, EncodingAttributes, Modern
  <1> QED
    BY <1>2, <1>3, <1>4, <1>6 DEF Encoded, EncodingAttributes, Modern

LEMMA OpcodeEncoded ==
  ASSUME Control, Encoded, NEW b \in Bytes, Opcode(b)
  PROVE  Encoded'
  <1>1. /\ status = "TREE" /\ status' = "TREE" /\ encoding # "3DNOW"
        /\ UNCHANGED <<prefixFacts, attributes>> /\ OpcodeError(b) = "NONE"
        /\ map' = MapAfter(b)
    BY DEF Opcode, At
  <1>2. EscapeFound \/ MapFound \/ SwitchFound \/ EntryFound
    BY OpcodeCases
  <1>3. node' # "VECTOR_PREFIX"
    BY <1>2 DEF EscapeFound, MapFound, SwitchFound, EntryFound
  <1>4. CASE encoding' = encoding
    BY <1>1, <1>3, <1>4, KeptEncoded DEF Encoded
  <1>5. CASE encoding' # encoding
    <2>1. encoding = "LEGACY" /\ encoding' = "3DNOW" /\ map = "0F" /\ map' = "0F0F"
      BY <1>2, <1>5 DEF EscapeFound, MapFound, SwitchFound, EntryFound
    <2>2. b = 15
      BY <1>1, <2>1 DEF MapAfter
    <2>3. ~pfx.has_lock
      BY <1>1, <2>1, <2>2 DEF OpcodeError
    <2>4. pfx' = pfx /\ (LastRex' <=> LastRex)
      BY <1>1, FactsStay DEF prefixFacts
    <2>5. EncodingMarks' = EncodingMarks
      BY <2>1, <2>4 DEF EncodingMarks, Modern
    <2> QED
      BY <1>1, <1>3, <2>1, <2>3, <2>4, <2>5 DEF Encoded, Modern
  <1> QED
    BY <1>4, <1>5

LEMMA EscapeEncoded ==
  ASSUME Control, Encoded, NEW p \in Bytes, Escape(p)
  PROVE  Encoded'
  <1>1. /\ status = "TREE" /\ status' = "TREE" /\ node = "ESCAPE" /\ opcode # 213
        /\ UNCHANGED <<prefixFacts, attributes, encoding>>
        /\ IsPayload(p) => EscapeError = "NONE"
        /\ node' = IF IsPayload(p) THEN "VECTOR_PREFIX" ELSE SwitchOf(opcode)
    BY DEF Escape, At, treeVars
  <1>2. CASE IsPayload(p)
    <2>1. /\ "HAS_REX" \notin attributes /\ encoding # "REX2"
          /\ ~pfx.has_lock /\ pfx.mandatory_candidate = 0
      BY <1>1, <1>2 DEF EscapeError
    <2>2. encoding = "LEGACY"
      BY <1>1, <2>1 DEF Control, NodeFitsEncoding
    <2>3. ~LastRex
      BY <1>1, <2>1, <2>2
      DEF Encoded, EncodingMarks, EncodingAttributes, Modern
    <2>4. pfx' = pfx /\ (LastRex' <=> LastRex)
      BY <1>1, FactsStay DEF prefixFacts
    <2>5. EncodingMarks' = EncodingMarks
      BY <1>1, <2>4 DEF EncodingMarks
    <2> QED
      BY <1>1, <2>1, <2>2, <2>3, <2>4, <2>5 DEF Encoded, Modern
  <1>3. CASE ~IsPayload(p)
    <2>1. node' # "VECTOR_PREFIX"
      BY <1>1, <1>3 DEF SwitchOf
    <2> QED
      BY <1>1, <2>1, KeptEncoded DEF Encoded
  <1> QED
    BY <1>2, <1>3

LEMMA EncodingPrefixEncoded ==
  ASSUME Control, Sized, Layout, Found, Encoded,
         \/ \E w \in 0 .. 1 : VectorPrefix(w)
         \/ \E w, m0 \in 0 .. 1 : Rex2(w, m0)
  PROVE  Encoded'
  <1>1. /\ status = "TREE" /\ status' = "TREE" /\ UNCHANGED prefixFacts
        /\ node' # "VECTOR_PREFIX"
        /\ attributes' = attributes \cup {HasPrefix[encoding']}
    BY DEF VectorPrefix, Rex2, At, SwitchOf
  <1>2. pfx' = pfx /\ (LastRex' <=> LastRex)
    BY <1>1, FactsStay DEF prefixFacts
  <1>3. /\ ~LastRex /\ encoding = "LEGACY" /\ encoding' \in Modern \cup {"REX2"}
        /\ encoding' \in Modern => pfx.mandatory_candidate = 0 /\ ~pfx.has_lock
    <2>1. CASE \E w \in 0 .. 1 : VectorPrefix(w)
      <3>1. node = "VECTOR_PREFIX" /\ encoding' = PrefixEncoding
        BY <2>1 DEF VectorPrefix, At
      <3>2. encoding = "LEGACY" /\ opcode \in {98, 143, 196, 197}
        BY <3>1 DEF Control, NodeFitsEncoding
      <3>3. encoding' \in Modern
        BY <3>1, <3>2 DEF PrefixEncoding, Modern
      <3> QED
        BY <1>1, <3>1, <3>2, <3>3 DEF Encoded
    <2>2. CASE \E w, m0 \in 0 .. 1 : Rex2(w, m0)
      <3>1. node = "ESCAPE" /\ opcode = 213 /\ ~Rex2Adjacent /\ encoding' = "REX2"
        BY <2>2 DEF Rex2, At
      <3>2. encoding = "LEGACY"
        BY <3>1 DEF Control, NodeFitsEncoding
      <3>3. length = prefixCount + 1 /\ prefixCount \in Nat
        BY <1>1, <3>1, <3>2, EscapeLength DEF Sized
      <3>4. LastRex => rexOffset = length - 2
        BY <3>3 DEF LastRex, RexIsLast, Found, Choices
      <3>5. LastRex => "HAS_REX" \in attributes
        BY <1>1, <3>2 DEF Encoded, EncodingMarks, Modern
      <3> QED
        BY <3>1, <3>2, <3>4, <3>5 DEF Rex2Adjacent, Modern
    <2> QED
      BY <2>1, <2>2
  <1>4. attributes \cap EncodingAttributes = {}
    BY <1>1, <1>3 DEF Encoded, EncodingMarks, Modern
  <1>5. HasPrefix[encoding'] \in EncodingAttributes
    BY <1>3 DEF HasPrefix, EncodingAttributes, Modern
  <1>6. attributes' \cap EncodingAttributes = EncodingMarks'
    BY <1>1, <1>3, <1>4, <1>5 DEF EncodingMarks
  <1>7. attributes' \subseteq {"HAS_OPERANDSIZE", "HAS_ADDRESSSIZE"}
                                \cup EncodingAttributes
    BY <1>1, <1>5 DEF Encoded
  <1> QED
    BY <1>1, <1>2, <1>3, <1>6, <1>7 DEF Encoded, Modern

(* The names ZydisSetAttributes may add.                                   *)
LEMMA SegmentNames ==
  /\ \A b \in Group2 : SegmentName[b] \in
       {"HAS_SEGMENT_CS", "HAS_SEGMENT_SS", "HAS_SEGMENT_DS", "HAS_SEGMENT_ES",
        "HAS_SEGMENT_FS", "HAS_SEGMENT_GS"}
  /\ SegmentName[DS] = "HAS_SEGMENT_DS" /\ SegmentName[CS] = "HAS_SEGMENT_CS"
  <1>1. SegmentName[CS] = "HAS_SEGMENT_CS" /\ SegmentName[SS] = "HAS_SEGMENT_SS"
    BY DEF SegmentName, Group2, OldSegments, NewSegments, CS, SS, DS, ES, FS, GS
  <1>2. SegmentName[DS] = "HAS_SEGMENT_DS" /\ SegmentName[ES] = "HAS_SEGMENT_ES"
    BY DEF SegmentName, Group2, OldSegments, NewSegments, CS, SS, DS, ES, FS, GS
  <1>3. SegmentName[FS] = "HAS_SEGMENT_FS" /\ SegmentName[GS] = "HAS_SEGMENT_GS"
    BY DEF SegmentName, Group2, OldSegments, NewSegments, CS, SS, DS, ES, FS, GS
  <1>4. \A b \in Group2 : b \in {CS, SS, DS, ES, FS, GS}
    BY DEF Group2, OldSegments, NewSegments
  <1> QED
    BY <1>1, <1>2, <1>3, <1>4

LEMMA AddedNames ==
  ASSUME pfx \in PrefixState
  PROVE  /\ LockAttribute \subseteq {"HAS_LOCK"}
         /\ Group1Attribute \subseteq RepeatAttributes
         /\ BranchAttribute \subseteq BranchAttributes
         /\ NotrackAttribute \subseteq {"HAS_NOTRACK"}
         /\ SegmentAttribute \subseteq SegmentAttributes
  <1>1. SegmentAttribute \subseteq SegmentAttributes
    <2>1. pfx.effective_segment \in Group2 \cup {0}
      BY DEF PrefixState
    <2> QED
      BY <2>1 DEF SegmentAttribute, SegmentAttributes
  <1>2. Group1Attribute \subseteq RepeatAttributes
    BY DEF Group1Attribute, RepeatAttributes
  <1> QED
    BY <1>1, <1>2 DEF LockAttribute, BranchAttribute, NotrackAttribute,
       BranchAttributes

LEMMA SegmentAttributeNames ==
  SegmentAttributes \subseteq
    {"HAS_SEGMENT_CS", "HAS_SEGMENT_SS", "HAS_SEGMENT_DS", "HAS_SEGMENT_ES",
     "HAS_SEGMENT_FS", "HAS_SEGMENT_GS"}
  BY SegmentNames DEF SegmentAttributes

LEMMA SucceedEncoded ==
  ASSUME Found, Encoded, Succeed
  PROVE  Encoded'
  <1>1. /\ status = "TREE" /\ status' = "SUCCESS" /\ UNCHANGED <<prefixFacts, node>>
        /\ encoding' = encoding /\ node = "ATTRIBUTES"
        /\ \/ attributes' = attributes
           \/ attributes' = attributes \cup LockAttribute \cup Group1Attribute
                \cup BranchAttribute \cup NotrackAttribute \cup SegmentAttribute
    BY DEF Succeed, SetAttributes, At, treeVars
  <1>2. pfx \in PrefixState
    BY DEF Found, Choices, FieldsTyped
  <1>3. attributes' \cap EncodingAttributes = attributes \cap EncodingAttributes
    BY <1>1, <1>2, AddedNames, SegmentAttributeNames
    DEF EncodingAttributes, RepeatAttributes, BranchAttributes
  <1> QED
    BY <1>1, <1>3, KeptEncoded

LEMMA EncodedStep ==
  ASSUME Control, Sized, Layout, Found, Encoded, [Next]_vars
  PROVE  Encoded'
  <1>1. CASE Collect
    BY <1>1, CollectEncoded
  <1>2. CASE Failing
    BY <1>2, FailingRefused DEF Refused, RefusedWith, Fail, Errors, Encoded
  <1>3. ASSUME NEW b \in Bytes, Opcode(b) PROVE Encoded'
    BY <1>3, OpcodeEncoded
  <1>4. ASSUME NEW p \in Bytes, Escape(p) PROVE Encoded'
    BY <1>4, EscapeEncoded
  <1>5. CASE \/ \E w \in 0 .. 1 : VectorPrefix(w)
             \/ \E w, m0 \in 0 .. 1 : Rex2(w, m0)
    BY <1>5, EncodingPrefixEncoded
  <1>6. CASE Opcode3DNow
    BY <1>6, KeptEncoded DEF Opcode3DNow, At, Encoded
  <1>7. CASE SwitchTable
    <2>1. encoding \in Expected \cup OwnMeaning
      BY <1>7 DEF SwitchTable, Expected, Control, NodeFitsEncoding
    <2> QED
      BY <1>7, <2>1, KeptEncoded DEF SwitchTable, treeVars, Encoded
  <1>8. CASE Rex2Node \/ Modrm \/ MandatoryPrefix \/ OperandSize \/ VectorNode
    <2>1. PICK n \in {"MODRM"} \cup LegacyNodes \cup VectorNodes :
            /\ status = "TREE" /\ status' = "TREE" /\ node = n /\ Descend(n)
            /\ UNCHANGED <<prefixFacts, encoding>>
            /\ attributes' \in {attributes, attributes \ {"HAS_OPERANDSIZE"}}
      BY <1>8 DEF Rex2Node, Modrm, MandatoryPrefix, OperandSize, VectorNode, At,
         Unconsumed
    <2>2. /\ n \in LegacyNodes => encoding \in {"LEGACY", "REX2"}
          /\ n \in VectorNodes => encoding \in Modern
      BY <2>1 DEF Control, NodeFitsEncoding
    <2>3. node' # "VECTOR_PREFIX"
      BY <2>1, <2>2, DescendPath
    <2> QED
      BY <2>1, <2>3, KeptEncoded DEF Encoded, EncodingAttributes
  <1>9. CASE Fallback
    <2>1. /\ status = "TREE" /\ status' = "TREE"
          /\ UNCHANGED <<prefixFacts, encoding>> /\ node' # "VECTOR_PREFIX"
          /\ attributes' \in {attributes, attributes \cup {"HAS_OPERANDSIZE"}}
      BY <1>9 DEF Fallback, FallbackState, At, BelowLegacy
    <2> QED
      BY <2>1, KeptEncoded DEF Encoded, EncodingAttributes
  <1>10. CASE Decode /\ ~Failing /\ ~Succeed
    <2>1. /\ status = "TREE" /\ status' = "TREE"
          /\ UNCHANGED <<prefixFacts, encoding, attributes>>
      BY <1>10 DEF Decode, Failing, Definition, ThreeDNowOpcode, Part, AtPart,
         CheckErrorConditions, At, treeVars
    <2>2. node' # "VECTOR_PREFIX"
      <3>1. CASE Part
        <4>1. \E i \in 1 .. 5 : PartNodes[i] = node
          BY <3>1 DEF Part, AtPart, PartOf, PartNodes
        <4> QED
          BY <3>1, <4>1 DEF Part, NextPart, PartNodes
      <3>2. CASE ~Part
        BY <1>10, <3>2 DEF Decode, Failing, Definition, ThreeDNowOpcode,
           CheckErrorConditions
      <3> QED
        BY <3>1, <3>2
    <2> QED
      BY <2>1, <2>2, KeptEncoded DEF Encoded
  <1>11. CASE Succeed
    BY <1>11, SucceedEncoded
  <1>12. CASE UNCHANGED vars
    <2>1. /\ UNCHANGED <<prefixFacts, status, node, attributes, encoding, pfx>>
      BY <1>12 DEF vars, prefixVars, treeVars, prefixFacts
    <2>2. EncodingMarks' = EncodingMarks /\ (LastRex' <=> LastRex)
      BY <2>1, FactsStay DEF EncodingMarks
    <2> QED
      BY <2>1, <2>2 DEF Encoded
  <1> QED
    BY <1>1, <1>2, <1>3, <1>4, <1>5, <1>6, <1>7, <1>8, <1>9, <1>10, <1>11, <1>12
    DEF Next, Walk, Decode, Failing

-----------------------------------------------------------------------------
Answering == {"CHECK", "3DNOW_OPCODE", "ATTRIBUTES"}

LEMMA InitChosen == Init => Chosen
  BY DEF Init, Chosen

(* No node of a tree leads past the parts of an instruction.               *)
LEMMA WalkNodes ==
  ASSUME Control, Walk, ~Failing
  PROVE  node' \notin Answering \cup PartSteps
  <1> USE DEF Answering
  <1>1. ASSUME NEW b \in Bytes, Opcode(b) PROVE node' \notin Answering \cup PartSteps
    BY <1>1, OpcodeCases DEF EscapeFound, MapFound, SwitchFound, EntryFound
  <1>2. CASE Opcode3DNow \/ Fallback
    BY <1>2 DEF Opcode3DNow, Fallback, FallbackState, BelowLegacy
  <1>3. CASE \/ \E p \in Bytes : Escape(p)
             \/ \E w \in 0 .. 1 : VectorPrefix(w)
             \/ \E w, m0 \in 0 .. 1 : Rex2(w, m0)
    BY <1>3 DEF Escape, VectorPrefix, Rex2, SwitchOf
  <1>4. CASE SwitchTable
    <2>1. encoding \in Expected \cup OwnMeaning
      BY <1>4 DEF SwitchTable, Expected, Control, NodeFitsEncoding
    <2> QED
      BY <1>4, <2>1 DEF SwitchTable
  <1>5. CASE Rex2Node \/ Modrm \/ MandatoryPrefix \/ OperandSize \/ VectorNode
    <2>1. PICK n \in {"MODRM"} \cup LegacyNodes \cup VectorNodes : At(n) /\ Descend(n)
      BY <1>5 DEF Rex2Node, Modrm, MandatoryPrefix, OperandSize, VectorNode, At
    <2> QED
      BY <2>1, DescendStays DEF TreeNodes
  <1> QED
    BY <1>1, <1>2, <1>3, <1>4, <1>5 DEF Walk, Failing

LEMMA NextParts ==
  ASSUME Part
  PROVE  /\ node \in PartSteps
         /\ node' \in {"SIB_PART", "DISP_PART", "IMM0_PART", "IMM1_PART", "CHECK"}
  <1>1. \E i \in 1 .. 5 : PartNodes[i] = node
    BY DEF Part, AtPart, PartOf, PartNodes
  <1> QED
    BY <1>1 DEF Part, AtPart, PartOf, NextPart, PartNodes

LEMMA ChosenStep ==
  ASSUME Control, Sized, Layout, Chosen, [Next]_vars
  PROVE  Chosen'
  <1>1. ASSUME UNCHANGED <<node, def, encoding, pfx>> PROVE Chosen'
    BY <1>1 DEF Chosen, IsLegacy, Takes, TheDef
  <1>2. ASSUME node' \notin Answering PROVE Chosen'
    BY <1>2 DEF Answering, Chosen
  <1>3. CASE Collect
    <2>1. status = "PREFIXES" /\ node' = node
      BY <1>3, CollectCases DEF Collect, PrefixFails, PrefixTaken, OpcodeFound
    <2> QED
      BY <1>2, <2>1 DEF Control, AtTheStart, Answering
  <1>4. CASE Failing
    BY <1>1, <1>4, FailingRefused DEF Refused, RefusedWith, Fail, treeVars
  <1>5. CASE Walk /\ ~Failing
    BY <1>2, <1>5, WalkNodes
  <1>6. CASE UNCHANGED vars \/ Succeed
    BY <1>1, <1>6 DEF vars, prefixVars, treeVars, Succeed, prefixFacts
  <1>7. ASSUME NEW d \in Definitions, Definition(d) PROVE Chosen'
    BY <1>2, <1>7 DEF Definition, Answering
  <1>8. CASE Part
    <2>1. \E d \in Definitions : def = {d}
      BY <1>8, NextParts DEF Control, DefinitionChosen
    <2> QED
      BY <1>8, <2>1, NextParts DEF Part, Chosen
  <1>9. CASE CheckErrorConditions
    <2>1. /\ node = "CHECK" /\ UNCHANGED <<def, encoding, pfx>> /\ PrefixError = "NONE"
          /\ node' \in {"3DNOW_OPCODE", "ATTRIBUTES"}
      BY <1>9 DEF CheckErrorConditions, At, treeVars, prefixFacts
    <2>2. IsLegacy /\ pfx.has_lock => Takes("LOCK")
      BY <2>1 DEF PrefixError, IsLegacy, Takes
    <2> QED
      BY <2>1, <2>2 DEF Chosen, IsLegacy, Takes, TheDef
  <1>10. ASSUME NEW d \in Definitions, ThreeDNowOpcode(d) PROVE Chosen'
    <2>1. status = "TREE" /\ node = "3DNOW_OPCODE" /\ encoding' = encoding /\ def' = {d}
      BY <1>10 DEF ThreeDNowOpcode, At
    <2>2. encoding = "3DNOW"
      BY <2>1 DEF Layout
    <2> QED
      BY <2>1, <2>2 DEF Chosen, IsLegacy
  <1> QED
    BY <1>3, <1>4, <1>5, <1>6, <1>7, <1>8, <1>9, <1>10 DEF Next, Decode, Failing

-----------------------------------------------------------------------------
(* The last and the first prefix of a group are unique.                    *)
LEMMA Unique ==
  /\ \A S, i, j : Last(i, S) /\ Last(j, S) => i = j
  /\ \A S, i : Last(i, S) \/ First(i, S) =>
       i \in 0 .. prefixCount - 1 /\ prefixes[i] \in S
  BY DEF Last, Greatest, First, Least, Present

LEMMA CandidateFacts ==
  ASSUME Choices
  PROVE  /\ pfx.mandatory_candidate \in Group1 \cup {OSZ, 0}
         /\ pfx.offset_mandatory \in Slots
         /\ pfx.mandatory_candidate # 0 =>
              /\ pfx.offset_mandatory \in 0 .. prefixCount - 1
              /\ prefixes[pfx.offset_mandatory] = pfx.mandatory_candidate
              /\ IF Present(Group1) # {} THEN Last(pfx.offset_mandatory, Group1)
                                         ELSE First(pfx.offset_mandatory, {OSZ})
         /\ pfx.mandatory_candidate = 0 => Present({OSZ}) = {}
         /\ \A b \in Group1 \cup {OSZ} : ~IsRex(b) /\ b # ASZ /\ b # 0
         /\ OSZ \notin Group1
         /\ Present({OSZ}) # {} => Last(pfx.offset_osz_override, {OSZ})
  <1>1. pfx.mandatory_candidate \in Group1 \cup {OSZ, 0} /\ pfx.offset_mandatory \in Slots
    BY DEF Choices, FieldsTyped, PrefixState
  <1>2. \A b \in Group1 \cup {OSZ} : ~IsRex(b) /\ b # ASZ /\ b # 0
    BY DEF Group1, OSZ, ASZ, REPNE, REP, IsRex
  <1>3. OSZ \notin Group1
    BY DEF Group1, OSZ, REPNE, REP
  <1>4. CASE pfx.mandatory_candidate \in Group1
    <2>1. /\ Last(pfx.offset_mandatory, Group1)
          /\ prefixes[pfx.offset_mandatory] = pfx.mandatory_candidate
      BY <1>4 DEF Choices, MandatoryChoice
    <2>2. Present(Group1) # {}
      BY <2>1 DEF Last, Greatest
    <2> QED
      BY <1>1, <1>2, <1>3, <1>4, <2>1, <2>2, Unique DEF Choices, LastOfGroupWins
  <1>5. CASE pfx.mandatory_candidate = OSZ
    <2>1. Present(Group1) = {} /\ First(pfx.offset_mandatory, {OSZ})
      BY <1>5 DEF Choices, MandatoryChoice
    <2> QED
      BY <1>1, <1>2, <1>3, <1>5, <2>1, Unique DEF Choices, LastOfGroupWins
  <1>6. CASE pfx.mandatory_candidate = 0
    <2>1. Present(Group1 \cup {OSZ}) = {}
      BY <1>6 DEF Choices, MandatoryChoice
    <2>2. Present({OSZ}) = {}
      BY <2>1 DEF Present
    <2> QED
      BY <1>1, <1>2, <1>3, <1>6, <2>2
  <1> QED
    BY <1>1, <1>4, <1>5, <1>6

-----------------------------------------------------------------------------
LEMMA InitMarked == Init => Marked
  BY DEF Init, InitPrefixes, Marked, Walking

(* The collection leaves nothing consumed.                                 *)
LEMMA CollectMarked ==
  ASSUME Control, Found, Collect
  PROVE  Marked'
  <1> SUFFICES ASSUME status' = "TREE" PROVE Marked'
    BY DEF Marked, Walking
  <1>1. IInv' /\ EndInv' /\ Encoded' /\ status = "PREFIXES"
    BY CollectFound, CollectEncoded
  <1>2. encoding' = "LEGACY"
    BY <1>1 DEF Collect, Control, AtTheStart
  <1>3. "HAS_REX" \in attributes' <=> LastRex'
    BY <1>1, <1>2 DEF Encoded, EncodingMarks, EncodingAttributes, Modern
  <1>4. types' \in [Slots -> PrefixTypes]
    BY <1>1 DEF IInv, PrefixTypeOK
  <1>5. /\ \A i \in Slots :
             types'[i] = IF \/ Last(i, {OSZ})' \/ Last(i, {ASZ})'
                            \/ i = prefixCount' - 1 /\ (IsRex(prefixes[i]))'
                         THEN "EFFECTIVE" ELSE "IGNORED"
    BY <1>1 DEF EndInv, CollectedMarks
  <1>6. \A i \in Slots :
          i = prefixCount' - 1 => ((IsRex(prefixes[i]))' <=> LastRex')
    <2>1. \A i \in Slots : \A n : i = n - 1 /\ n \in Nat => n > 0
      BY DEF Slots
    <2>2. prefixCount' \in Nat
      BY <1>1 DEF IInv, PrefixTypeOK
    <2>3. \A i \in Slots : i = prefixCount' - 1 => prefixCount' > 0
      BY <2>1, <2>2
    <2> QED
      BY <2>3 DEF LastRex, IsRex
  <1>7. \A i \in Slots : types'[i] = IF Overriding(i)' THEN "EFFECTIVE" ELSE "IGNORED"
    BY <1>3, <1>5, <1>6 DEF Overriding
  <1>8. Consumed' = {}
    BY <1>7 DEF Consumed
  <1>9. ("HAS_OPERANDSIZE" \in attributes') =
          ((Present({OSZ}))' # {} /\ \A i \in Consumed' : prefixes'[i] # OSZ)
    <2>1. ("HAS_OPERANDSIZE" \in attributes') <=> ((Present({OSZ}))' # {})
      BY <1>1 DEF EndInv, CollectedMarks
    <2> QED
      BY <1>8, <2>1
  <1> QED
    BY <1>4, <1>7, <1>8, <1>9 DEF Marked

(* A step that leaves the marks alone, and the attributes they rest on.    *)
LEMMA KeptMarked ==
  ASSUME Marked, status = "TREE", UNCHANGED <<prefixFacts, types>>,
         "MANDATORY_PREFIX" \in path => "MANDATORY_PREFIX" \in path',
         "HAS_OPERANDSIZE" \in attributes' <=> "HAS_OPERANDSIZE" \in attributes,
         "HAS_REX" \in attributes' <=> "HAS_REX" \in attributes
  PROVE  Marked'
  <1>1. Consumed' = Consumed
    BY DEF Consumed
  <1>2. UNCHANGED <<prefixes, prefixCount, pfx>>
    BY DEF prefixFacts
  <1>3. \A i : Overriding(i)' <=> Overriding(i)
    BY <1>2, FactsStay DEF Overriding
  <1>4. Candidate' = Candidate /\ (Present({OSZ}))' = Present({OSZ})
    BY <1>2, FactsStay DEF Candidate
  <1> QED
    BY <1>1, <1>2, <1>3, <1>4 DEF Marked, Walking

LEMMA MandatoryMarked ==
  ASSUME Found, Pathed, Marked, MandatoryPrefix
  PROVE  Marked'
  <1> DEFINE C == pfx.mandatory_candidate
             M == pfx.offset_mandatory
  <1>1. /\ status = "TREE" /\ node = "MANDATORY_PREFIX" /\ UNCHANGED prefixFacts
        /\ types' = IF C = 0 THEN types ELSE [types EXCEPT ![M] = "MANDATORY"]
        /\ attributes' = Unconsumed /\ path' = path \cup {"MANDATORY_PREFIX"}
    BY DEF MandatoryPrefix, At, Descend
  <1>2. Consumed = {} /\ types \in [Slots -> PrefixTypes]
    BY <1>1 DEF Pathed, Marked, Walking
  <1>3. UNCHANGED <<prefixes, prefixCount, pfx>>
    BY <1>1 DEF prefixFacts
  <1>4. Candidate' = Candidate /\ (Present({OSZ}))' = Present({OSZ})
    BY <1>1, <1>3, FactsStay DEF Candidate
  <1>5. "HAS_REX" \in attributes' <=> "HAS_REX" \in attributes
    BY <1>1 DEF Unconsumed
  <1>6. \A i : Overriding(i)' <=> Overriding(i)
    BY <1>1, <1>3, <1>5, FactsStay DEF Overriding
  <1>7. /\ \A i \in Slots : types[i] = IF Overriding(i) THEN "EFFECTIVE" ELSE "IGNORED"
        /\ "HAS_OPERANDSIZE" \in attributes <=> Present({OSZ}) # {}
    BY <1>1, <1>2 DEF Marked, Walking
  <1>8. CASE C = 0
    <2>1. types' = types /\ Consumed' = {}
      BY <1>1, <1>2, <1>8 DEF Consumed
    <2>2. attributes' = attributes
      BY <1>1, <1>8 DEF Unconsumed, OSZ
    <2>3. ("HAS_OPERANDSIZE" \in attributes') =
            ((Present({OSZ}))' # {} /\ \A i \in Consumed' : prefixes'[i] # OSZ)
      BY <1>4, <1>7, <2>1, <2>2
    <2> QED
      BY <1>2, <1>6, <1>7, <2>1, <2>3 DEF Marked
  <1>9. CASE C # 0
    <2>1. /\ M \in Slots /\ M \in 0 .. prefixCount - 1 /\ prefixes[M] = C
          /\ C \in Group1 \cup {OSZ}
      BY <1>9, CandidateFacts DEF Found
    <2>2. /\ types' \in [Slots -> PrefixTypes] /\ types'[M] = "MANDATORY"
          /\ \A i \in Slots \ {M} : types'[i] = types[i]
      BY <1>1, <1>2, <1>9, <2>1 DEF PrefixTypes
    <2>3. Consumed' = {M}
      BY <1>2, <2>1, <2>2 DEF Consumed
    <2>4. Candidate' = {M}
      BY <1>4, <1>9 DEF Candidate
    <2>5. \A i \in Slots \ Consumed' :
            types'[i] = IF Overriding(i)' THEN "EFFECTIVE" ELSE "IGNORED"
      BY <1>6, <1>7, <2>2, <2>3
    <2>6. ("HAS_OPERANDSIZE" \in attributes') =
            (Present({OSZ}) # {} /\ \A i \in Consumed' : prefixes[i] # OSZ)
      BY <1>1, <1>7, <2>1, <2>3 DEF Unconsumed
    <2> QED
      BY <1>1, <1>3, <1>4, <2>2, <2>3, <2>4, <2>5, <2>6 DEF Marked
  <1> QED
    BY <1>8, <1>9

(* Where the last 66 is an override it is marked as one already.           *)
LEMMA OperandSizeKeeps ==
  ASSUME Found, Marked, OperandSize
  PROVE  types' = types
  <1>1. /\ status = "TREE"
        /\ types' = types \/ /\ "HAS_OPERANDSIZE" \in attributes
                             /\ types' = [types EXCEPT ![pfx.offset_osz_override] = "EFFECTIVE"]
    BY DEF OperandSize, At
  <1>2. ASSUME "HAS_OPERANDSIZE" \in attributes
        PROVE  types[pfx.offset_osz_override] = "EFFECTIVE"
    <2>1. Present({OSZ}) # {} /\ \A i \in Consumed : prefixes[i] # OSZ
      BY <1>1, <1>2 DEF Marked, Walking
    <2>2. Last(pfx.offset_osz_override, {OSZ}) /\ pfx.offset_osz_override \in Slots
      BY <2>1, CandidateFacts DEF Found, Choices, FieldsTyped, PrefixState
    <2>3. prefixes[pfx.offset_osz_override] = OSZ
      BY <2>2, Unique
    <2> QED
      BY <1>1, <2>1, <2>2, <2>3 DEF Marked, Walking, Overriding
  <1>3. types \in [Slots -> PrefixTypes]
    BY <1>1 DEF Marked, Walking
  <1> QED
    BY <1>1, <1>2, <1>3

(* What a fallback gives back, and that it gives back everything.          *)
LEMMA FallbackGives ==
  ASSUME Found, Encoded, Marked, Fallback
  PROVE  /\ types' \in [Slots -> PrefixTypes]
         /\ \A i \in Slots : types'[i] = IF Overriding(i)' THEN "EFFECTIVE" ELSE "IGNORED"
         /\ ("HAS_OPERANDSIZE" \in attributes') = (Present({OSZ}) # {})
  <1> DEFINE C == pfx.mandatory_candidate
             M == pfx.offset_mandatory
  <1>1. /\ status = "TREE" /\ UNCHANGED prefixFacts /\ types' = GivenBack
        /\ attributes' = IF C = OSZ THEN attributes \cup {"HAS_OPERANDSIZE"}
                                    ELSE attributes
    BY DEF Fallback, FallbackState, At
  <1>2. UNCHANGED <<prefixes, prefixCount, pfx>>
    BY <1>1 DEF prefixFacts
  <1>3. \A i : Overriding(i)' <=> Overriding(i)
    BY <1>1, <1>2, FactsStay DEF Overriding
  <1>4. /\ types \in [Slots -> PrefixTypes] /\ Consumed \subseteq Candidate
        /\ \A i \in Slots \ Consumed :
             types[i] = IF Overriding(i) THEN "EFFECTIVE" ELSE "IGNORED"
        /\ ("HAS_OPERANDSIZE" \in attributes) =
             (Present({OSZ}) # {} /\ \A i \in Consumed : prefixes[i] # OSZ)
    BY <1>1 DEF Marked, Walking
  <1>5. types' \in [Slots -> PrefixTypes]
    BY <1>1, <1>4 DEF GivenBack, PrefixTypes
  <1>6. CASE C = 0
    <2>1. Consumed = {} /\ types' = types
      BY <1>1, <1>4, <1>6 DEF Candidate, GivenBack
    <2>2. attributes' = attributes
      BY <1>1, <1>6 DEF OSZ
    <2> QED
      BY <1>3, <1>4, <1>5, <2>1, <2>2
  <1>7. CASE C # 0
    <2>1. /\ M \in Slots /\ M \in 0 .. prefixCount - 1 /\ prefixes[M] = C
          /\ C \in Group1 \cup {OSZ} /\ ~IsRex(C) /\ C # ASZ /\ OSZ \notin Group1
          /\ Present({OSZ}) # {} => Last(pfx.offset_osz_override, {OSZ})
      BY <1>7, CandidateFacts DEF Found
    <2>2. Overriding(M) <=> C = OSZ /\ pfx.offset_osz_override = M
      <3>1. ~Last(M, {ASZ})
        BY <2>1, Unique
      <3>2. "HAS_REX" \in attributes => LastRex
        BY <1>1 DEF Encoded, EncodingMarks, EncodingAttributes, HasPrefix, Modern
      <3>3. ~("HAS_REX" \in attributes /\ M = prefixCount - 1)
        BY <2>1, <3>2 DEF LastRex
      <3>4. Last(M, {OSZ}) <=> C = OSZ /\ pfx.offset_osz_override = M
        <4>1. ASSUME Last(M, {OSZ}) PROVE C = OSZ /\ pfx.offset_osz_override = M
          <5>1. M \in Present({OSZ}) /\ prefixes[M] = OSZ
            BY <4>1 DEF Last, Greatest, Present
          <5>2. Last(pfx.offset_osz_override, {OSZ})
            BY <2>1, <5>1
          <5>3. pfx.offset_osz_override = M
            BY <4>1, <5>2, Unique
          <5> QED
            BY <2>1, <5>1, <5>3
        <4>2. ASSUME C = OSZ, pfx.offset_osz_override = M PROVE Last(M, {OSZ})
          <5>1. M \in Present({OSZ})
            BY <2>1, <4>2 DEF Present
          <5> QED
            BY <2>1, <4>2, <5>1
        <4> QED
          BY <4>1, <4>2
      <3> QED
        BY <3>1, <3>3, <3>4 DEF Overriding
    <2>3. types'[M] = IF Overriding(M) THEN "EFFECTIVE" ELSE "IGNORED"
      BY <1>1, <1>7, <2>1, <2>2 DEF GivenBack
    <2>4. \A i \in Slots \ {M} : types'[i] = types[i] /\ i \notin Consumed
      BY <1>1, <1>4, <2>1 DEF GivenBack, Candidate
    <2>5. ("HAS_OPERANDSIZE" \in attributes') = (Present({OSZ}) # {})
      <3>1. CASE C = OSZ
        <4>1. M \in Present({OSZ})
          BY <2>1, <3>1 DEF Present
        <4> QED
          BY <1>1, <3>1, <4>1
      <3>2. CASE C # OSZ
        <4>1. \A i \in Consumed : prefixes[i] # OSZ
          BY <1>4, <2>1, <3>2 DEF Candidate
        <4> QED
          BY <1>1, <1>4, <3>2, <4>1
      <3> QED
        BY <3>1, <3>2
    <2> QED
      BY <1>3, <1>4, <1>5, <2>3, <2>4, <2>5
  <1> QED
    BY <1>6, <1>7

LEMMA FallbackMarked ==
  ASSUME Found, Encoded, Marked, Fallback
  PROVE  Marked'
  <1>1. UNCHANGED prefixFacts
    BY DEF Fallback, FallbackState
  <1>2. Consumed' = {} /\ (Present({OSZ}))' = Present({OSZ})
    BY <1>1, FallbackGives, FactsStay DEF Consumed
  <1> QED
    BY <1>2, FallbackGives DEF Marked

LEMMA MarkedStep ==
  ASSUME Control, Sized, Layout, Found, Pathed, Encoded, Marked, [Next]_vars
  PROVE  Marked'
  <1>1. CASE Collect
    BY <1>1, CollectMarked
  <1>2. CASE Failing \/ Succeed
    BY <1>2, FailingRefused
    DEF Refused, RefusedWith, Fail, Errors, Succeed, Marked, Walking
  <1>3. CASE MandatoryPrefix
    BY <1>3, MandatoryMarked
  <1>4. CASE Fallback
    BY <1>4, FallbackMarked
  <1>5. CASE OperandSize
    <2>1. types' = types
      BY <1>5, OperandSizeKeeps
    <2> QED
      BY <1>5, <2>1, KeptMarked DEF OperandSize, At, Descend
  <1>6. ASSUME NEW b \in Bytes, Opcode(b) PROVE Marked'
    <2>1. path = {}
      BY <1>6, OpcodePath
    <2> QED
      BY <1>6, <2>1, KeptMarked DEF Opcode, At
  <1>7. ASSUME NEW w \in 0 .. 1, VectorPrefix(w) PROVE Marked'
    <2>1. node = "VECTOR_PREFIX" /\ status = "TREE" /\ UNCHANGED <<prefixFacts, types, path>>
          /\ attributes' = attributes \cup {HasPrefix[PrefixEncoding]}
      BY <1>7 DEF VectorPrefix, At
    <2>2. opcode \in {98, 143, 196, 197}
      BY <2>1 DEF Control, NodeFitsEncoding
    <2>3. HasPrefix[PrefixEncoding] \in {"HAS_XOP", "HAS_VEX", "HAS_EVEX", "HAS_MVEX"}
      BY <2>2 DEF PrefixEncoding, HasPrefix
    <2> QED
      BY <2>1, <2>3, KeptMarked
  <1>8. ASSUME NEW w \in 0 .. 1, NEW m0 \in 0 .. 1, Rex2(w, m0) PROVE Marked'
    <2>1. Encoded' /\ encoding' = "REX2" /\ UNCHANGED <<prefixFacts, path>>
          /\ status = "TREE" /\ status' = "TREE"
          /\ attributes' = attributes \cup {"HAS_REX2"} /\ node = "ESCAPE"
          /\ types' = IF "HAS_REX" \in attributes
                      THEN [types EXCEPT ![rexOffset] = "IGNORED"] ELSE types
      BY <1>8, EncodingPrefixEncoded DEF Rex2, At, HasPrefix
    <2>2. attributes' \cap EncodingAttributes = {"HAS_REX2"}
      BY <2>1 DEF Encoded, EncodingMarks, HasPrefix
    <2>3. "HAS_REX" \notin attributes
      BY <2>1, <2>2 DEF EncodingAttributes
    <2> QED
      BY <2>1, <2>3, KeptMarked
  <1>9. CASE \/ Opcode3DNow \/ SwitchTable \/ Rex2Node \/ Modrm \/ VectorNode
             \/ (\E p \in Bytes : Escape(p)) \/ (\E d \in Definitions : Definition(d))
             \/ (\E d \in Definitions : ThreeDNowOpcode(d)) \/ Part
             \/ CheckErrorConditions
    <2>1. CASE SwitchTable
      <3>1. encoding \in Expected \cup OwnMeaning
        BY <2>1 DEF SwitchTable, Expected, Control, NodeFitsEncoding
      <3> QED
        BY <2>1, <3>1, KeptMarked DEF SwitchTable, treeVars
    <2>2. CASE ~SwitchTable
      <3>1. /\ status = "TREE" /\ UNCHANGED <<prefixFacts, types, attributes>>
            /\ \/ path' \in {path, path \cap {"MANDATORY_PREFIX"}}
               \/ \E n : path' = path \cup {n}
        BY <1>9, <2>2 DEF Opcode3DNow, Rex2Node, Modrm, VectorNode, Escape,
           Definition, ThreeDNowOpcode, Part, AtPart, CheckErrorConditions, At,
           Descend, treeVars
      <3> QED
        BY <3>1, KeptMarked
    <2> QED
      BY <2>1, <2>2
  <1>10. CASE UNCHANGED vars
    <2>1. UNCHANGED <<prefixFacts, types, attributes, path, status>>
      BY <1>10 DEF vars, prefixVars, treeVars, prefixFacts
    <2> QED
      BY <2>1, KeptMarked DEF Marked, Walking
  <1> QED
    BY <1>1, <1>2, <1>3, <1>4, <1>5, <1>6, <1>7, <1>8, <1>9, <1>10
    DEF Next, Walk, Decode, Failing

-----------------------------------------------------------------------------
(* The invariant of a whole call.                                          *)
Meaning == Control /\ Sized /\ Layout /\ Found /\ Pathed /\ Encoded /\ Marked
             /\ Chosen

LEMMA InitMeaning == Init => Meaning
  BY InitControl, InitSized, InitLayout, InitFound, InitPathed, InitEncoded,
     InitMarked, InitChosen DEF Meaning

LEMMA MeaningStep == Meaning /\ [Next]_vars => Meaning'
  BY ControlStep, SizedStep, LayoutStep, FoundStep, PathedStep, EncodedStep,
     MarkedStep, ChosenStep DEF Meaning

(* The invariant is inductive.                                             *)
THEOREM MeaningInductive == Spec => []Meaning
  BY InitMeaning, MeaningStep, PTL DEF Spec

-----------------------------------------------------------------------------
LEMMA MarkedAccounts == Meaning => ConsumptionAccounted
  <1> SUFFICES ASSUME Meaning, Walking PROVE ConsumptionAccounted
    BY DEF ConsumptionAccounted
  <1>1. ASSUME NEW i \in Consumed
        PROVE  /\ "MANDATORY_PREFIX" \in path
               /\ IF Present(Group1) # {} THEN Last(i, Group1) ELSE First(i, {OSZ})
    <2>1. "MANDATORY_PREFIX" \in path /\ i \in Candidate
      BY DEF Meaning, Marked
    <2>2. pfx.mandatory_candidate # 0 /\ i = pfx.offset_mandatory
      BY <2>1 DEF Candidate
    <2> QED
      BY <2>1, <2>2, CandidateFacts DEF Meaning, Found
  <1> QED
    BY <1>1 DEF ConsumptionAccounted, Meaning, Marked, Overriding

(* Whatever the tables make the walk do, the marks of the prefixes say     *)
(* which prefix was consumed and that no other mark was touched, and 66    *)
(* is an operand-size override exactly while it is not consumed.           *)
THEOREM ConsumptionIsAccounted == Spec => []ConsumptionAccounted
  BY MeaningInductive, MarkedAccounts, PTL

LEMMA FallbackOnly ==
  ASSUME Meaning, [Next]_vars, temp, ~temp'
  PROVE  Fallback
  <1>1. ~Failing
    BY FailingRefused DEF Refused, RefusedWith, Fail, treeVars, Meaning
  <1>2. ~Collect /\ ~UNCHANGED vars
    BY DEF Collect, vars, treeVars
  <1>3. ~Decode
    BY <1>1 DEF Decode, Failing, Definition, Part, CheckErrorConditions,
       ThreeDNowOpcode, Succeed, treeVars
  <1>4. ~SwitchTable
    BY DEF SwitchTable, Fail, treeVars
  <1> QED
    BY <1>1, <1>2, <1>3, <1>4
    DEF Next, Walk, Failing, Opcode, Opcode3DNow, Escape, VectorPrefix, Rex2,
        Rex2Node, Modrm, MandatoryPrefix, OperandSize, VectorNode, treeVars

(* A fallback leaves nothing of the consumption behind it.                 *)
THEOREM FallbackRestoresAll == Spec => FallbackRestores
  <1> DEFINE Restored ==
        temp /\ ~temp' =>
          /\ \A i \in Slots : types'[i] # "MANDATORY"
          /\ ("HAS_OPERANDSIZE" \in attributes') = (Present({OSZ}) # {})
          /\ \A i \in Slots : Last(i, {OSZ}) => types'[i] = "EFFECTIVE"
  <1>1. Meaning /\ [Next]_vars => Restored
    <2> SUFFICES ASSUME Meaning, [Next]_vars, temp, ~temp' PROVE Restored
      OBVIOUS
    <2>1. Fallback
      BY FallbackOnly
    <2>2. UNCHANGED prefixFacts
      BY <2>1 DEF Fallback, FallbackState
    <2>3. \A i : Last(i, {OSZ}) => Overriding(i)'
      BY <2>2, FactsStay DEF Overriding
    <2> QED
      BY <2>1, <2>3, FallbackGives DEF Meaning
  <1>2. Meaning /\ [Next]_vars => [Restored]_vars
    BY <1>1
  <1> QED
    BY <1>2, MeaningInductive, PTL DEF Spec, FallbackRestores

-----------------------------------------------------------------------------
(* What an attribute says of the prefix in slot i.                         *)
Overrides == IF mode = "LONG_64" THEN NewSegments ELSE Group2

Names(a, i) ==
    \/ a = "HAS_LOCK" /\ Last(i, {LOCK})
    \/ a \in {"HAS_REPNE", "HAS_XACQUIRE", "HAS_BND"}
         /\ Last(i, Group1) /\ prefixes[i] = REPNE
    \/ a \in {"HAS_REP", "HAS_REPE", "HAS_XRELEASE"}
         /\ Last(i, Group1) /\ prefixes[i] = REP
    \/ a = "HAS_BRANCH_TAKEN" /\ Last(i, Group2) /\ prefixes[i] = DS
    \/ a = "HAS_BRANCH_NOT_TAKEN" /\ Last(i, Group2) /\ prefixes[i] = CS
    \/ a = "HAS_NOTRACK" /\ Last(i, {DS})
    \/ i \in Present(Overrides) /\ Last(i, Overrides) /\ a = SegmentName[prefixes[i]]

Named == {"HAS_LOCK", "HAS_NOTRACK"} \cup RepeatAttributes \cup BranchAttributes
           \cup SegmentAttributes

Added == LockAttribute \cup Group1Attribute \cup BranchAttribute
           \cup NotrackAttribute \cup SegmentAttribute

LEMMA NamesStay ==
  ASSUME UNCHANGED prefixFacts
  PROVE  \A a, i : a \in (Effects(i))' <=> a \in attributes' /\ Names(a, i)
  <1>1. UNCHANGED <<mode, prefixes>>
    BY DEF prefixFacts
  <1>2. Overrides' = Overrides
    BY <1>1 DEF Overrides
  <1>3. ASSUME NEW i
        PROVE  (Effects(i))' = {a \in attributes' : Names(a, i)'}
    BY DEF Effects, Names, Overrides
  <1>4. \A a, i : Names(a, i)' <=> Names(a, i)
    BY <1>1, <1>2, FactsStay DEF Names
  <1> QED
    BY <1>3, <1>4

(* What a step of a call can be.                                           *)
Continues == status = "TREE" /\ status' = "TREE" /\ (Walk \/ Decode) /\ ~Failing

LEMMA StepKinds ==
  ASSUME Meaning, [Next]_vars
  PROVE  \/ Collect /\ IInv' /\ status = "PREFIXES"
         \/ Failing /\ Refused
         \/ Succeed
         \/ UNCHANGED vars
         \/ Continues
  <1>1. CASE Collect
    BY <1>1, CollectFound DEF Meaning
  <1>2. CASE Failing
    BY <1>2, FailingRefused DEF Meaning
  <1>3. CASE Walk /\ ~Failing
    <2>1. status = "TREE"
      BY <1>3, StepShape DEF Meaning
    <2>2. SwitchTable => status' = "TREE"
      <3>1. SwitchTable => encoding \in Expected \cup OwnMeaning
        BY DEF SwitchTable, Expected, Control, NodeFitsEncoding, Meaning
      <3> QED
        BY <2>1, <3>1 DEF SwitchTable
    <2>3. status' = "TREE"
      BY <1>3, <2>1, <2>2
      DEF Walk, Failing, Opcode, Opcode3DNow, Escape, VectorPrefix, Rex2,
          Rex2Node, Modrm, MandatoryPrefix, OperandSize, VectorNode, Fallback,
          FallbackState
    <2> QED
      BY <1>3, <2>1, <2>3 DEF Continues
  <1>4. CASE Decode /\ ~Failing /\ ~Succeed
    <2>1. status = "TREE"
      BY <1>4, StepShape DEF Meaning
    <2> QED
      BY <1>4, <2>1 DEF Continues, Decode, Failing, Definition, ThreeDNowOpcode,
         Part, CheckErrorConditions
  <1> QED
    BY <1>1, <1>2, <1>3, <1>4 DEF Next

(* A call succeeds once, and then it is over.                              *)
LEMMA SuccessStep ==
  ASSUME Meaning, [Next]_vars, status' = "SUCCESS"
  PROVE  Succeed \/ UNCHANGED vars
  <1>1. ~IInv'
    BY DEF IInv, PrefixTypeOK
  <1>2. ~Refused
    BY DEF Refused, RefusedWith, Fail, Errors
  <1> QED
    BY <1>1, <1>2, StepKinds DEF Continues

(* What the walk hands to ZydisSetAttributes.                              *)
LEMMA Answered ==
  ASSUME Meaning, Succeed
  PROVE  /\ Choices /\ NotrackPlaced /\ pfx \in PrefixState
         /\ encoding \in Encodings
         /\ TheDef \in Definitions
         /\ IsLegacy /\ pfx.has_lock => Takes("LOCK")
         /\ attributes \cap EncodingAttributes = EncodingMarks
         /\ attributes \subseteq {"HAS_OPERANDSIZE", "HAS_ADDRESSSIZE"}
                                   \cup EncodingAttributes
         /\ encoding \in Modern => pfx.mandatory_candidate = 0 /\ ~pfx.has_lock
         /\ encoding = "3DNOW" => ~pfx.has_lock
         /\ types \in [Slots -> PrefixTypes]
         /\ \A i \in Slots : types[i] = "EFFECTIVE" => Overriding(i)
         /\ UNCHANGED <<prefixFacts, encoding, def, modes>>
         /\ \/ "MINIMAL" \in modes /\ attributes' = attributes /\ types' = types
            \/ "MINIMAL" \notin modes /\ SetAttributes
  <1>1. status = "TREE" /\ node = "ATTRIBUTES"
    BY DEF Succeed, At
  <1>2. /\ UNCHANGED <<prefixFacts, encoding, def, modes>>
        /\ \/ "MINIMAL" \in modes /\ attributes' = attributes /\ types' = types
           \/ "MINIMAL" \notin modes /\ SetAttributes
    BY DEF Succeed, treeVars
  <1>3. Choices /\ NotrackPlaced /\ pfx \in PrefixState
    BY <1>1 DEF Meaning, Found, Choices, FieldsTyped
  <1>4. PICK d \in Definitions : def = {d}
    BY <1>1 DEF Meaning, Chosen
  <1>5. TheDef \in Definitions
    BY <1>4 DEF TheDef
  <1>6. \A i \in Slots : types[i] = "EFFECTIVE" => Overriding(i)
    BY <1>1 DEF Meaning, Marked, Walking, Consumed
  <1> QED
    BY <1>1, <1>2, <1>3, <1>5, <1>6
    DEF Meaning, Control, EncodingKnown, Chosen, Encoded, Marked, Walking

-----------------------------------------------------------------------------
(* No prefix is dropped.                                                   *)

LEMMA SucceedDropsNone == Meaning /\ Succeed => NoPrefixDropped'
  <1> SUFFICES ASSUME Meaning, Succeed PROVE NoPrefixDropped'
    OBVIOUS
  <1>1. /\ (Present({LOCK}))' = Present({LOCK})
        /\ (Present({LOCK, OSZ} \cup Group1))' = Present({LOCK, OSZ} \cup Group1)
        /\ encoding' = encoding /\ modes' = modes
    BY Answered, FactsStay
  <1>2. Present({LOCK}) # {} => pfx.has_lock
    BY Answered DEF Choices, LastOfGroupWins
  <1>3. ASSUME Present({LOCK}) # {}, "MINIMAL" \notin modes
        PROVE  "HAS_LOCK" \in attributes'
    <2>1. IsLegacy /\ Takes("LOCK") /\ pfx.has_lock
      BY <1>2, <1>3, Answered DEF IsLegacy, Encodings
    <2> QED
      BY <1>3, <2>1, Answered DEF SetAttributes, LockAttribute
  <1>4. ASSUME encoding \in Modern
        PROVE  Present({LOCK, OSZ} \cup Group1) = {}
    <2>1. Present({LOCK}) = {}
      BY <1>2, <1>4, Answered
    <2>2. Present(Group1 \cup {OSZ}) = {}
      BY <1>4, Answered DEF Choices, MandatoryChoice
    <2> QED
      BY <2>1, <2>2 DEF Present
  <1>5. attributes' \cap EncodingAttributes = EncodingMarks'
    <2>1. Encoded' /\ status' = "SUCCESS"
      BY SucceedEncoded DEF Meaning, Succeed
    <2> QED
      BY <2>1 DEF Encoded
  <1> QED
    BY <1>1, <1>3, <1>4, <1>5 DEF NoPrefixDropped, EncodingMarks, LastRex

(* No prefix that an instruction may not have is dropped silently.         *)
THEOREM NothingDropped == Spec => []NoPrefixDropped
  <1>1. Init => NoPrefixDropped
    BY DEF Init, InitPrefixes, NoPrefixDropped
  <1>2. Meaning /\ NoPrefixDropped /\ [Next]_vars => NoPrefixDropped'
    <2> SUFFICES ASSUME Meaning, NoPrefixDropped, [Next]_vars, status' = "SUCCESS"
                 PROVE  NoPrefixDropped'
      BY DEF NoPrefixDropped
    <2>1. CASE UNCHANGED vars
      <3>1. UNCHANGED <<status, modes, mode, encoding, attributes, prefixes, prefixCount>>
        BY <2>1 DEF vars, prefixVars, treeVars
      <3> QED
        BY <3>1 DEF NoPrefixDropped, Present, IsRex
    <2> QED
      BY <2>1, SuccessStep, SucceedDropsNone
  <1> QED
    BY <1>1, <1>2, MeaningInductive, PTL DEF Spec

-----------------------------------------------------------------------------
(* Each attribute ZydisSetAttributes adds names the prefix it is for.      *)

LEMMA LockNames ==
  ASSUME Choices
  PROVE  \A a \in LockAttribute :
           /\ pfx.offset_lock \in 0 .. prefixCount - 1
           /\ Names(a, pfx.offset_lock)
  <1> SUFFICES ASSUME LockAttribute # {}
               PROVE  /\ pfx.offset_lock \in 0 .. prefixCount - 1
                      /\ Names("HAS_LOCK", pfx.offset_lock)
    BY DEF LockAttribute
  <1>1. Last(pfx.offset_lock, {LOCK})
    BY DEF LockAttribute, Choices, LastOfGroupWins
  <1> QED
    BY <1>1, Unique DEF Names

LEMMA Group1Names ==
  ASSUME Choices
  PROVE  \A a \in Group1Attribute :
           /\ pfx.offset_group1 \in 0 .. prefixCount - 1
           /\ Names(a, pfx.offset_group1)
  <1> SUFFICES ASSUME NEW a \in Group1Attribute
               PROVE  /\ pfx.offset_group1 \in 0 .. prefixCount - 1
                      /\ Names(a, pfx.offset_group1)
    OBVIOUS
  <1>1. \/ pfx.group1 = REPNE /\ a \in {"HAS_REPNE", "HAS_XACQUIRE", "HAS_BND"}
        \/ pfx.group1 = REP /\ a \in {"HAS_REP", "HAS_REPE", "HAS_XRELEASE"}
    BY DEF Group1Attribute
  <1>2. pfx.group1 # 0
    BY <1>1 DEF REPNE, REP
  <1>3. Last(pfx.offset_group1, Group1) /\ prefixes[pfx.offset_group1] = pfx.group1
    BY <1>2 DEF Choices, LastOfGroupWins
  <1> QED
    BY <1>1, <1>3, Unique DEF Names

LEMMA BranchNames ==
  ASSUME Choices
  PROVE  \A a \in BranchAttribute :
           /\ pfx.offset_group2 \in 0 .. prefixCount - 1
           /\ Names(a, pfx.offset_group2)
  <1> SUFFICES ASSUME NEW a \in BranchAttribute
               PROVE  /\ pfx.offset_group2 \in 0 .. prefixCount - 1
                      /\ Names(a, pfx.offset_group2)
    OBVIOUS
  <1>1. \/ pfx.group2 = CS /\ a = "HAS_BRANCH_NOT_TAKEN"
        \/ pfx.group2 = DS /\ a = "HAS_BRANCH_TAKEN"
    BY DEF BranchAttribute
  <1>2. pfx.group2 # 0
    BY <1>1 DEF CS, DS
  <1>3. Last(pfx.offset_group2, Group2) /\ prefixes[pfx.offset_group2] = pfx.group2
    BY <1>2 DEF Choices, LastOfGroupWins
  <1> QED
    BY <1>1, <1>3, Unique DEF Names

LEMMA NotrackNames ==
  ASSUME Choices, NotrackPlaced
  PROVE  \A a \in NotrackAttribute :
           /\ pfx.offset_notrack \in 0 .. prefixCount - 1
           /\ Names(a, pfx.offset_notrack)
  <1> DEFINE i == pfx.offset_notrack
  <1> SUFFICES ASSUME NotrackAttribute # {}
               PROVE  i \in 0 .. prefixCount - 1 /\ Names("HAS_NOTRACK", i)
    BY DEF NotrackAttribute
  <1>1. i >= 0
    BY DEF NotrackAttribute
  <1>2. ValidNotrack(i)
    BY <1>1 DEF NotrackPlaced
  <1>3. Last(i, {DS})
    <2>1. CASE mode = "LONG_64"
      BY <1>2, <2>1 DEF ValidNotrack
    <2>2. CASE mode # "LONG_64"
      <3>1. Last(i, Group2) /\ prefixes[i] = DS
        BY <1>2, <2>2 DEF ValidNotrack
      <3>2. Present({DS}) \subseteq Present(Group2)
        BY DEF Present, Group2, OldSegments
      <3>3. i \in Present({DS})
        BY <3>1 DEF Last, Greatest, Present
      <3> QED
        BY <3>1, <3>2, <3>3 DEF Last, Greatest
    <2> QED
      BY <2>1, <2>2
  <1> QED
    BY <1>3, Unique DEF Names

LEMMA SegmentNamesPrefix ==
  ASSUME Choices
  PROVE  \A a \in SegmentAttribute :
           /\ pfx.offset_segment \in 0 .. prefixCount - 1
           /\ Names(a, pfx.offset_segment)
  <1> SUFFICES ASSUME NEW a \in SegmentAttribute
               PROVE  /\ pfx.offset_segment \in 0 .. prefixCount - 1
                      /\ Names(a, pfx.offset_segment)
    OBVIOUS
  <1>1. pfx.effective_segment # 0 /\ a = SegmentName[pfx.effective_segment]
    BY DEF SegmentAttribute
  <1>2. /\ Last(pfx.offset_segment, Overrides)
        /\ prefixes[pfx.offset_segment] = pfx.effective_segment
    BY <1>1 DEF Choices, SegmentChoice, Overrides
  <1>3. pfx.offset_segment \in Present(Overrides)
    BY <1>2 DEF Last, Greatest
  <1> QED
    BY <1>1, <1>2, <1>3, Unique DEF Names

(* The slots an attribute marks.                                           *)
Marking(a, i) ==
    \/ a \in LockAttribute /\ i = pfx.offset_lock
    \/ a \in Group1Attribute /\ i = pfx.offset_group1
    \/ a \in BranchAttribute /\ i = pfx.offset_group2
    \/ a \in NotrackAttribute /\ i = pfx.offset_notrack
    \/ a \in SegmentAttribute /\ i = pfx.offset_segment

LEMMA MarkingNames ==
  ASSUME Choices, NotrackPlaced
  PROVE  /\ \A a \in Added : \E i \in 0 .. prefixCount - 1 : Marking(a, i)
         /\ \A a, i : Marking(a, i) => a \in Added /\ Names(a, i)
  BY LockNames, Group1Names, BranchNames, NotrackNames, SegmentNamesPrefix
  DEF Added, Marking

LEMMA MarkingMarks ==
  ASSUME SetAttributes, types \in [Slots -> PrefixTypes]
  PROVE  /\ \A a : \A i \in Slots : Marking(a, i) => types'[i] # "IGNORED"
         /\ \A i \in Slots : types'[i] = "EFFECTIVE" =>
              types[i] = "EFFECTIVE" \/ \E a \in Added : Marking(a, i)
  <1>1. \A i \in Slots : types'[i] = IF i \in NowEffective THEN "EFFECTIVE" ELSE types[i]
    BY DEF SetAttributes
  <1>2. ASSUME NEW a, NEW i \in Slots, Marking(a, i) PROVE types'[i] # "IGNORED"
    <2>1. i \in NowEffective \/ types[i] # "IGNORED"
      BY <1>2 DEF Marking, NowEffective, Mark, Group1Mark
    <2> QED
      BY <1>1, <2>1
  <1>3. ASSUME NEW i \in Slots, i \in NowEffective
        PROVE  \E a \in Added : Marking(a, i)
    BY <1>3 DEF Added, Marking, NowEffective, Mark, Group1Mark
  <1> QED
    BY <1>1, <1>2, <1>3

-----------------------------------------------------------------------------
(* The attributes and the marks tell one story.                            *)

LEMMA SlotsUsed == Choices => 0 .. prefixCount - 1 \subseteq Slots
  BY DEF Choices, FieldsTyped, Slots

LEMMA NamedAdded ==
  ASSUME Meaning, Succeed, "MINIMAL" \notin modes
  PROVE  /\ attributes' = attributes \cup Added
         /\ attributes' \cap Named = Added
  <1>1. attributes' = attributes \cup Added
    BY Answered DEF SetAttributes, Added
  <1>2. attributes \cap Named = {}
    BY Answered, SegmentAttributeNames
    DEF Named, EncodingAttributes, RepeatAttributes, BranchAttributes
  <1>3. Added \subseteq Named
    BY Answered, AddedNames DEF Added, Named
  <1> QED
    BY <1>1, <1>2, <1>3

LEMMA SucceedMarks == Meaning /\ Succeed => MarksMatchAttributes'
  <1> SUFFICES ASSUME Meaning, Succeed, "MINIMAL" \notin modes
               PROVE  MarksMatchAttributes'
    BY Answered DEF MarksMatchAttributes
  <1>1. UNCHANGED prefixFacts
    BY Answered
  <1>2. SetAttributes /\ types \in [Slots -> PrefixTypes]
    BY Answered
  <1>3. \A b, i : b \in (Effects(i))' <=> b \in attributes' /\ Names(b, i)
    BY <1>1, NamesStay
  <1>4. UNCHANGED <<mode, prefixes, prefixCount>>
    BY <1>1 DEF prefixFacts
  <1>5. ASSUME NEW a \in attributes' \cap Named
        PROVE  \E i \in 0 .. prefixCount' - 1 :
                 a \in (Effects(i))' /\ types'[i] # "IGNORED"
    <2>1. a \in Added
      BY NamedAdded
    <2>2. PICK i \in 0 .. prefixCount - 1 : Marking(a, i)
      BY <2>1, Answered, MarkingNames
    <2>3. Names(a, i) /\ i \in Slots
      BY <2>2, Answered, MarkingNames, SlotsUsed
    <2>4. types'[i] # "IGNORED"
      BY <1>2, <2>2, <2>3, MarkingMarks
    <2> QED
      BY <1>3, <1>4, <2>2, <2>3, <2>4
  <1>6. ASSUME NEW i \in Slots, types'[i] = "EFFECTIVE"
        PROVE  \/ Last(i, {OSZ})' \/ Last(i, {ASZ})'
               \/ i = prefixCount' - 1 /\ (IsRex(prefixes[i]))'
               \/ (Effects(i))' # {}
    <2>1. CASE types[i] = "EFFECTIVE"
      <3>1. Overriding(i)
        BY <2>1, Answered
      <3>2. "HAS_REX" \in attributes => LastRex
        BY Answered DEF EncodingMarks, EncodingAttributes, HasPrefix, Modern
      <3>3. \/ Last(i, {OSZ}) \/ Last(i, {ASZ})
            \/ i = prefixCount - 1 /\ IsRex(prefixes[i])
        BY <3>1, <3>2 DEF Overriding, LastRex
      <3>4. (IsRex(prefixes[i]))' <=> IsRex(prefixes[i])
        BY <1>4 DEF IsRex
      <3>5. (Last(i, {OSZ})' <=> Last(i, {OSZ})) /\ (Last(i, {ASZ})' <=> Last(i, {ASZ}))
        BY <1>1, FactsStay
      <3> QED
        BY <1>4, <3>3, <3>4, <3>5
    <2>2. CASE types[i] # "EFFECTIVE"
      <3>1. PICK a \in Added : Marking(a, i)
        BY <1>2, <1>6, <2>2, MarkingMarks
      <3>2. Names(a, i) /\ a \in attributes'
        BY <3>1, Answered, MarkingNames, NamedAdded
      <3> QED
        BY <1>3, <3>2
    <2> QED
      BY <2>1, <2>2
  <1> QED
    BY <1>5, <1>6 DEF MarksMatchAttributes, Named, Slots

(* What was found and what was added say the same before and after a step  *)
(* that changes nothing.                                                   *)
LEMMA QuietSuccess ==
  ASSUME UNCHANGED vars
  PROVE  /\ MarksMatchAttributes => MarksMatchAttributes'
         /\ OneMeaningPerPrefix => OneMeaningPerPrefix'
  <1>1. UNCHANGED <<status, modes, types, attributes, prefixCount, prefixes, def>>
        /\ UNCHANGED prefixFacts
    BY DEF vars, prefixVars, treeVars, prefixFacts
  <1>2. \A i : (Effects(i))' = Effects(i)
    <2> SUFFICES ASSUME NEW i PROVE (Effects(i))' = Effects(i)
      OBVIOUS
    <2>1. Effects(i) = {a \in attributes : Names(a, i)}
      BY DEF Effects, Names, Overrides
    <2>2. (Effects(i))' = {a \in attributes' : Names(a, i)'}
      BY DEF Effects, Names, Overrides
    <2>3. \A a : a \in (Effects(i))' <=> a \in attributes' /\ Names(a, i)
      BY <1>1, NamesStay
    <2> QED
      BY <1>1, <2>1, <2>2, <2>3
  <1>3. \A i : IsRex(prefixes[i])' <=> IsRex(prefixes[i])
    BY <1>1, FactsStay
  <1>4. MarksMatchAttributes => MarksMatchAttributes'
    <2>1. \A i : /\ Last(i, {OSZ})' <=> Last(i, {OSZ})
                 /\ Last(i, {ASZ})' <=> Last(i, {ASZ})
      BY <1>1, FactsStay
    <2> QED
      BY <1>1, <1>2, <1>3, <2>1 DEF MarksMatchAttributes
  <1>5. OneMeaningPerPrefix => OneMeaningPerPrefix'
    BY <1>1, <1>2 DEF OneMeaningPerPrefix, Takes, TheDef
  <1> QED
    BY <1>4, <1>5

(* The attributes of a decoded instruction and the marks of its prefixes   *)
(* tell one story.                                                         *)
THEOREM MarksMatch == Spec => []MarksMatchAttributes
  <1>1. Init => MarksMatchAttributes
    BY DEF Init, InitPrefixes, MarksMatchAttributes
  <1>2. Meaning /\ MarksMatchAttributes /\ [Next]_vars => MarksMatchAttributes'
    <2> SUFFICES ASSUME Meaning, MarksMatchAttributes, [Next]_vars,
                        status' = "SUCCESS"
                 PROVE  MarksMatchAttributes'
      BY DEF MarksMatchAttributes
    <2> QED
      BY SuccessStep, SucceedMarks, QuietSuccess
  <1> QED
    BY <1>1, <1>2, MeaningInductive, PTL DEF Spec

-----------------------------------------------------------------------------
(* One prefix byte has one meaning.                                        *)

LEMMA AtMostOne ==
  ASSUME TheDef \in Definitions
  PROVE  /\ \A a, b \in LockAttribute : a = b
         /\ \A a, b \in Group1Attribute : a = b
         /\ \A a, b \in BranchAttribute \cup NotrackAttribute \cup SegmentAttribute :
              a = b
  <1>1. ~(Takes("BRANCH_HINTS") /\ Takes("NOTRACK"))
    BY HintAssumption DEF HintAssumption, Takes
  <1>2. BranchAttribute = {} \/ NotrackAttribute = {}
    BY <1>1 DEF BranchAttribute, NotrackAttribute
  <1>3. SegmentAttribute # {} => BranchAttribute = {} /\ NotrackAttribute = {}
    BY DEF SegmentAttribute, BranchAttribute, NotrackAttribute
  <1>4. /\ \A a, b \in BranchAttribute : a = b
        /\ \A a, b \in NotrackAttribute : a = b
        /\ \A a, b \in SegmentAttribute : a = b
    BY DEF BranchAttribute, NotrackAttribute, SegmentAttribute
  <1>5. \A a, b \in Group1Attribute : a = b
    BY DEF Group1Attribute
  <1> QED
    BY <1>2, <1>3, <1>4, <1>5 DEF LockAttribute

(* Which attributes a byte can have.                                       *)
LEMMA ByteOfName ==
  ASSUME pfx \in PrefixState, NEW i, NEW a \in Added, Names(a, i)
  PROVE  \/ a \in LockAttribute /\ prefixes[i] = LOCK
         \/ a \in Group1Attribute /\ prefixes[i] \in Group1
         \/ /\ a \in BranchAttribute \cup NotrackAttribute \cup SegmentAttribute
            /\ prefixes[i] \in Group2
  <1>1. CASE a \in LockAttribute
    <2>1. a = "HAS_LOCK"
      BY <1>1 DEF LockAttribute
    <2>2. ~(i \in Present(Overrides) /\ a = SegmentName[prefixes[i]])
      BY <2>1, SegmentNames DEF Present, Overrides, Group2
    <2> QED
      BY <1>1, <2>1, <2>2, Unique DEF Names
  <1>2. CASE a \in Group1Attribute
    <2>1. a \in RepeatAttributes
      BY <1>2, AddedNames
    <2>2. ~(i \in Present(Overrides) /\ a = SegmentName[prefixes[i]])
      BY <2>1, SegmentNames DEF Present, Overrides, Group2, RepeatAttributes
    <2> QED
      BY <1>2, <2>1, <2>2, Unique DEF Names, RepeatAttributes
  <1>3. CASE a \in BranchAttribute \cup NotrackAttribute \cup SegmentAttribute
    <2>1. a \in BranchAttributes \cup {"HAS_NOTRACK"} \cup SegmentAttributes
      BY <1>3, AddedNames
    <2>2. a \notin {"HAS_LOCK"} \cup RepeatAttributes
      BY <2>1, SegmentAttributeNames DEF BranchAttributes, RepeatAttributes
    <2>3. Overrides \subseteq Group2 /\ DS \in Group2
      BY DEF Overrides, Group2, OldSegments
    <2>4. Last(i, Group2) \/ Last(i, {DS}) \/ Last(i, Overrides)
      BY <2>2, Unique DEF Names, RepeatAttributes
    <2> QED
      BY <1>3, <2>3, <2>4, Unique
  <1> QED
    BY <1>1, <1>2, <1>3 DEF Added

LEMMA SucceedMeaning == Meaning /\ Succeed => OneMeaningPerPrefix'
  <1> SUFFICES ASSUME Meaning, Succeed PROVE OneMeaningPerPrefix'
    OBVIOUS
  <1>1. UNCHANGED prefixFacts
    BY Answered
  <1>2. \A b, i : b \in (Effects(i))' <=> b \in attributes' /\ Names(b, i)
    BY <1>1, NamesStay
  <1>3. CASE "MINIMAL" \in modes
    <2>1. attributes' \cap Named = {}
      BY <1>3, Answered, SegmentAttributeNames
      DEF Named, EncodingAttributes, RepeatAttributes, BranchAttributes
    <2>2. \A a : \A i \in 0 .. prefixCount - 1 : Names(a, i) => a \in Named
      BY DEF Names, Named, RepeatAttributes, BranchAttributes, SegmentAttributes,
         Present, Overrides, Group2
    <2>3. prefixCount' = prefixCount
      BY <1>1 DEF prefixFacts
    <2>4. \A i \in 0 .. prefixCount' - 1 : (Effects(i))' = {}
      BY <1>2, <2>1, <2>2, <2>3
    <2>5. attributes' \cap {"HAS_XACQUIRE", "HAS_XRELEASE"} = {}
      BY <2>1 DEF Named, RepeatAttributes
    <2> QED
      BY <2>4, <2>5 DEF OneMeaningPerPrefix
  <1>4. CASE "MINIMAL" \notin modes
    <2>1. ASSUME NEW i \in 0 .. prefixCount' - 1,
                 NEW a \in (Effects(i))', NEW b \in (Effects(i))'
          PROVE  a = b
      <3>1. prefixCount' = prefixCount
        BY <1>1 DEF prefixFacts
      <3>2. Names(a, i) /\ Names(b, i) /\ a \in attributes' /\ b \in attributes'
        BY <1>2
      <3>3. \A c : Names(c, i) => c \in Named
        BY <3>1 DEF Names, Named, RepeatAttributes, BranchAttributes,
           SegmentAttributes, Present, Overrides, Group2
      <3>4. a \in Added /\ b \in Added
        BY <1>4, <3>2, <3>3, NamedAdded
      <3>5. LOCK \notin Group1 \cup Group2 /\ Group1 \cap Group2 = {}
        BY DEF LOCK, Group1, Group2, OldSegments, NewSegments, REP, REPNE, CS, SS,
           DS, ES, FS, GS
      <3> QED
        BY <3>2, <3>4, <3>5, ByteOfName, AtMostOne, Answered
    <2>2. ASSUME attributes' \cap {"HAS_XACQUIRE", "HAS_XRELEASE"} # {}
          PROVE  "HAS_LOCK" \in attributes' \/ (Takes("HLE_WITHOUT_LOCK"))'
      <3>1. Added \cap {"HAS_XACQUIRE", "HAS_XRELEASE"} # {}
        BY <1>4, <2>2, NamedAdded DEF Named, RepeatAttributes
      <3>2. Group1Attribute \cap {"HAS_XACQUIRE", "HAS_XRELEASE"} # {}
        BY <3>1, AddedNames, Answered, SegmentAttributeNames
        DEF Added, BranchAttributes
      <3>3. Elides
        BY <3>2 DEF Group1Attribute
      <3>4. LockAttribute # {} => "HAS_LOCK" \in attributes'
        BY <1>4, NamedAdded DEF LockAttribute, Added
      <3>5. (Takes("HLE_WITHOUT_LOCK"))' <=> Takes("HLE_WITHOUT_LOCK")
        BY Answered DEF Takes, TheDef
      <3> QED
        BY <3>3, <3>4, <3>5 DEF Elides
    <2> QED
      BY <2>1, <2>2 DEF OneMeaningPerPrefix
  <1> QED
    BY <1>3, <1>4

(* One prefix byte is never given two meanings.                            *)
THEOREM OneMeaning == Spec => []OneMeaningPerPrefix
  <1>1. Init => OneMeaningPerPrefix
    BY DEF Init, InitPrefixes, OneMeaningPerPrefix
  <1>2. Meaning /\ OneMeaningPerPrefix /\ [Next]_vars => OneMeaningPerPrefix'
    <2> SUFFICES ASSUME Meaning, OneMeaningPerPrefix, [Next]_vars,
                        status' = "SUCCESS"
                 PROVE  OneMeaningPerPrefix'
      BY DEF OneMeaningPerPrefix
    <2> QED
      BY SuccessStep, SucceedMeaning, QuietSuccess
  <1> QED
    BY <1>1, <1>2, MeaningInductive, PTL DEF Spec

-----------------------------------------------------------------------------
(* Every field of a decoder call has its type in every state: the arrays   *)
(* of 15 prefixes are indexed inside their bounds, no part starts beyond   *)
(* the longest instruction, and no part has more than 8 bytes.             *)

Counts ==
    /\ length \in 0 .. MaxLength /\ prefixCount \in 0 .. length
    /\ status \in {"PREFIXES", "TREE", "SUCCESS"} \cup Errors
    /\ modes \in DecoderModes

MarksTyped == types \in [Slots -> PrefixTypes] /\ attributes \subseteq Attributes

OpcodeMaps == {MapNames[i] : i \in 1 .. 11} \cup {"0F0F"}

PlaceTyped ==
    /\ node \in Nodes /\ path \subseteq Nodes /\ temp \in BOOLEAN
    /\ map \in OpcodeMaps /\ opcode \in Bytes \cup {0}
    /\ def \in {{}} \cup {{d} : d \in Definitions}

(* A ModRM byte that was read is no longer the byte peeked; that is why a  *)
(* SIB byte is never the byte peeked at the end of the prefixes.           *)
ModrmSkipped ==
    status = "TREE" =>
      /\ raw.MODRM.size # 0 => ahead = NoByte
      /\ node = "SIB_PART" /\ TheDef.modrm => raw.MODRM.size # 0

PartsTyped ==
    /\ modrm \in ModrmBytes \cup Bytes \cup {0} /\ sib \in SibBytes \cup {0}
    /\ raw \in [Fields -> [offset : 0 .. MaxLength, size : 0 .. 8]]
    /\ ModrmSkipped

Typed == Counts /\ MarksTyped /\ PlaceTyped /\ PartsTyped

LEMMA TypedTypes == Meaning /\ Typed => TypeOK
  <1> SUFFICES ASSUME Meaning, Typed PROVE TypeOK
    OBVIOUS
  <1>1. FieldsTyped /\ Sized /\ encoding \in Encodings
    BY DEF Meaning, Found, Choices, Control, EncodingKnown
  <1> QED
    BY <1>1 DEF Typed, Counts, MarksTyped, PlaceTyped, PartsTyped, TypeOK,
       FieldsTyped, Sized, OpcodeMaps, Fields

-----------------------------------------------------------------------------
(* The nodes of the walk, the steps of the definition case and the maps.   *)
LEMMA NodesNamed ==
  /\ TreeNodes \cup Heads \cup PartSteps \cup Answering \subseteq Nodes
  /\ \A i \in 1 .. 11 : MapNames[i] \in OpcodeMaps
  /\ {"DEFAULT", "0F", "0F38", "0F3A", "0F0F"} \subseteq OpcodeMaps
  <1>1. \A n \in PartSteps \cup {"CHECK"} : \E i \in 1 .. 6 : PartNodes[i] = n
    <2>1. /\ PartNodes[1] = "MODRM_PART" /\ PartNodes[2] = "SIB_PART"
          /\ PartNodes[3] = "DISP_PART" /\ PartNodes[4] = "IMM0_PART"
          /\ PartNodes[5] = "IMM1_PART" /\ PartNodes[6] = "CHECK"
      BY DEF PartNodes
    <2>2. 1 \in 1 .. 6 /\ 2 \in 1 .. 6 /\ 3 \in 1 .. 6 /\ 4 \in 1 .. 6
          /\ 5 \in 1 .. 6 /\ 6 \in 1 .. 6
      OBVIOUS
    <2> QED
      BY <2>1, <2>2
  <1>2. PartSteps \cup {"CHECK"} \subseteq Nodes
    BY <1>1 DEF Nodes
  <1>3. TreeNodes \cup Heads \cup Answering \subseteq Nodes
    BY <1>2 DEF Nodes, TreeNodes, Answering
  <1>4. \A i \in 1 .. 11 : MapNames[i] \in OpcodeMaps
    BY DEF OpcodeMaps
  <1>5. /\ MapNames[1] = "DEFAULT" /\ MapNames[2] = "0F" /\ MapNames[3] = "0F38"
        /\ MapNames[4] = "0F3A"
    BY DEF MapNames
  <1>6. {"DEFAULT", "0F", "0F38", "0F3A", "0F0F"} \subseteq OpcodeMaps
    BY <1>4, <1>5 DEF OpcodeMaps
  <1> QED
    BY <1>2, <1>3, <1>4, <1>6

LEMMA InitTyped == Init => Typed
  <1> SUFFICES ASSUME Init PROVE Typed
    OBVIOUS
  <1>1. Counts /\ MarksTyped
    BY DEF Init, InitPrefixes, Counts, MarksTyped, Slots, PrefixTypes
  <1>2. PlaceTyped
    BY NodesNamed DEF Init, PlaceTyped
  <1>3. PartsTyped
    <2>1. raw = [p \in Fields |-> [offset |-> 0, size |-> 0]]
      BY DEF Init, Absent, Fields
    <2>2. raw["MODRM"].size = 0 /\ node = "OPCODE_TABLE"
      BY <2>1 DEF Init, Fields, Parts
    <2> QED
      BY <2>1, <2>2 DEF Init, PartsTyped, ModrmSkipped
  <1> QED
    BY <1>1, <1>2, <1>3 DEF Typed

-----------------------------------------------------------------------------
(* What a step that goes on does to the input and to what was found.       *)
LEMMA ContinueInput ==
  ASSUME Meaning, Continues
  PROVE  /\ UNCHANGED prefixFacts /\ modes' = modes
         /\ length' = length \/ \E n \in Nat : Consume(n)
  <1>1. UNCHANGED prefixFacts
    BY StepShape DEF Meaning, Continues
  <1>2. CASE Walk /\ ~Failing
    <2>1. ASSUME NEW w \in 0 .. 1, VectorPrefix(w) PROVE \E n \in Nat : Consume(n)
      BY <2>1, PayloadNumber DEF VectorPrefix, Meaning
    <2> DEFINE Moves == length' = length \/ \E n \in Nat : Consume(n)
    <2>2. (\E b \in Bytes : Opcode(b)) \/ (\E w, m0 \in 0 .. 1 : Rex2(w, m0)) => Moves
      BY DEF Opcode, Rex2
    <2>3. Modrm => Moves
      BY DEF Modrm, ReadModrm, Read
    <2>4. SwitchTable => Moves
      BY DEF SwitchTable, Fail, input, treeVars
    <2>5. ASSUME \/ Opcode3DNow \/ Rex2Node \/ MandatoryPrefix \/ OperandSize
                 \/ VectorNode \/ Fallback \/ \E p \in Bytes : Escape(p)
          PROVE  Moves
      BY <2>5 DEF Opcode3DNow, Rex2Node, MandatoryPrefix, OperandSize,
         VectorNode, Fallback, FallbackState, Escape, input, treeVars
    <2>6. modes' = modes
      BY <1>2 DEF Walk, Failing, Opcode, Opcode3DNow, Escape, VectorPrefix, Rex2,
         SwitchTable, Rex2Node, Modrm, MandatoryPrefix, OperandSize, VectorNode,
         Fallback, FallbackState, Fail, treeVars
    <2>7. Moves
      BY <1>2, <2>1, <2>2, <2>3, <2>4, <2>5 DEF Walk, Failing
    <2> QED
      BY <1>1, <2>6, <2>7
  <1>3. CASE Decode /\ ~Failing
    <2>1. Part => PartSize \in Nat
      BY PartNumber DEF Part, Meaning
    <2> QED
      BY <1>1, <1>3, <2>1 DEF Decode, Failing, Continues, Definition, Part, Read,
         CheckErrorConditions, ThreeDNowOpcode, Succeed, input, treeVars
  <1> QED
    BY <1>2, <1>3 DEF Continues

LEMMA CountsStep ==
  ASSUME Meaning, Counts, [Next]_vars
  PROVE  Counts'
  <1>1. CASE Collect /\ IInv' /\ status = "PREFIXES"
    <2>1. /\ length' \in 0 .. MaxLength /\ modes' = modes
          /\ status' \in {"PREFIXES", "TREE", "NO_MORE_DATA", "INSTRUCTION_TOO_LONG"}
      BY <1>1 DEF IInv, PrefixTypeOK, Collect
    <2>2. prefixCount' \in 0 .. length'
      <3>1. \/ prefixCount' = prefixCount /\ length' = length
            \/ prefixCount' = prefixCount + 1 /\ length' = length + 1
        BY <1>1, CollectCases DEF Collect, PrefixFails, PrefixTaken, OpcodeFound
      <3> QED
        BY <3>1 DEF Counts
    <2> QED
      BY <2>1, <2>2 DEF Counts, Errors
  <1>2. CASE Refused
    BY <1>2 DEF Refused, RefusedWith, Fail, treeVars, Counts
  <1>3. CASE Succeed \/ UNCHANGED vars
    BY <1>3 DEF Succeed, vars, prefixVars, treeVars, prefixFacts, input, Counts
  <1>4. CASE Continues
    <2>1. prefixCount' = prefixCount /\ modes' = modes /\ status' = "TREE"
      BY <1>4, ContinueInput DEF prefixFacts, Continues
    <2>2. length' \in 0 .. MaxLength /\ prefixCount' \in 0 .. length'
      <3>1. CASE length' = length
        BY <2>1, <3>1 DEF Counts
      <3>2. ASSUME NEW n \in Nat, Consume(n)
            PROVE  length' \in 0 .. MaxLength /\ prefixCount' \in 0 .. length'
        BY <2>1, <3>2 DEF Counts, Consume, Available
      <3> QED
        BY <1>4, <3>1, <3>2, ContinueInput
    <2> QED
      BY <2>1, <2>2 DEF Counts
  <1> QED
    BY <1>1, <1>2, <1>3, <1>4, StepKinds

LEMMA AttributeNames ==
  {"HAS_OPERANDSIZE", "HAS_ADDRESSSIZE", "HAS_REX"} \cup EncodingAttributes
    \subseteq Attributes
  BY DEF Attributes, EncodingAttributes

LEMMA MarksTypedStep ==
  ASSUME Meaning, Meaning', MarksTyped, [Next]_vars
  PROVE  MarksTyped'
  <1>1. CASE Collect /\ IInv' /\ status = "PREFIXES"
    BY <1>1, AttributeNames DEF IInv, PrefixTypeOK, MarksTyped
  <1>2. CASE Refused \/ UNCHANGED vars
    BY <1>2 DEF Refused, RefusedWith, Fail, vars, prefixVars, MarksTyped
  <1>3. CASE Succeed
    <2>1. types' \in [Slots -> PrefixTypes]
      BY <1>3, Answered DEF SetAttributes, PrefixTypes
    <2>2. /\ attributes' \subseteq attributes \cup Added
      BY <1>3, Answered DEF SetAttributes, Added
    <2>3. Added \subseteq Attributes
      BY <1>3, Answered, AddedNames DEF Added, Attributes
    <2> QED
      BY <2>1, <2>2, <2>3 DEF MarksTyped
  <1>4. CASE Continues
    <2>1. status' = "TREE"
      BY <1>4 DEF Continues
    <2> QED
      BY <2>1, AttributeNames DEF Meaning, Marked, Walking, Encoded, MarksTyped
  <1> QED
    BY <1>1, <1>2, <1>3, <1>4, StepKinds

-----------------------------------------------------------------------------
LEMMA OpcodePlace ==
  ASSUME Meaning, PlaceTyped, NEW b \in Bytes, Opcode(b)
  PROVE  PlaceTyped'
  <1>1. node' \in TreeNodes \cup Heads
    <2>1. EscapeFound \/ MapFound \/ SwitchFound \/ EntryFound
      BY OpcodeCases DEF Meaning
    <2> QED
      BY <2>1 DEF EscapeFound, MapFound, SwitchFound, EntryFound, TreeNodes
  <1>2. path' \subseteq path \cup {"OPCODE_TABLE"}
    BY OpcodePath DEF Meaning, Descend
  <1>3. MapAfter(b) \in OpcodeMaps
    BY NodesNamed DEF MapAfter, PlaceTyped
  <1>4. map' = MapAfter(b) /\ opcode' = b /\ UNCHANGED <<temp, def>>
    BY DEF Opcode
  <1> QED
    BY <1>1, <1>2, <1>3, <1>4, NodesNamed DEF PlaceTyped

LEMMA EncodingPrefixPlace ==
  ASSUME Meaning, PlaceTyped,
         \/ \E w \in 0 .. 1 : VectorPrefix(w)
         \/ \E w, m0 \in 0 .. 1 : Rex2(w, m0)
  PROVE  PlaceTyped'
  <1>1. UNCHANGED <<path, temp, opcode, def>>
    BY DEF VectorPrefix, Rex2
  <1>2. node' \in Heads /\ map' \in OpcodeMaps
    <2>1. CASE \E w \in 0 .. 1 : VectorPrefix(w)
      <3>1. /\ node = "VECTOR_PREFIX" /\ node' = SwitchOf(opcode)
            /\ map' = MapNames[MapNumber(ahead) + 1] /\ MapNumber(ahead) \in ValidMaps
        BY <2>1 DEF VectorPrefix, At, MapValid
      <3>2. opcode \in {98, 143, 196, 197}
        BY <3>1 DEF Meaning, Control, NodeFitsEncoding
      <3>3. MapNumber(ahead) \in 0 .. 10
        BY <3>1, <3>2 DEF ValidMaps
      <3>4. MapNumber(ahead) + 1 \in 1 .. 11
        BY <3>3
      <3> QED
        BY <3>1, <3>2, <3>4, NodesNamed DEF SwitchOf
    <2>2. CASE \E w, m0 \in 0 .. 1 : Rex2(w, m0)
      <3>1. PICK m0 \in 0 .. 1 : map' = MapNames[m0 + 1]
        BY <2>2 DEF Rex2
      <3>2. m0 + 1 \in 1 .. 11
        OBVIOUS
      <3> QED
        BY <2>2, <3>1, <3>2, NodesNamed DEF Rex2
    <2> QED
      BY <2>1, <2>2
  <1> QED
    BY <1>1, <1>2, NodesNamed DEF PlaceTyped

LEMMA PlaceStep ==
  ASSUME Meaning, PlaceTyped, [Next]_vars
  PROVE  PlaceTyped'
  <1>1. CASE Collect \/ Refused \/ Succeed \/ UNCHANGED vars
    BY <1>1 DEF Collect, Refused, RefusedWith, Fail, Succeed, vars, treeVars, PlaceTyped
  <1>2. ASSUME NEW b \in Bytes, Opcode(b) PROVE PlaceTyped'
    BY <1>2, OpcodePlace
  <1>3. CASE \/ \E w \in 0 .. 1 : VectorPrefix(w)
             \/ \E w, m0 \in 0 .. 1 : Rex2(w, m0)
    BY <1>3, EncodingPrefixPlace
  <1>4. CASE Opcode3DNow
    BY <1>4, NodesNamed DEF Opcode3DNow, PlaceTyped, TreeNodes
  <1>5. ASSUME NEW p \in Bytes, Escape(p) PROVE PlaceTyped'
    <2>1. node = "ESCAPE" /\ opcode # 213 /\ UNCHANGED treeVars
          /\ node' \in {"VECTOR_PREFIX", SwitchOf(opcode)}
      BY <1>5 DEF Escape, At
    <2>2. opcode \in {98, 143, 196, 197}
      BY <2>1 DEF Meaning, Control, NodeFitsEncoding
    <2>3. node' \in Heads
      BY <2>1, <2>2 DEF SwitchOf
    <2> QED
      BY <2>1, <2>3, NodesNamed DEF treeVars, PlaceTyped
  <1>6. CASE SwitchTable
    <2>1. encoding \in Expected \cup OwnMeaning
      BY <1>6 DEF SwitchTable, Expected, Meaning, Control, NodeFitsEncoding
    <2>2. node' \in TreeNodes \cup Heads /\ UNCHANGED treeVars
      BY <1>6, <2>1 DEF SwitchTable, TreeNodes
    <2> QED
      BY <2>2, NodesNamed DEF treeVars, PlaceTyped
  <1>7. CASE Rex2Node \/ Modrm \/ MandatoryPrefix \/ OperandSize \/ VectorNode
    <2>1. PICK n \in {"MODRM"} \cup LegacyNodes \cup VectorNodes : At(n) /\ Descend(n)
      BY <1>7 DEF Rex2Node, Modrm, MandatoryPrefix, OperandSize, VectorNode, At
    <2>2. node' \in TreeNodes /\ path' = path \cup {n} /\ n \in TreeNodes
      BY <2>1, DescendStays DEF Meaning, Descend, TreeNodes
    <2>3. UNCHANGED <<map, opcode, def>> /\ temp' \in BOOLEAN
      BY <1>7 DEF Rex2Node, Modrm, MandatoryPrefix, OperandSize, VectorNode,
         Fallbacks, PlaceTyped
    <2> QED
      BY <2>2, <2>3, NodesNamed DEF PlaceTyped
  <1>8. CASE Fallback
    <2>1. /\ node' \in TreeNodes /\ path' = {"MANDATORY_PREFIX"} /\ temp' = FALSE
          /\ UNCHANGED <<map, opcode, def>>
      BY <1>8 DEF Fallback, FallbackState, BelowLegacy, TreeNodes
    <2>2. "MANDATORY_PREFIX" \in Nodes
      BY DEF Nodes
    <2> QED
      BY <2>1, <2>2, NodesNamed DEF PlaceTyped
  <1>9. ASSUME NEW d \in Definitions, Definition(d) PROVE PlaceTyped'
    BY <1>9, NodesNamed DEF Definition, PlaceTyped
  <1>10. ASSUME NEW d \in Definitions, ThreeDNowOpcode(d) PROVE PlaceTyped'
    <2>1. opcode' \in Bytes
      BY <1>10 DEF ThreeDNowOpcode, NextByte, OneOf, Meaning, Sized
    <2> QED
      BY <1>10, <2>1, NodesNamed DEF ThreeDNowOpcode, PlaceTyped, Answering
  <1>11. CASE Part
    BY <1>11, NextParts, NodesNamed DEF Part, PlaceTyped, Answering
  <1>12. CASE CheckErrorConditions
    BY <1>12, NodesNamed DEF CheckErrorConditions, treeVars, PlaceTyped, Answering
  <1> QED
    BY <1>1, <1>2, <1>3, <1>4, <1>5, <1>6, <1>7, <1>8, <1>9, <1>10, <1>11, <1>12,
       StepKinds DEF Continues, Walk, Decode, Failing

-----------------------------------------------------------------------------
(* A part that is read starts where the input stood, and has at most 8     *)
(* bytes.                                                                  *)
LEMMA ReadTyped ==
  ASSUME Counts, PartsTyped, NEW p \in Parts, NEW n \in 0 .. 8, Read(p, n)
  PROVE  /\ raw' \in [Fields -> [offset : 0 .. MaxLength, size : 0 .. 8]]
         /\ ahead' = NoByte /\ raw'[p].size = n
         /\ \A q \in Fields \ {p} : raw'[q] = raw[q]
  <1>1. raw' = [raw EXCEPT ![p] = [offset |-> length, size |-> n]] /\ ahead' = NoByte
    BY DEF Read, Consume
  <1>2. [offset |-> length, size |-> n] \in [offset : 0 .. MaxLength, size : 0 .. 8]
    BY DEF Counts
  <1> QED
    BY <1>1, <1>2 DEF PartsTyped, Fields

LEMMA EscapeTyped ==
  ASSUME Meaning', Counts', PartsTyped, NEW n \in 2 .. 4, status' = "TREE",
         raw' = [raw EXCEPT !.ESCAPE = [offset |-> length - 1, size |-> n]]
  PROVE  /\ raw' \in [Fields -> [offset : 0 .. MaxLength, size : 0 .. 8]]
         /\ raw'["MODRM"] = raw["MODRM"]
  <1>1. /\ raw'["ESCAPE"] = [offset |-> length - 1, size |-> n]
        /\ raw'["MODRM"] = raw["MODRM"]
    BY DEF PartsTyped, Fields, Parts
  <1>2. raw'["ESCAPE"].offset = prefixCount'
    <2>1. PartsPlaced'
      BY DEF Meaning, Layout
    <2> QED
      BY <1>1, <2>1 DEF PartsPlaced
  <1>3. length - 1 \in 0 .. MaxLength
    BY <1>1, <1>2 DEF Counts
  <1>4. [offset |-> length - 1, size |-> n] \in [offset : 0 .. MaxLength, size : 0 .. 8]
    BY <1>3
  <1> QED
    BY <1>1, <1>4 DEF PartsTyped, Fields

(* A step that reads no part.                                              *)
LEMMA QuietParts ==
  ASSUME PartsTyped, UNCHANGED <<modrm, sib>>,
         raw' \in [Fields -> [offset : 0 .. MaxLength, size : 0 .. 8]],
         raw'["MODRM"] = raw["MODRM"], node' # "SIB_PART",
         status' = "TREE" /\ raw["MODRM"].size # 0 =>
            status = "TREE" /\ ahead' \in {ahead, NoByte}
  PROVE  PartsTyped'
  BY DEF PartsTyped, ModrmSkipped

LEMMA WalkParts ==
  ASSUME Meaning, Meaning', Counts, Counts', PartsTyped, Continues, Walk
  PROVE  PartsTyped'
  <1>1. status = "TREE" /\ status' = "TREE" /\ node' # "SIB_PART" /\ ~Failing
    BY WalkNodes DEF Continues, Meaning
  <1>2. raw \in [Fields -> [offset : 0 .. MaxLength, size : 0 .. 8]]
    BY DEF PartsTyped
  <1>3. CASE \/ Opcode3DNow \/ Rex2Node \/ MandatoryPrefix \/ OperandSize
             \/ VectorNode \/ Fallback \/ \E b \in Bytes : Opcode(b)
    <2>1. UNCHANGED <<raw, modrm, sib>> /\ ahead' \in {ahead, NoByte}
      BY <1>3 DEF Opcode3DNow, Rex2Node, MandatoryPrefix, OperandSize, VectorNode,
         Fallback, FallbackState, Opcode, Consume, input
    <2> QED
      BY <1>1, <1>2, <2>1, QuietParts
  <1>4. CASE SwitchTable
    <2>1. encoding \in Expected \cup OwnMeaning
      BY <1>4 DEF SwitchTable, Expected, Meaning, Control, NodeFitsEncoding
    <2>2. UNCHANGED <<raw, modrm, sib, ahead>>
      BY <1>4, <2>1 DEF SwitchTable, input, treeVars
    <2> QED
      BY <1>1, <1>2, <2>2, QuietParts
  <1>5. ASSUME NEW p \in Bytes, Escape(p) PROVE PartsTyped'
    <2>1. node = "ESCAPE" /\ UNCHANGED <<raw, modrm, sib>>
      BY <1>5 DEF Escape, At, treeVars
    <2>2. raw["MODRM"].size = 0
      BY <1>1, <2>1 DEF Meaning, Layout, PartsPlaced, Unread, Parts
    <2> QED
      BY <1>1, <1>2, <2>1, <2>2, QuietParts
  <1>6. ASSUME NEW w \in 0 .. 1, VectorPrefix(w) PROVE PartsTyped'
    <2>1. /\ UNCHANGED <<modrm, sib>> /\ ahead' = NoByte /\ At("VECTOR_PREFIX")
          /\ raw' = [raw EXCEPT !.ESCAPE = [offset |-> length - 1,
                                            size |-> 1 + PayloadBytes]]
      BY <1>6 DEF VectorPrefix, Consume
    <2>2. PayloadBytes \in 1 .. 3
      BY <2>1, PayloadNumber DEF Meaning
    <2>3. 1 + PayloadBytes \in 2 .. 4
      BY <2>2
    <2> QED
      BY <1>1, <2>1, <2>3, EscapeTyped, QuietParts
  <1>7. ASSUME NEW w \in 0 .. 1, NEW m0 \in 0 .. 1, Rex2(w, m0) PROVE PartsTyped'
    <2>1. /\ UNCHANGED <<modrm, sib>> /\ ahead' = NoByte
          /\ raw' = [raw EXCEPT !.ESCAPE = [offset |-> length - 1, size |-> 2]]
      BY <1>7 DEF Rex2, Consume
    <2> QED
      BY <1>1, <2>1, EscapeTyped, QuietParts
  <1>8. CASE Modrm
    <2>1. ReadModrm /\ sib' = sib
      BY <1>8 DEF Modrm
    <2>2. CASE raw.MODRM.size = 0
      <3>1. Read("MODRM", 1) /\ modrm' \in OneOf(ModrmBytes)
        BY <2>1, <2>2 DEF ReadModrm
      <3>2. modrm' \in ModrmBytes \cup Bytes
        BY <3>1 DEF OneOf, Meaning, Sized
      <3>3. /\ raw' \in [Fields -> [offset : 0 .. MaxLength, size : 0 .. 8]]
            /\ ahead' = NoByte
        BY <3>1, ReadTyped DEF Parts
      <3> QED
        BY <1>1, <2>1, <3>2, <3>3 DEF PartsTyped, ModrmSkipped
    <2>3. CASE raw.MODRM.size # 0
      <3>1. UNCHANGED <<ahead, raw, modrm, sib>>
        BY <2>1, <2>3 DEF ReadModrm
      <3> QED
        BY <1>1, <1>2, <3>1, QuietParts
    <2> QED
      BY <2>2, <2>3
  <1> QED
    BY <1>1, <1>3, <1>4, <1>5, <1>6, <1>7, <1>8 DEF Walk, Failing

LEMMA PartTyped ==
  ASSUME Meaning, Counts, PartsTyped, Part
  PROVE  PartsTyped'
  <1>1. status = "TREE" /\ status' = "TREE" /\ def' = def /\ node \in PartSteps
    BY NextParts DEF Part, AtPart
  <1>2. PartSize \in 0 .. 8
    BY PartNumber DEF Part, Meaning
  <1>3. node' = "SIB_PART" => node = "MODRM_PART"
    <2>1. PICK i \in 1 .. 5 : PartNodes[i] = node
      BY DEF Part, AtPart, PartOf, PartNodes
    <2>2. \A j \in 1 .. 5 : PartNodes[j] = node => j = i
      BY <2>1 DEF PartNodes
    <2>3. node' = PartNodes[1 + i]
      BY <2>1, <2>2 DEF Part, NextPart
    <2> QED
      BY <2>1, <2>3 DEF PartNodes
  <1>4. TheDef' = TheDef
    BY <1>1 DEF TheDef
  <1>5. CASE PartSize = 0
    <2>1. UNCHANGED <<ahead, raw, modrm, sib>>
      BY <1>5 DEF Part
    <2>2. node = "MODRM_PART" /\ TheDef.modrm => raw.MODRM.size # 0
      BY <1>5 DEF PartSize
    <2> QED
      BY <1>1, <1>3, <1>4, <2>1, <2>2 DEF PartsTyped, ModrmSkipped
  <1>6. CASE PartSize # 0
    <2>1. /\ Read(PartOf[node], PartSize)
          /\ IF node = "MODRM_PART" THEN modrm' \in OneOf(ModrmBytes) ELSE modrm' = modrm
          /\ IF node = "SIB_PART" THEN sib' \in OneOf(SibBytes) ELSE sib' = sib
      BY <1>6 DEF Part
    <2>2. PartOf[node] \in Parts /\ (node = "MODRM_PART" <=> PartOf[node] = "MODRM")
      BY <1>1 DEF PartOf, Parts
    <2>3. /\ raw' \in [Fields -> [offset : 0 .. MaxLength, size : 0 .. 8]]
          /\ ahead' = NoByte
          /\ node = "MODRM_PART" => raw'["MODRM"].size = PartSize
      BY <1>2, <2>1, <2>2, ReadTyped
    <2>4. modrm' \in ModrmBytes \cup Bytes \cup {0}
      BY <2>1 DEF OneOf, Meaning, Sized, PartsTyped
    <2>5. sib' \in SibBytes \cup {0}
      <3>1. CASE node = "SIB_PART"
        <4>1. TheDef.modrm
          BY <1>6, <3>1 DEF PartSize, HasSib, HasMemoryForm
        <4>2. ahead = NoByte
          BY <1>1, <3>1, <4>1 DEF PartsTyped, ModrmSkipped
        <4> QED
          BY <2>1, <3>1, <4>2 DEF OneOf
      <3>2. CASE node # "SIB_PART"
        BY <2>1, <3>2 DEF PartsTyped
      <3> QED
        BY <3>1, <3>2
    <2>6. ModrmSkipped'
      BY <1>3, <1>6, <2>3 DEF ModrmSkipped
    <2> QED
      BY <2>3, <2>4, <2>5, <2>6 DEF PartsTyped
  <1> QED
    BY <1>5, <1>6

LEMMA PartsTypedStep ==
  ASSUME Meaning, Meaning', Counts, Counts', PartsTyped, [Next]_vars
  PROVE  PartsTyped'
  <1>1. CASE Collect /\ IInv' /\ status = "PREFIXES"
    <2>1. UNCHANGED <<raw, modrm, sib, node>> /\ node = "OPCODE_TABLE"
      BY <1>1 DEF Collect, Meaning, Control, AtTheStart
    <2>2. raw["MODRM"].size = 0
      BY <1>1 DEF Meaning, Layout, Fields, Parts, Absent
    <2> QED
      BY <2>1, <2>2, QuietParts DEF PartsTyped
  <1>2. CASE Refused \/ Succeed
    <2>1. UNCHANGED <<raw, modrm, sib>> /\ status' # "TREE"
      BY <1>2 DEF Refused, RefusedWith, Fail, Succeed, treeVars, Errors
    <2> QED
      BY <2>1 DEF PartsTyped, ModrmSkipped
  <1>3. CASE UNCHANGED vars
    BY <1>3 DEF vars, prefixVars, treeVars, PartsTyped, ModrmSkipped, TheDef
  <1>4. CASE Continues /\ Walk
    BY <1>4, WalkParts
  <1>5. CASE Part
    BY <1>5, PartTyped
  <1>6. CASE \/ \E d \in Definitions : Definition(d) \/ ThreeDNowOpcode(d)
             \/ CheckErrorConditions
    <2>1. /\ UNCHANGED <<raw, modrm, sib>> /\ ahead' \in {ahead, NoByte}
          /\ status = "TREE" /\ node' # "SIB_PART"
      BY <1>6 DEF Definition, ThreeDNowOpcode, CheckErrorConditions, At, Consume,
         input, treeVars
    <2> QED
      BY <2>1, QuietParts DEF PartsTyped
  <1> QED
    BY <1>1, <1>2, <1>3, <1>4, <1>5, <1>6, StepKinds DEF Continues, Decode, Failing

-----------------------------------------------------------------------------
LEMMA TypedStep ==
  ASSUME Meaning, Meaning', Typed, [Next]_vars
  PROVE  Typed'
  BY CountsStep, MarksTypedStep, PlaceStep, PartsTypedStep DEF Typed

(* Every field has its type in every state of every call.                  *)
THEOREM DecoderTypes == Spec => []TypeOK
  <1>1. Meaning /\ Meaning' /\ Typed /\ [Next]_vars => Typed'
    BY TypedStep
  <1> QED
    BY <1>1, InitTyped, TypedTypes, MeaningInductive, PTL DEF Spec

=============================================================================
