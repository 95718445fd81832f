---------------------------- MODULE DecoderProofs ----------------------------
(***************************************************************************)
(* What a whole call of the decoder keeps true, proved for every set of    *)
(* definitions, every length limit and every input.                        *)
(***************************************************************************)
EXTENDS Decoder, DecoderPrefixesProofs

-----------------------------------------------------------------------------
(* Which encoding, map and opcode the walk has where it stands.            *)

Switches == {"SWITCH_TABLE_XOP", "SWITCH_TABLE_VEX", "SWITCH_TABLE_EMVEX",
             "SWITCH_TABLE_REX2"}
Heads == Switches \cup {"OPCODE_TABLE", "ESCAPE", "VECTOR_PREFIX"}
LegacyNodes == {"REX_2", "MANDATORY_PREFIX", "OPERAND_SIZE"}
PartSteps == {"MODRM_PART", "SIB_PART", "DISP_PART", "IMM0_PART", "IMM1_PART"}

EncodingKnown ==
    /\ encoding \in Encodings
    /\ encoding = "REX2" => mode = "LONG_64" /\ map \in {"DEFAULT", "0F"}
    /\ encoding = "LEGACY" => map \in {"DEFAULT", "0F", "0F38", "0F3A"}
    /\ encoding = "3DNOW" <=> map = "0F0F"

NodeFitsEncoding ==
    /\ node \in Switches => encoding \in Expected \cup OwnMeaning
    /\ node \in Switches /\ encoding \notin Expected => map = "DEFAULT"
    /\ node \in VectorNodes => encoding \in Modern
    /\ node \in LegacyNodes => encoding \in {"LEGACY", "REX2"}
    /\ temp => encoding \in {"LEGACY", "REX2"} /\ node \notin Heads
    /\ node = "ESCAPE" =>
         /\ map = "DEFAULT" /\ encoding \in {"LEGACY", "REX2"}
         /\ opcode \in {98, 143, 196, 197, 213}
         /\ opcode \in {143, 213} => encoding = "LEGACY"
         /\ opcode = 213 => mode = "LONG_64"
    /\ node = "VECTOR_PREFIX" =>
         /\ map = "DEFAULT" /\ encoding = "LEGACY"
         /\ opcode \in {98, 143, 196, 197}

AtTheStart ==
    status = "PREFIXES" =>
      node = "OPCODE_TABLE" /\ encoding = "LEGACY" /\ map = "DEFAULT"

DefinitionChosen ==
    node \in PartSteps => \E d \in Definitions : def = {d}

Control == EncodingKnown /\ NodeFitsEncoding /\ AtTheStart /\ DefinitionChosen
             /\ NeverUnreachable

USE DEF Switches, Heads, VectorNodes, LegacyNodes, PartSteps

LEMMA InitControl == Init => Control
  BY DEF Init, Control, EncodingKnown, NodeFitsEncoding, AtTheStart,
         DefinitionChosen, NeverUnreachable, InitPrefixes, Encodings

-----------------------------------------------------------------------------
(* The numbers of a call, and the input it leaves when it runs out.        *)

Fields == Parts \cup {"ESCAPE"}

Sized ==
    /\ bufferLen \in Nat /\ length \in Nat /\ prefixCount \in Nat
    /\ ahead \in Bytes \cup {NoByte} /\ rex \in Bytes \cup {0}
    /\ modrm \in 0 .. 255
    /\ vectorW \in 0 .. 1 /\ eosz \in 0 .. 2 /\ easz \in 0 .. 2
    /\ raw \in [Fields -> [offset : Int, size : Nat]]

sizedVars == <<bufferLen, length, prefixCount, ahead, rex, modrm, vectorW, eosz,
               easz, raw>>

LEMMA InitSized == Init => Sized
  <1> SUFFICES ASSUME Init PROVE Sized
    OBVIOUS
  <1>1. Absent \in [offset : Int, size : Nat]
    BY DEF Absent
  <1>2. raw \in [Fields -> [offset : Int, size : Nat]]
    BY <1>1 DEF Init, Fields
  <1> QED
    BY <1>2, InputAssumption DEF Init, InitPrefixes, InputAssumption, Sized

LEMMA ConsumeSized ==
  ASSUME Sized, NEW n \in Nat, Consume(n)
  PROVE  /\ bufferLen' \in Nat /\ length' \in Nat /\ length' = length + n
         /\ ahead' \in Bytes \cup {NoByte}
  BY DEF Sized, Consume, Available

LEMMA ReadSized ==
  ASSUME Sized, NEW p \in Parts, NEW n \in Nat, Read(p, n)
  PROVE  /\ bufferLen' \in Nat /\ length' \in Nat /\ length' = length + n
         /\ ahead' \in Bytes \cup {NoByte}
         /\ raw' \in [Fields -> [offset : Int, size : Nat]]
         /\ raw'[p] = [offset |-> length, size |-> n]
         /\ \A q \in Fields \ {p} : raw'[q] = raw[q]
  <1>1. Consume(n) /\ raw' = [raw EXCEPT ![p] = [offset |-> length, size |-> n]]
    BY DEF Read
  <1>2. p \in Fields
    BY DEF Fields
  <1> QED
    BY <1>1, <1>2, ConsumeSized DEF Sized

(* The sizes a definition and the ModRM byte ask for are numbers.          *)
LEMMA PayloadNumber ==
  ASSUME Control, At("VECTOR_PREFIX")
  PROVE  PayloadBytes \in 1 .. 3
  <1>1. opcode \in {98, 143, 196, 197}
    BY DEF At, Control, NodeFitsEncoding
  <1> QED
    BY <1>1 DEF PayloadBytes

LEMMA PartNumber ==
  ASSUME Control, Sized, AtPart
  PROVE  PartSize \in 0 .. 8
  <1>1. node \in PartSteps
    BY DEF AtPart, PartOf
  <1>2. PICK d \in Definitions : def = {d}
    BY <1>1 DEF Control, DefinitionChosen
  <1>3. TheDef = d
    BY <1>2 DEF TheDef
  <1>4. IsDefinition(d)
    BY DefinitionAssumption DEF DefinitionAssumption
  <1>5. \A s \in {d.disp, d.imm0, d.imm1} : \A i \in 1 .. 3 :
          s[i] \in {0, 8, 16, 32, 64}
    BY <1>4 DEF IsDefinition
  <1>6. ModrmDisplacement \in {0, 8, 16, 32}
    <2>1. Mod(modrm) \in 0 .. 3
      BY DEF Mod, Sized
    <2> QED
      BY <2>1 DEF ModrmDisplacement
  <1>7. eosz + 1 \in 1 .. 3 /\ easz + 1 \in 1 .. 3
    BY DEF Sized
  <1>8. /\ d.disp[easz + 1] \in {0, 8, 16, 32, 64}
        /\ d.imm0[eosz + 1] \in {0, 8, 16, 32, 64}
        /\ d.imm1[eosz + 1] \in {0, 8, 16, 32, 64}
    BY <1>5, <1>7
  <1>9. \A n \in {0, 8, 16, 32, 64} : n \div 8 \in 0 .. 8
    OBVIOUS
  <1>10. CASE node = "MODRM_PART"
    BY <1>10 DEF PartSize
  <1>11. CASE node = "SIB_PART"
    BY <1>11 DEF PartSize
  <1>12. CASE node = "DISP_PART"
    BY <1>3, <1>6, <1>8, <1>9, <1>12 DEF PartSize
  <1>13. CASE node = "IMM0_PART"
    BY <1>3, <1>8, <1>9, <1>13 DEF PartSize
  <1>14. CASE node = "IMM1_PART"
    BY <1>3, <1>8, <1>9, <1>14 DEF PartSize
  <1> QED
    BY <1>1, <1>10, <1>11, <1>12, <1>13, <1>14

LEMMA WidthIndex ==
  ASSUME Sized, NEW d \in Definitions, NEW override \in BOOLEAN
  PROVE  /\ OperandWidth(d, override) \div 32 \in 0 .. 2
         /\ AddressWidth(d) \div 32 \in 0 .. 2
  <1>1. d.operand_size_map \in 0 .. 7 /\ d.address_size_map \in 0 .. 2
    BY DefinitionAssumption DEF DefinitionAssumption, IsDefinition
  <1>2. /\ Column(override) \in 0 .. 5
        /\ Column("HAS_ADDRESSSIZE" \in attributes) \in 0 .. 5
        /\ mode = "LONG_64" => Column(override) \in 4 .. 5
    BY DEF Column, ModeColumn
  <1>3. 1 + Column(override) + (IF mode = "LONG_64" THEN 2 * vectorW ELSE 0) \in 1 .. 8
    BY <1>2 DEF Sized
  <1>4. \A m \in 1 .. 8 : \A c \in 1 .. 8 : OperandSizeMap[m][c] \in {16, 32, 64}
    BY DEF OperandSizeMap
  <1>5. \A m \in 1 .. 3 : \A c \in 1 .. 6 : AddressSizeMap[m][c] \in {16, 32, 64}
    BY DEF AddressSizeMap
  <1>6. OperandWidth(d, override) \in {16, 32, 64}
    BY <1>1, <1>3, <1>4 DEF OperandWidth
  <1>7. AddressWidth(d) \in {16, 32, 64}
    BY <1>1, <1>2, <1>5 DEF AddressWidth
  <1> QED
    BY <1>6, <1>7


-----------------------------------------------------------------------------
(* The steps that end a call with an error.                                *)

Failing ==
    \/ OpcodeFails \/ EscapeFails \/ VectorPrefixFails \/ Rex2Fails
    \/ ModrmFails \/ VectorNodeFails \/ NoEntry \/ PartFails
    \/ CheckFails \/ ThreeDNowFails

RefusedWith(s) ==
    /\ s \in Errors \ {"UNREACHABLE"} /\ Fail(s)
    /\ s = "NO_MORE_DATA" => bufferLen + length < MaxLength

Refused == \E s : RefusedWith(s)

LEMMA InputRefused ==
  ASSUME Sized, NEW n \in Nat, InputFails(n)
  PROVE  Refused
  <1> DEFINE s == IF length + n > MaxLength THEN "INSTRUCTION_TOO_LONG"
                                            ELSE "NO_MORE_DATA"
  <1>1. Fail(s) /\ s \in Errors \ {"UNREACHABLE"}
    BY DEF InputFails, Errors
  <1>2. s = "NO_MORE_DATA" => bufferLen + length < MaxLength
    BY LengthAssumption DEF LengthAssumption, InputFails, Available, Sized
  <1> QED
    BY <1>1, <1>2 DEF Refused, RefusedWith

LEMMA ErrorRefused ==
  ASSUME NEW s \in Errors \ {"UNREACHABLE", "NO_MORE_DATA"}, Fail(s)
  PROVE  Refused
  BY DEF Refused, RefusedWith

LEMMA FailingRefused ==
  ASSUME Control, Sized, Failing
  PROVE  Refused
  <1>1. CASE OpcodeFails
    <2>1. ASSUME NEW b \in NextByte, OpcodeError(b) # "NONE", Fail(OpcodeError(b))
          PROVE  Refused
      <3>1. OpcodeError(b) \in {"ILLEGAL_REX2", "DECODING_ERROR", "ILLEGAL_LOCK"}
        BY <2>1 DEF OpcodeError
      <3> QED
        BY <2>1, <3>1, ErrorRefused DEF Errors
    <2> QED
      BY <1>1, <2>1, InputRefused DEF OpcodeFails
  <1>2. CASE EscapeFails
    <2>1. ASSUME EscapeError # "NONE", Fail(EscapeError) PROVE Refused
      <3>1. EscapeError \in {"ILLEGAL_REX", "ILLEGAL_REX2", "ILLEGAL_LOCK",
                             "ILLEGAL_LEGACY_PFX"}
        BY <2>1 DEF EscapeError
      <3> QED
        BY <2>1, <3>1, ErrorRefused DEF Errors
    <2> QED
      BY <1>2, <2>1, InputRefused DEF EscapeFails
  <1>3. CASE VectorPrefixFails
    <2>1. ASSUME NEW e \in PayloadErrors(ahead), Fail(e) PROVE Refused
      <3>1. /\ status = "TREE" /\ node = "VECTOR_PREFIX"
        BY <1>3 DEF VectorPrefixFails, At
      <3>2. opcode \in {98, 143, 196, 197}
        BY <3>1 DEF Control, NodeFitsEncoding
      <3>3. PrefixEncoding \in Modern
        BY <3>2 DEF PrefixEncoding, Modern
      <3>4. BitErrors[PrefixEncoding] \subseteq
              {"MALFORMED_EVEX", "INVALID_MASK", "MALFORMED_MVEX"}
        BY <3>3 DEF BitErrors, Modern
      <3>5. e \in {"DECODING_ERROR", "INVALID_MAP", "MALFORMED_EVEX",
                   "INVALID_MASK", "MALFORMED_MVEX"}
        BY <2>1, <3>4 DEF PayloadErrors
      <3> QED
        BY <2>1, <3>5, ErrorRefused DEF Errors
    <2>2. PayloadBytes \in Nat
      BY <1>3, PayloadNumber DEF VectorPrefixFails
    <2> QED
      BY <1>3, <2>1, <2>2, InputRefused DEF VectorPrefixFails
  <1>4. CASE Rex2Fails
    BY <1>4, ErrorRefused, InputRefused DEF Rex2Fails, Errors
  <1>5. CASE ModrmFails
    BY <1>5, InputRefused DEF ModrmFails
  <1>6. CASE VectorNodeFails
    <2>1. encoding \in Modern
      BY <1>6 DEF VectorNodeFails, Control, NodeFitsEncoding
    <2> QED
      BY <1>6, <2>1, ErrorRefused DEF VectorNodeFails, Errors
  <1>7. CASE NoEntry
    BY <1>7, ErrorRefused DEF NoEntry, Errors
  <1>8. CASE PartFails
    <2>1. PartSize \in Nat
      BY <1>8, PartNumber DEF PartFails
    <2> QED
      BY <1>8, <2>1, InputRefused DEF PartFails
  <1>9. CASE CheckFails
    <2>1. PrefixError \in {"NONE", "DECODING_ERROR", "ILLEGAL_LOCK"}
      BY DEF PrefixError
    <2>2. OperandErrors \subseteq {"BAD_REGISTER", "INVALID_MASK", "DECODING_ERROR"}
      BY DEF OperandErrors
    <2> QED
      BY <1>9, <2>1, <2>2, ErrorRefused DEF CheckFails, Errors
  <1>10. CASE ThreeDNowFails
    BY <1>10, ErrorRefused, InputRefused DEF ThreeDNowFails, Errors
  <1> QED
    BY <1>1, <1>2, <1>3, <1>4, <1>5, <1>6, <1>7, <1>8, <1>9, <1>10 DEF Failing

LEMMA RefusedControl == Control /\ Refused => Control'
  <1> SUFFICES ASSUME Control, Refused PROVE Control'
    OBVIOUS
  <1>1. PICK s : RefusedWith(s)
    BY DEF Refused
  <1>2. /\ status' \notin {"PREFIXES", "UNREACHABLE"}
        /\ UNCHANGED <<mode, node, temp, encoding, map, opcode, def>>
    BY <1>1 DEF RefusedWith, Errors, Fail, treeVars
  <1> QED
    BY <1>2 DEF Control, EncodingKnown, NodeFitsEncoding, AtTheStart,
       DefinitionChosen, NeverUnreachable, Expected, OwnMeaning

LEMMA RefusedSized == Sized /\ Refused => Sized'
  BY DEF Sized, Refused, RefusedWith, Fail, treeVars

-----------------------------------------------------------------------------
(* A step of the prefix loop fails, takes a prefix or finds the opcode.    *)
PrefixFails ==
    /\ UNCHANGED <<mode, bufferLen, ahead, length, prefixCount, rex>>
    /\ status = "PREFIXES"
    /\ \/ status' = "INSTRUCTION_TOO_LONG"
       \/ status' = "NO_MORE_DATA" /\ bufferLen = 0 /\ length < MaxLength

PrefixTaken ==
    /\ mode' = mode /\ status = "PREFIXES"
    /\ bufferLen > 0 /\ bufferLen' = bufferLen - 1
    /\ length' = length + 1 /\ prefixCount' = prefixCount + 1
    /\ ahead' = ahead /\ rex' \in Bytes \cup {0}
    /\ status' = "PREFIXES"

OpcodeFound ==
    /\ UNCHANGED <<mode, bufferLen, length, prefixCount, rex>>
    /\ ahead' \in Bytes /\ status = "PREFIXES" /\ status' = "TREE"

LEMMA CollectCases ==
  ASSUME CollectOptionalPrefixes
  PROVE  PrefixFails \/ PrefixTaken \/ OpcodeFound
  <1>1. CASE PeekTooLong \/ PeekNoMoreData
    BY <1>1 DEF PeekTooLong, PeekNoMoreData, PrefixFails
  <1>2. ASSUME NEW b \in Bytes, PeekSucceeds, Record(b), rex' \in Bytes \cup {0}
        PROVE  PrefixTaken
    BY <1>2 DEF PeekSucceeds, Record, PrefixTaken
  <1>3. InvalidateRex => rex' \in Bytes \cup {0}
    BY DEF InvalidateRex
  <1>4. CASE CollectLock \/ CollectOperandSize \/ CollectAddressSize
    BY <1>2, <1>3, <1>4 DEF CollectLock, CollectOperandSize, CollectAddressSize
  <1>5. ASSUME NEW b \in Bytes,
               CollectGroup1(b) \/ CollectOldSegment64(b) \/ CollectSegment(b)
        PROVE  PrefixTaken
    BY <1>2, <1>3, <1>5 DEF CollectGroup1, CollectOldSegment64, CollectSegment
  <1>6. ASSUME NEW b \in Bytes, CollectRex(b) PROVE PrefixTaken
    BY <1>2, <1>6 DEF CollectRex
  <1>7. ASSUME NEW b \in Bytes, CollectDone(b) PROVE OpcodeFound
    BY <1>7 DEF CollectDone, PeekSucceeds, OpcodeFound
  <1> QED
    BY <1>1, <1>4, <1>5, <1>6, <1>7 DEF CollectOptionalPrefixes

(* The nodes below one of a tree, which are never at the head of one.      *)
LEMMA BelowLegacyNodes ==
  ASSUME Control, NEW n \in {"OPCODE_TABLE", "MODRM"} \cup LegacyNodes \cup VectorNodes,
         Descend(n), n \in LegacyNodes => encoding \in {"LEGACY", "REX2"},
         n \in VectorNodes => encoding \in Modern
  PROVE  /\ node' \in {"MODRM", "DEFINITION", "EMPTY"} \cup LegacyNodes \cup VectorNodes
         /\ node' \in VectorNodes => encoding \in Modern
         /\ node' \in LegacyNodes => encoding \in {"LEGACY", "REX2"}
  <1>1. node' \in Below(n)
    BY DEF Descend
  <1>2. CASE encoding = "3DNOW"
    BY <1>1, <1>2 DEF Below, Modern
  <1>3. CASE encoding \in Modern
    <2>1. n \in DOMAIN BelowModern
      BY <1>3 DEF BelowModern, Modern
    <2>2. BelowModern[n] \subseteq {"MODRM"} \cup VectorNodes
      BY <2>1 DEF BelowModern
    <2> QED
      BY <1>1, <1>3, <2>2 DEF Below, Modern
  <1>4. CASE encoding \in {"LEGACY", "REX2"}
    <2>1. n \in DOMAIN BelowLegacy
      BY <1>4 DEF BelowLegacy, Modern
    <2>2. BelowLegacy[n] \subseteq {"MODRM"} \cup LegacyNodes
      BY <2>1 DEF BelowLegacy
    <2> QED
      BY <1>1, <1>4, <2>2 DEF Below, Modern
  <1> QED
    BY <1>2, <1>3, <1>4 DEF Control, EncodingKnown, Encodings

(* What an opcode byte leads to: a prefix to look at, another map, the      *)
(* switch of an encoding or a node of the tree.                            *)
EscapeFound ==
    /\ node' = "ESCAPE" /\ map = "DEFAULT" /\ encoding \in {"LEGACY", "REX2"}
    /\ opcode' \in {98, 143, 196, 197, 213}
    /\ opcode' \in {143, 213} => encoding = "LEGACY"
    /\ opcode' = 213 => mode = "LONG_64"
    /\ UNCHANGED <<encoding, map>>

MapFound ==
    /\ node' = "OPCODE_TABLE" /\ encoding = "LEGACY"
    /\ \/ map = "DEFAULT" /\ map' = "0F"
       \/ map = "0F" /\ map' \in {"0F0F", "0F38", "0F3A"}
    /\ encoding' = IF map' = "0F0F" THEN "3DNOW" ELSE "LEGACY"

SwitchFound ==
    /\ node' \in Switches /\ map = "DEFAULT" /\ encoding \in OwnMeaning'
    /\ UNCHANGED <<encoding, map>>

EntryFound ==
    /\ node' \in {"MODRM", "DEFINITION", "EMPTY"} \cup LegacyNodes
                   \cup VectorNodes
    /\ node' \in VectorNodes => encoding \in Modern
    /\ node' \in LegacyNodes => encoding \in {"LEGACY", "REX2"}
    /\ UNCHANGED <<encoding, map>>

LEMMA OpcodeCases ==
  ASSUME Control, NEW b \in Bytes, Opcode(b)
  PROVE  EscapeFound \/ MapFound \/ SwitchFound \/ EntryFound
  <1>1. /\ node = "OPCODE_TABLE" /\ encoding # "3DNOW"
        /\ OpcodeError(b) = "NONE" /\ opcode' = b /\ map' = MapAfter(b)
        /\ encoding' = IF map' = "0F0F" THEN "3DNOW" ELSE encoding
    BY DEF Opcode, At, Control, NodeFitsEncoding
  <1>2. CASE IsEscape(b)
    <2>1. /\ node' = "ESCAPE" /\ b \in {98, 143, 196, 197, 213}
          /\ encoding \in {"LEGACY", "REX2"} /\ map = "DEFAULT"
          /\ b = 143 => encoding = "LEGACY"
          /\ b = 213 => mode = "LONG_64"
      BY <1>1, <1>2
      DEF IsEscape, Opcode, Control, EncodingKnown, Encodings, Modern
    <2>2. b = 213 => encoding = "LEGACY"
      BY <1>1, <2>1 DEF OpcodeError
    <2>3. map' = "DEFAULT" /\ encoding' = encoding
      BY <1>1, <2>1 DEF MapAfter
    <2> QED
      BY <1>1, <2>1, <2>2, <2>3 DEF EscapeFound
  <1>3. CASE ~IsEscape(b) /\ map' # map
    <2>1. node' = "OPCODE_TABLE"
      BY <1>3 DEF Opcode
    <2> QED
      BY <1>1, <1>3, <2>1 DEF MapAfter, MapFound
  <1>4. CASE ~IsEscape(b) /\ map' = map
    <2>1. encoding' = encoding /\ EnterOpcode(b)
      BY <1>1, <1>4 DEF Opcode, Control, EncodingKnown
    <2>2. CASE encoding \notin Modern /\ map = "DEFAULT" /\ SwitchOf(b) # "NONE"
      <3>1. encoding \in {"LEGACY", "REX2"}
        BY <1>1, <2>2 DEF Control, EncodingKnown, Encodings
      <3>2. node' = SwitchOf(b)
        BY <2>1, <2>2 DEF EnterOpcode
      <3>3. b \in {143, 213} /\ (b = 213 => encoding = "LEGACY")
        BY <1>1, <1>4, <2>2, <3>1 DEF IsEscape, OpcodeError, SwitchOf
      <3>4. /\ b = 143 => node' = "SWITCH_TABLE_XOP"
            /\ b = 213 => node' = "SWITCH_TABLE_REX2"
        BY <3>2 DEF SwitchOf
      <3> QED
        BY <1>4, <2>1, <2>2, <3>1, <3>3, <3>4 DEF OwnMeaning, SwitchFound
    <2>3. CASE ~(encoding \notin Modern /\ map = "DEFAULT" /\ SwitchOf(b) # "NONE")
      <3>1. Descend("OPCODE_TABLE")
        BY <2>1, <2>3 DEF EnterOpcode
      <3> QED
        BY <1>4, <2>1, <3>1, BelowLegacyNodes DEF EntryFound
    <2> QED
      BY <2>2, <2>3
  <1> QED
    BY <1>2, <1>3, <1>4

LEMMA OpcodeControl ==
  ASSUME Control, NEW b \in Bytes, Opcode(b)
  PROVE  Control'
  <1>1. /\ status = "TREE" /\ node = "OPCODE_TABLE"
        /\ UNCHANGED <<mode, status, temp>> /\ ~temp
    BY DEF Opcode, At, prefixFacts, Control, NodeFitsEncoding
  <1>2. EscapeFound \/ MapFound \/ SwitchFound \/ EntryFound
    BY OpcodeCases
  <1>3. EncodingKnown'
    BY <1>1, <1>2 DEF EscapeFound, MapFound, SwitchFound, EntryFound, Control,
       EncodingKnown, Encodings
  <1>4. NodeFitsEncoding'
    BY <1>1, <1>2 DEF EscapeFound, MapFound, SwitchFound, EntryFound,
       NodeFitsEncoding
  <1>5. node' \notin PartSteps
    BY <1>2 DEF EscapeFound, MapFound, SwitchFound, EntryFound
  <1> QED
    BY <1>1, <1>3, <1>4, <1>5
    DEF Control, AtTheStart, DefinitionChosen, NeverUnreachable

(* A step below the heads of the trees, which leaves encoding and map alone. *)
LEMMA BelowControl ==
  ASSUME Control, status' \notin {"PREFIXES", "UNREACHABLE"},
         UNCHANGED <<mode, encoding, map>>,
         temp' => encoding \in {"LEGACY", "REX2"},
         node' \notin Heads,
         node' \in VectorNodes => encoding \in Modern,
         node' \in LegacyNodes => encoding \in {"LEGACY", "REX2"},
         node' \in PartSteps => \E d \in Definitions : def' = {d}
  PROVE  Control'
  <1>1. EncodingKnown'
    BY DEF Control, EncodingKnown
  <1>2. NodeFitsEncoding'
    BY DEF NodeFitsEncoding
  <1> QED
    BY <1>1, <1>2 DEF Control, AtTheStart, DefinitionChosen, NeverUnreachable

LEMMA Opcode3DNowControl == Control /\ Opcode3DNow => Control'
  <1> SUFFICES ASSUME Control, Opcode3DNow PROVE Control'
    OBVIOUS
  <1>1. /\ status = "TREE" /\ node = "OPCODE_TABLE" /\ node' = "MODRM"
        /\ UNCHANGED <<mode, encoding, map, status, temp>>
    BY DEF Opcode3DNow, At, prefixFacts
  <1>2. ~temp
    BY <1>1 DEF Control, NodeFitsEncoding
  <1> QED
    BY <1>1, <1>2, BelowControl

LEMMA EscapeControl ==
  ASSUME Control, NEW p \in Bytes, Escape(p)
  PROVE  Control'
  <1>1. /\ status = "TREE" /\ node = "ESCAPE" /\ opcode # 213
        /\ UNCHANGED <<mode, encoding, map, opcode, temp, status>>
        /\ node' = IF IsPayload(p) THEN "VECTOR_PREFIX" ELSE SwitchOf(opcode)
        /\ IsPayload(p) => EscapeError = "NONE"
    BY DEF Escape, At, prefixFacts, treeVars
  <1>2. /\ map = "DEFAULT" /\ encoding \in {"LEGACY", "REX2"} /\ ~temp
        /\ opcode \in {98, 143, 196, 197} /\ EncodingKnown
        /\ opcode = 143 => encoding = "LEGACY"
    BY <1>1 DEF Control, NodeFitsEncoding
  <1>3. EncodingKnown'
    BY <1>1, <1>2 DEF EncodingKnown
  <1>4. CASE IsPayload(p)
    <2>1. encoding = "LEGACY"
      BY <1>1, <1>2, <1>4 DEF EscapeError
    <2>2. node' = "VECTOR_PREFIX"
      BY <1>1, <1>4
    <2> QED
      BY <1>1, <1>2, <1>3, <2>1, <2>2
      DEF Control, NodeFitsEncoding, AtTheStart, DefinitionChosen,
          NeverUnreachable
  <1>5. CASE ~IsPayload(p)
    <2>1. encoding = "LEGACY"
      BY <1>1, <1>2, <1>5 DEF IsPayload, EncodingKnown
    <2>2. node' = SwitchOf(opcode)
      BY <1>1, <1>5
    <2>3. node' \in Switches
      BY <1>2, <2>2 DEF SwitchOf
    <2> QED
      BY <1>1, <1>2, <1>3, <2>1, <2>3
      DEF Control, NodeFitsEncoding, AtTheStart, DefinitionChosen,
          NeverUnreachable, OwnMeaning
  <1> QED
    BY <1>4, <1>5

LEMMA VectorPrefixControl ==
  ASSUME Control, NEW w \in 0 .. 1, VectorPrefix(w)
  PROVE  Control'
  <1>1. /\ status = "TREE" /\ node = "VECTOR_PREFIX"
        /\ UNCHANGED <<mode, opcode, temp, status>>
        /\ node' = SwitchOf(opcode) /\ encoding' = PrefixEncoding
        /\ map' = MapNames[MapNumber(ahead) + 1] /\ MapNumber(ahead) \in ValidMaps
    BY DEF VectorPrefix, At, prefixFacts, MapValid
  <1>2. opcode \in {98, 143, 196, 197} /\ ~temp
    BY <1>1 DEF Control, NodeFitsEncoding
  <1>3. /\ encoding' \in Modern
        /\ opcode = 98 => encoding' \in {"EVEX", "MVEX"}
        /\ opcode = 143 => encoding' = "XOP"
        /\ opcode \in {196, 197} => encoding' = "VEX"
    BY <1>1, <1>2 DEF PrefixEncoding, Modern
  <1>4. /\ node' \in Switches
        /\ opcode = 98 => node' = "SWITCH_TABLE_EMVEX"
        /\ opcode = 143 => node' = "SWITCH_TABLE_XOP"
        /\ opcode \in {196, 197} => node' = "SWITCH_TABLE_VEX"
    BY <1>1, <1>2 DEF SwitchOf
  <1>5. encoding' \in Expected'
    BY <1>2, <1>3, <1>4 DEF Expected
  <1>6. map' # "0F0F"
    <2>1. MapNumber(ahead) \in 0 .. 10
      BY <1>1 DEF ValidMaps
    <2>2. MapNumber(ahead) + 1 \in 1 .. 11
      BY <2>1
    <2>3. \A i \in 1 .. 11 : MapNames[i] # "0F0F"
      BY DEF MapNames
    <2> QED
      BY <1>1, <2>2, <2>3
  <1>7. EncodingKnown'
    BY <1>3, <1>6 DEF EncodingKnown, Encodings, Modern
  <1> QED
    BY <1>1, <1>2, <1>4, <1>5, <1>7
    DEF Control, NodeFitsEncoding, AtTheStart, DefinitionChosen,
        NeverUnreachable

LEMMA Rex2Control ==
  ASSUME Control, NEW w \in 0 .. 1, NEW m0 \in 0 .. 1, Rex2(w, m0)
  PROVE  Control'
  <1>1. /\ status = "TREE" /\ node = "ESCAPE" /\ opcode = 213
        /\ UNCHANGED <<mode, opcode, temp, status>>
        /\ node' = "SWITCH_TABLE_REX2" /\ encoding' = "REX2"
        /\ map' = MapNames[m0 + 1]
    BY DEF Rex2, At, prefixFacts
  <1>2. mode = "LONG_64" /\ ~temp
    BY <1>1 DEF Control, NodeFitsEncoding
  <1>3. map' \in {"DEFAULT", "0F"}
    <2>1. m0 = 0 \/ m0 = 1
      OBVIOUS
    <2> QED
      BY <1>1, <2>1 DEF MapNames
  <1>4. EncodingKnown'
    BY <1>1, <1>2, <1>3 DEF EncodingKnown, Encodings
  <1> QED
    BY <1>1, <1>2, <1>4
    DEF Control, NodeFitsEncoding, AtTheStart, DefinitionChosen,
        NeverUnreachable, Expected

LEMMA SwitchTableControl == Control /\ SwitchTable => Control'
  <1> SUFFICES ASSUME Control, SwitchTable PROVE Control'
    OBVIOUS
  <1>1. status = "TREE" /\ node \in Switches
    BY DEF SwitchTable, Expected
  <1>2. encoding \in Expected \cup OwnMeaning /\ ~temp
    BY <1>1 DEF Control, NodeFitsEncoding
  <1>3. /\ UNCHANGED <<mode, encoding, map, opcode, temp, status>>
        /\ node' \in {"OPCODE_TABLE", "MODRM", "DEFINITION", "EMPTY"}
    BY <1>2 DEF SwitchTable, prefixFacts, treeVars
  <1>4. EncodingKnown'
    BY <1>3 DEF Control, EncodingKnown
  <1>5. NodeFitsEncoding'
    BY <1>2, <1>3 DEF NodeFitsEncoding
  <1> QED
    BY <1>1, <1>3, <1>4, <1>5
    DEF Control, AtTheStart, DefinitionChosen, NeverUnreachable

(* The nodes of a tree: every handler goes down by Descend.                *)
LEMMA DescendControl ==
  ASSUME Control, NEW n \in {"MODRM"} \cup LegacyNodes \cup VectorNodes,
         At(n), Descend(n), UNCHANGED <<mode, encoding, map, status>>,
         temp' => temp \/ n \in LegacyNodes
  PROVE  Control'
  <1>1. status = "TREE" /\ node = n
    BY DEF At
  <1>2. /\ n \in LegacyNodes => encoding \in {"LEGACY", "REX2"}
        /\ n \in VectorNodes => encoding \in Modern
        /\ temp => encoding \in {"LEGACY", "REX2"}
    BY <1>1 DEF Control, NodeFitsEncoding
  <1>3. /\ node' \in {"MODRM", "DEFINITION", "EMPTY"} \cup LegacyNodes \cup VectorNodes
        /\ node' \in VectorNodes => encoding \in Modern
        /\ node' \in LegacyNodes => encoding \in {"LEGACY", "REX2"}
    BY <1>2, BelowLegacyNodes
  <1>4. node' \notin Heads \cup PartSteps
    BY <1>3
  <1> QED
    BY <1>1, <1>2, <1>3, <1>4, BelowControl

LEMMA TreeNodeControl ==
  ASSUME Control, Rex2Node \/ Modrm \/ MandatoryPrefix \/ OperandSize \/ VectorNode
  PROVE  Control'
  <1>1. CASE Rex2Node
    BY <1>1, DescendControl DEF Rex2Node, prefixFacts
  <1>2. CASE Modrm
    BY <1>2, DescendControl DEF Modrm, prefixFacts
  <1>3. CASE MandatoryPrefix
    BY <1>3, DescendControl DEF MandatoryPrefix, prefixFacts
  <1>4. CASE OperandSize
    BY <1>4, DescendControl DEF OperandSize, prefixFacts
  <1>5. CASE VectorNode
    BY <1>5, DescendControl DEF VectorNode, At, prefixFacts
  <1> QED
    BY <1>1, <1>2, <1>3, <1>4, <1>5

LEMMA FallbackControl == Control /\ Fallback => Control'
  <1> SUFFICES ASSUME Control, Fallback PROVE Control'
    OBVIOUS
  <1>1. /\ status = "TREE" /\ temp /\ ~temp'
        /\ UNCHANGED <<mode, encoding, map, status>>
        /\ node' \in {"DEFINITION", "EMPTY"} \cup BelowLegacy.MANDATORY_PREFIX
    BY DEF Fallback, FallbackState, At, prefixFacts
  <1>2. encoding \in {"LEGACY", "REX2"}
    BY <1>1 DEF Control, NodeFitsEncoding
  <1>3. node' \in {"DEFINITION", "EMPTY", "MODRM", "OPERAND_SIZE"}
    BY <1>1 DEF BelowLegacy
  <1> QED
    BY <1>1, <1>2, <1>3, BelowControl

(* The steps of the definition case.                                       *)
LEMMA DefinitionCaseControl ==
  ASSUME Control, \/ \E d \in Definitions : Definition(d) \/ ThreeDNowOpcode(d)
                  \/ Part \/ CheckErrorConditions \/ Succeed
  PROVE  Control'
  <1>1. ASSUME NEW d \in Definitions, Definition(d) PROVE Control'
    <2>1. /\ status' = "TREE" /\ node = "DEFINITION" /\ node' = "MODRM_PART"
          /\ UNCHANGED <<mode, encoding, map, temp>> /\ def' = {d}
      BY <1>1 DEF Definition, At, prefixFacts
    <2> QED
      BY <2>1, BelowControl DEF Control, NodeFitsEncoding
  <1>2. ASSUME NEW d \in Definitions, ThreeDNowOpcode(d) PROVE Control'
    <2>1. /\ status' = "TREE" /\ node' = "ATTRIBUTES"
          /\ UNCHANGED <<mode, encoding, map, temp>>
      BY <1>2 DEF ThreeDNowOpcode, At, prefixFacts
    <2> QED
      BY <2>1, BelowControl DEF Control, NodeFitsEncoding
  <1>3. CASE Part
    <2>1. /\ status' = "TREE" /\ UNCHANGED <<mode, encoding, map, temp, def>>
          /\ node' = NextPart /\ node \in DOMAIN PartOf
      BY <1>3 DEF Part, AtPart, prefixFacts
    <2>2. /\ \E i \in 1 .. 5 : PartNodes[i] = node
          /\ \E d \in Definitions : def = {d}
      BY <2>1 DEF PartOf, PartNodes, Control, DefinitionChosen
    <2>3. node' \in {"SIB_PART", "DISP_PART", "IMM0_PART", "IMM1_PART", "CHECK"}
      BY <2>1, <2>2 DEF NextPart, PartNodes
    <2> QED
      BY <2>1, <2>2, <2>3, BelowControl DEF Control, NodeFitsEncoding
  <1>4. CASE CheckErrorConditions
    <2>1. /\ status' = "TREE" /\ node' \in {"3DNOW_OPCODE", "ATTRIBUTES"}
          /\ UNCHANGED <<mode, encoding, map, temp>>
      BY <1>4 DEF CheckErrorConditions, At, prefixFacts, treeVars
    <2> QED
      BY <2>1, BelowControl DEF Control, NodeFitsEncoding
  <1>5. CASE Succeed
    <2>1. /\ status' = "SUCCESS" /\ node = "ATTRIBUTES" /\ node' = node
          /\ UNCHANGED <<mode, encoding, map, temp>>
      BY <1>5 DEF Succeed, At, prefixFacts, treeVars
    <2> QED
      BY <2>1, BelowControl DEF Control, NodeFitsEncoding
  <1> QED
    BY <1>1, <1>2, <1>3, <1>4, <1>5

LEMMA CollectControl == Control /\ Collect => Control'
  <1> SUFFICES ASSUME Control, Collect PROVE Control'
    OBVIOUS
  <1>1. /\ status = "PREFIXES"
        /\ status' \in {"PREFIXES", "TREE", "NO_MORE_DATA", "INSTRUCTION_TOO_LONG"}
        /\ UNCHANGED <<mode, node, encoding, map, temp>>
    BY CollectCases DEF Collect, PrefixFails, PrefixTaken, OpcodeFound
  <1>2. /\ node' = "OPCODE_TABLE" /\ encoding' = "LEGACY" /\ map' = "DEFAULT"
    BY <1>1 DEF Control, AtTheStart
  <1> QED
    BY <1>1, <1>2
    DEF Control, EncodingKnown, NodeFitsEncoding, AtTheStart, DefinitionChosen,
        NeverUnreachable

LEMMA ControlStep ==
  ASSUME Control, Sized, [Next]_vars
  PROVE  Control'
  <1>1. CASE Collect
    BY <1>1, CollectControl
  <1>2. CASE Failing
    BY <1>2, FailingRefused, RefusedControl
  <1>3. CASE Walk /\ ~Failing
    BY <1>3, OpcodeControl, Opcode3DNowControl, EscapeControl,
       VectorPrefixControl, Rex2Control, SwitchTableControl, TreeNodeControl,
       FallbackControl
    DEF Walk, Failing
  <1>4. CASE Decode /\ ~Failing
    BY <1>4, DefinitionCaseControl DEF Decode, Failing
  <1>5. CASE UNCHANGED vars
    BY <1>5 DEF vars, prefixVars, treeVars, Control, EncodingKnown, Expected,
       NodeFitsEncoding, AtTheStart, DefinitionChosen, NeverUnreachable,
       OwnMeaning
  <1> QED
    BY <1>1, <1>2, <1>3, <1>4, <1>5 DEF Next

-----------------------------------------------------------------------------
LEMMA CollectSized == Sized /\ Collect => Sized'
  <1> SUFFICES ASSUME Sized, Collect PROVE Sized'
    OBVIOUS
  <1>1. /\ bufferLen' \in Nat /\ length' \in Nat /\ prefixCount' \in Nat
        /\ ahead' \in Bytes \cup {NoByte} /\ rex' \in Bytes \cup {0}
    <2>1. PrefixFails \/ PrefixTaken \/ OpcodeFound
      BY CollectCases DEF Collect
    <2> QED
      BY <2>1 DEF Sized, PrefixFails, PrefixTaken, OpcodeFound
  <1>2. RexW(rex) \in 0 .. 1
    BY InputAssumption DEF InputAssumption, RexW, Sized
  <1> QED
    BY <1>1, <1>2 DEF Collect, Sized

LEMMA WalkSized ==
  ASSUME Control, Sized, Walk
  PROVE  Sized'
  <1>1. ASSUME NEW b \in Bytes, Opcode(b) PROVE Sized'
    <2>1. /\ Consume(1)
          /\ UNCHANGED <<prefixCount, rex, modrm, vectorW, eosz, easz, raw>>
      BY <1>1 DEF Opcode, prefixFacts
    <2> QED
      BY <2>1, ConsumeSized DEF Sized
  <1>2. ASSUME NEW p \in Bytes, Escape(p) PROVE Sized'
    BY <1>2 DEF Escape, prefixFacts, treeVars, Sized
  <1>3. ASSUME NEW w \in 0 .. 1, VectorPrefix(w) PROVE Sized'
    <2>1. /\ Consume(PayloadBytes) /\ vectorW' = w /\ At("VECTOR_PREFIX")
          /\ UNCHANGED <<prefixCount, rex, modrm, eosz, easz>>
          /\ raw' = [raw EXCEPT !.ESCAPE = [offset |-> length - 1,
                                            size |-> 1 + PayloadBytes]]
      BY <1>3 DEF VectorPrefix, prefixFacts
    <2>2. PayloadBytes \in Nat
      BY <2>1, PayloadNumber
    <2> QED
      BY <2>1, <2>2, ConsumeSized DEF Sized, Fields
  <1>4. ASSUME NEW w \in 0 .. 1, NEW m0 \in 0 .. 1, Rex2(w, m0) PROVE Sized'
    <2>1. /\ Consume(1) /\ vectorW' = w
          /\ UNCHANGED <<prefixCount, rex, modrm, eosz, easz>>
          /\ raw' = [raw EXCEPT !.ESCAPE = [offset |-> length - 1, size |-> 2]]
      BY <1>4 DEF Rex2, prefixFacts
    <2> QED
      BY <2>1, ConsumeSized DEF Sized, Fields
  <1>5. CASE SwitchTable
    BY <1>5 DEF SwitchTable, Fail, prefixFacts, input, treeVars, Sized
  <1>6. CASE Modrm
    <2>1. UNCHANGED <<prefixCount, rex, vectorW, eosz, easz>> /\ ReadModrm
      BY <1>6 DEF Modrm, prefixFacts
    <2>2. CASE raw.MODRM.size = 0
      <3>1. Read("MODRM", 1) /\ modrm' \in OneOf(ModrmBytes)
        BY <2>1, <2>2 DEF ReadModrm
      <3>2. modrm' \in 0 .. 255
        BY <3>1, InputAssumption, OperandByteAssumption
        DEF InputAssumption, OperandByteAssumption, OneOf, Sized
      <3> QED
        BY <2>1, <3>1, <3>2, ReadSized DEF Sized, Parts
    <2>3. CASE raw.MODRM.size # 0
      BY <2>1, <2>3 DEF ReadModrm, Sized
    <2> QED
      BY <2>2, <2>3
  <1>7. CASE \/ Opcode3DNow \/ Rex2Node \/ MandatoryPrefix \/ OperandSize
             \/ VectorNode \/ Fallback
    BY <1>7 DEF Opcode3DNow, Rex2Node, MandatoryPrefix, OperandSize, VectorNode,
                Fallback, FallbackState, prefixFacts, input, Sized
  <1>8. CASE Failing
    BY <1>8, FailingRefused, RefusedSized
  <1> QED
    BY <1>1, <1>2, <1>3, <1>4, <1>5, <1>6, <1>7, <1>8 DEF Walk, Failing

LEMMA DecodeSized ==
  ASSUME Control, Sized, Decode
  PROVE  Sized'
  <1>1. ASSUME NEW d \in Definitions, Definition(d) PROVE Sized'
    <2>1. eosz' \in 0 .. 2 /\ easz' \in 0 .. 2
      BY <1>1, WidthIndex DEF Definition
    <2> QED
      BY <1>1, <2>1 DEF Definition, prefixFacts, input, Sized
  <1>2. CASE Part
    <2>1. /\ UNCHANGED <<prefixCount, rex, vectorW, eosz, easz>> /\ AtPart
          /\ PartSize \in Nat
      BY <1>2, PartNumber DEF Part, prefixFacts
    <2>2. CASE PartSize = 0
      BY <1>2, <2>1, <2>2 DEF Part, Sized
    <2>3. CASE PartSize # 0
      <3>1. /\ Read(PartOf[node], PartSize)
            /\ modrm' \in OneOf(ModrmBytes) \/ modrm' = modrm
        BY <1>2, <2>3 DEF Part
      <3>2. modrm' \in 0 .. 255
        BY <3>1, InputAssumption, OperandByteAssumption
        DEF InputAssumption, OperandByteAssumption, OneOf, Sized
      <3>3. PartOf[node] \in Parts
        BY <2>1 DEF AtPart, PartOf, Parts
      <3> QED
        BY <2>1, <3>1, <3>2, <3>3, ReadSized DEF Sized
    <2> QED
      BY <2>2, <2>3
  <1>3. ASSUME NEW d \in Definitions, ThreeDNowOpcode(d) PROVE Sized'
    <2>1. /\ Consume(1)
          /\ UNCHANGED <<prefixCount, rex, modrm, vectorW, eosz, easz, raw>>
      BY <1>3 DEF ThreeDNowOpcode, prefixFacts
    <2> QED
      BY <2>1, ConsumeSized DEF Sized
  <1>4. CASE CheckErrorConditions \/ Succeed
    BY <1>4 DEF CheckErrorConditions, Succeed, prefixFacts, input, treeVars, Sized
  <1>5. CASE Failing
    BY <1>5, FailingRefused, RefusedSized
  <1> QED
    BY <1>1, <1>2, <1>3, <1>4, <1>5 DEF Decode, Failing

LEMMA SizedStep ==
  ASSUME Control, Sized, [Next]_vars
  PROVE  Sized'
  <1>1. CASE UNCHANGED vars
    BY <1>1 DEF vars, prefixVars, treeVars, Sized
  <1> QED
    BY <1>1, CollectSized, WalkSized, DecodeSized DEF Next

(* No switch and no vector node meets an encoding it calls unreachable.    *)
THEOREM NoUnreachable == Spec => []NeverUnreachable
  <1>1. Control /\ Sized /\ [Next]_vars => Control' /\ Sized'
    BY ControlStep, SizedStep
  <1>2. Control => NeverUnreachable
    BY DEF Control
  <1> QED
    BY <1>1, <1>2, InitControl, InitSized, PTL DEF Spec

-----------------------------------------------------------------------------
(* Where the input runs out, fewer bytes were left than one instruction.   *)

LEMMA WindowStep ==
  ASSUME Control, Sized, FullWindowSuffices, [Next]_vars
  PROVE  FullWindowSuffices'
  <1>1. CASE Collect
    <2>1. PrefixFails \/ PrefixTaken \/ OpcodeFound
      BY <1>1, CollectCases DEF Collect
    <2> QED
      BY <2>1, LengthAssumption
      DEF LengthAssumption, Sized, PrefixFails, PrefixTaken, OpcodeFound,
          FullWindowSuffices
  <1>2. CASE Failing
    <2>1. PICK s : RefusedWith(s)
      BY <1>2, FailingRefused DEF Refused
    <2> QED
      BY <2>1 DEF RefusedWith, Fail, FullWindowSuffices
  <1>3. CASE Walk /\ ~Failing
    <2>1. status' \in {"TREE", "UNREACHABLE"}
      BY <1>3 DEF Walk, Failing, Opcode, Opcode3DNow, Escape, VectorPrefix, Rex2,
         SwitchTable, Rex2Node, Modrm, MandatoryPrefix, OperandSize, VectorNode,
         Fallback, FallbackState, At, Fail
    <2> QED
      BY <2>1 DEF FullWindowSuffices
  <1>4. CASE Decode /\ ~Failing
    <2>1. status' \in {"TREE", "SUCCESS"}
      BY <1>4 DEF Decode, Failing, Definition, ThreeDNowOpcode, Part, AtPart,
         CheckErrorConditions, Succeed, At
    <2> QED
      BY <2>1 DEF FullWindowSuffices
  <1>5. CASE UNCHANGED vars
    BY <1>5 DEF vars, prefixVars, FullWindowSuffices
  <1> QED
    BY <1>1, <1>2, <1>3, <1>4, <1>5 DEF Next

(* A caller who passes 15 bytes never has to come back with more.          *)
THEOREM FullWindow == Spec => []FullWindowSuffices
  <1>1. Init => FullWindowSuffices
    BY DEF Init, InitPrefixes, FullWindowSuffices
  <1>2. Control /\ Sized /\ FullWindowSuffices /\ [Next]_vars
          => Control' /\ Sized' /\ FullWindowSuffices'
    BY ControlStep, SizedStep, WindowStep
  <1> QED
    BY <1>1, <1>2, InitControl, InitSized, PTL DEF Spec

-----------------------------------------------------------------------------
(* How the bytes read so far divide into prefixes, encoding prefix, opcode *)
(* and parts, wherever the walk stands.                                    *)

OpcodeRead ==
    IF node \in {"ESCAPE", "VECTOR_PREFIX"} THEN 1
    ELSE IF node \in Switches THEN IF encoding \in Expected THEN 0 ELSE 1
    ELSE IF node = "OPCODE_TABLE"
    THEN IF encoding \in Modern \cup {"REX2"} \/ map = "DEFAULT" THEN 0
         ELSE IF map = "0F" THEN 1 ELSE 2
    ELSE OpcodeBytes

After == [MODRM |-> {"SIB", "DISP", "IMM0", "IMM1"},
          SIB |-> {"DISP", "IMM0", "IMM1"}, DISP |-> {"IMM0", "IMM1"},
          IMM0 |-> {"IMM1"}, IMM1 |-> {}]

Unread ==
    IF node \in Heads THEN Parts
    ELSE IF node \in PartSteps \ {"MODRM_PART"}
    THEN {PartOf[node]} \cup After[PartOf[node]]
    ELSE IF node \in {"CHECK", "3DNOW_OPCODE", "ATTRIBUTES"} THEN {}
    ELSE After.MODRM

PartsRead == raw.MODRM.size + raw.SIB.size + raw.DISP.size + raw.IMM0.size
               + raw.IMM1.size

NoEntryHere == node = "EMPTY" /\ ~temp

BytesCounted ==
    length = prefixCount + raw.ESCAPE.size + OpcodeRead + PartsRead
               + (IF encoding = "3DNOW" /\ node = "ATTRIBUTES" THEN 1 ELSE 0)

PartsPlaced ==
    /\ \A p \in Unread : raw[p].size = 0
    /\ \A p \in Fields : raw[p].size = 0 => raw[p].offset = 0
    /\ \A p \in Parts : raw[p].size # 0 => raw[p].offset = PartStart[p]
    /\ raw.ESCAPE.size # 0 => raw.ESCAPE.offset = prefixCount
    /\ encoding \in {"LEGACY", "3DNOW"} => raw.ESCAPE.size = 0

Layout ==
    /\ status = "PREFIXES" =>
         prefixCount = length /\ \A p \in Fields : raw[p] = Absent
    /\ status \in {"TREE", "SUCCESS"} =>
         /\ PartsPlaced
         /\ ~NoEntryHere => BytesCounted
         /\ node = "3DNOW_OPCODE" => encoding = "3DNOW"
    /\ status = "SUCCESS" => node = "ATTRIBUTES"

LEMMA InitLayout == Init => Layout
  BY DEF Init, InitPrefixes, Layout, Fields

LEMMA PartStarts ==
  LET head == prefixCount + raw.ESCAPE.size + OpcodeBytes
  IN  /\ PartStart.MODRM = head
      /\ PartStart.SIB = raw.MODRM.size + head
      /\ PartStart.DISP = raw.SIB.size + (raw.MODRM.size + head)
      /\ PartStart.IMM0 = raw.DISP.size + (raw.SIB.size + (raw.MODRM.size + head))
      /\ PartStart.IMM1 = raw.DISP.size + (raw.SIB.size + (raw.MODRM.size + head))
                            + raw.IMM0.size
  BY DEF PartStart

LEMMA NextPartStarts ==
  LET head == prefixCount' + raw'["ESCAPE"].size + OpcodeBytes'
      r == raw'
      start == PartStart'
  IN  /\ start.MODRM = head
      /\ start.SIB = r.MODRM.size + head
      /\ start.DISP = r.SIB.size + (r.MODRM.size + head)
      /\ start.IMM0 = r.DISP.size + (r.SIB.size + (r.MODRM.size + head))
      /\ start.IMM1 = r.DISP.size + (r.SIB.size + (r.MODRM.size + head))
                        + r.IMM0.size
  BY DEF PartStart

LEMMA OpcodeBytesNumber == OpcodeBytes \in Nat
  BY DEF OpcodeBytes

(* The layout says what the property asks of a decoded instruction.        *)
LEMMA LayoutTiles ==
  ASSUME Control, Sized, Layout
  PROVE  PartsTileInstruction
  <1> SUFFICES ASSUME status = "SUCCESS" PROVE PartsTileInstruction
    BY DEF PartsTileInstruction
  <1>1. node = "ATTRIBUTES" /\ PartsPlaced /\ BytesCounted
    BY DEF Layout, NoEntryHere
  <1>2. /\ raw.ESCAPE.size \in Nat /\ raw.MODRM.size \in Nat /\ raw.SIB.size \in Nat
        /\ raw.DISP.size \in Nat /\ raw.IMM0.size \in Nat /\ raw.IMM1.size \in Nat
        /\ prefixCount \in Nat /\ length \in Nat
    BY DEF Sized, Fields, Parts
  <1>3. length = PartStart.IMM1 + raw.IMM1.size
                   + (IF encoding = "3DNOW" THEN 1 ELSE 0)
    BY <1>1, <1>2, PartStarts, OpcodeBytesNumber
    DEF BytesCounted, OpcodeRead, PartsRead
  <1>4. \A p \in Parts :
          raw[p].offset = IF raw[p].size = 0 THEN 0 ELSE PartStart[p]
    BY <1>1 DEF PartsPlaced, Fields
  <1>5. raw.ESCAPE.size > 0 => raw.ESCAPE.offset = prefixCount
    BY <1>1, <1>2 DEF PartsPlaced
  <1> QED
    BY <1>3, <1>4, <1>5 DEF PartsTileInstruction

(* A step that reads nothing and stays on the same opcode.                 *)
LEMMA KeptLayout ==
  ASSUME Layout, status = "TREE", status' \in {"TREE", "SUCCESS"},
         UNCHANGED <<length, prefixCount, raw, encoding, map>>,
         ~NoEntryHere,
         NoEntryHere' \/ OpcodeRead' = OpcodeRead,
         \A p \in Unread' : p \in Unread,
         encoding = "3DNOW" => (node = "ATTRIBUTES" <=> node' = "ATTRIBUTES"),
         node' = "3DNOW_OPCODE" => encoding = "3DNOW",
         status' = "SUCCESS" => node' = "ATTRIBUTES"
  PROVE  Layout'
  <1>1. PartsPlaced /\ BytesCounted
    BY DEF Layout
  <1>2. PartStart' = PartStart
    BY DEF PartStart, OpcodeBytes
  <1>3. PartsPlaced'
    BY <1>1, <1>2 DEF PartsPlaced
  <1>4. PartsRead' = PartsRead
    BY DEF PartsRead
  <1>5. NoEntryHere' \/ BytesCounted'
    BY <1>1, <1>4 DEF BytesCounted
  <1> QED
    BY <1>3, <1>5 DEF Layout

(* A step while no part has been read.                                     *)
LEMMA HeadLayout ==
  ASSUME Sized', Layout, status = "TREE", status' = "TREE", node \in Heads,
         UNCHANGED prefixCount,
         \A p \in Parts : raw'[p] = raw[p],
         raw'["ESCAPE"].size = 0 => raw'["ESCAPE"].offset = 0,
         raw'["ESCAPE"].size # 0 => raw'["ESCAPE"].offset = prefixCount,
         encoding' \in {"LEGACY", "3DNOW"} => raw'["ESCAPE"].size = 0,
         node' \notin {"ATTRIBUTES", "3DNOW_OPCODE"},
         NoEntryHere' \/ length' = prefixCount + raw'["ESCAPE"].size + OpcodeRead'
  PROVE  Layout'
  <1>1. Unread = Parts /\ PartsPlaced
    BY DEF Unread, Layout
  <1>2. \A p \in Parts : raw'[p].size = 0 /\ raw'[p].offset = 0
    BY <1>1 DEF PartsPlaced, Fields
  <1>3. /\ \A p \in Fields : raw'[p].size = 0 => raw'[p].offset = 0
        /\ \A p \in Parts : raw'[p].size # 0 => raw'[p].offset = PartStart'[p]
    BY <1>2 DEF Fields
  <1>4. Unread' \subseteq Parts
    BY DEF Unread, PartOf, After, Parts
  <1>5. PartsPlaced'
    BY <1>2, <1>3, <1>4 DEF PartsPlaced
  <1>6. PartsRead' = 0
    BY <1>2 DEF PartsRead, Parts
  <1>7. OpcodeRead' \in Nat
    BY DEF OpcodeRead, OpcodeBytes
  <1>8. ASSUME ~NoEntryHere' PROVE BytesCounted'
    <2>1. length' = prefixCount' + raw'["ESCAPE"].size + OpcodeRead'
      BY <1>8
    <2>2. prefixCount' + raw'["ESCAPE"].size + OpcodeRead'
            = prefixCount' + raw'["ESCAPE"].size + OpcodeRead' + 0 + 0
      <3>1. prefixCount' \in Nat /\ raw'["ESCAPE"].size \in Nat
        BY DEF Sized, Fields
      <3> QED
        BY <1>7, <3>1
    <2> QED
      BY <1>6, <2>1, <2>2 DEF BytesCounted
  <1> QED
    BY <1>5, <1>8 DEF Layout

LEMMA CollectLayout == Control /\ Sized /\ Layout /\ Collect => Layout'
  <1> SUFFICES ASSUME Control, Sized, Layout, Collect PROVE Layout'
    OBVIOUS
  <1>1. /\ status = "PREFIXES" /\ UNCHANGED <<node, temp, encoding, map, raw>>
        /\ \/ status' \notin {"PREFIXES", "TREE", "SUCCESS"}
           \/ /\ status' \in {"PREFIXES", "TREE"}
              /\ length' = prefixCount'
    BY CollectCases
    DEF Collect, PrefixFails, PrefixTaken, OpcodeFound, Layout, Sized
  <1>2. /\ node' = "OPCODE_TABLE" /\ encoding' = "LEGACY" /\ map' = "DEFAULT"
        /\ \A p \in Fields : raw'[p] = Absent
    BY <1>1 DEF Control, AtTheStart, Layout
  <1>3. CASE status' \in {"PREFIXES", "TREE"}
    <2>1. \A p \in Fields : raw'[p].size = 0 /\ raw'[p].offset = 0
      BY <1>2 DEF Absent
    <2>2. Unread' \subseteq Fields /\ Parts \subseteq Fields
      BY <1>2 DEF Unread, Fields
    <2>3. PartsPlaced'
      BY <2>1, <2>2 DEF PartsPlaced, Fields
    <2>4. PartsRead' = 0 /\ OpcodeRead' = 0 /\ raw'["ESCAPE"].size = 0
      BY <1>2, <2>1 DEF PartsRead, OpcodeRead, Fields, Parts, Modern
    <2>5. prefixCount' \in Nat
      BY CollectSized DEF Sized
    <2>6. BytesCounted'
      BY <1>1, <1>2, <1>3, <2>4, <2>5 DEF BytesCounted
    <2> QED
      BY <1>1, <1>2, <1>3, <2>3, <2>6 DEF Layout
  <1>4. CASE status' \notin {"PREFIXES", "TREE", "SUCCESS"}
    BY <1>4 DEF Layout
  <1> QED
    BY <1>1, <1>3, <1>4

LEMMA RefusedLayout == Refused => Layout'
  BY DEF Refused, RefusedWith, Errors, Fail, Layout

LEMMA OpcodeLayout ==
  ASSUME Control, Sized, Layout, NEW b \in Bytes, Opcode(b)
  PROVE  Layout'
  <1>1. /\ status = "TREE" /\ status' = "TREE" /\ node = "OPCODE_TABLE"
        /\ encoding # "3DNOW" /\ UNCHANGED <<prefixCount, raw, temp>>
        /\ length' = length + 1
    BY DEF Opcode, At, Consume, prefixFacts
  <1>2. EscapeFound \/ MapFound \/ SwitchFound \/ EntryFound
    BY OpcodeCases
  <1>3. PartsPlaced /\ BytesCounted
    BY <1>1 DEF Layout, NoEntryHere
  <1>4. \A p \in Parts : raw[p].size = 0
    BY <1>1, <1>3 DEF PartsPlaced, Unread
  <1>5. OpcodeRead \in Nat /\ prefixCount \in Nat /\ raw["ESCAPE"].size \in Nat
    BY DEF OpcodeRead, OpcodeBytes, Sized, Fields
  <1>6. length' = prefixCount' + raw'["ESCAPE"].size + OpcodeRead + 1
    <2>1. PartsRead = 0
      BY <1>4 DEF PartsRead, Parts
    <2> QED
      BY <1>1, <1>3, <1>5, <2>1 DEF BytesCounted
  <1>7. OpcodeRead' = OpcodeRead + 1 /\ node' \notin {"ATTRIBUTES", "3DNOW_OPCODE"}
    <2>1. CASE EscapeFound
      BY <1>1, <2>1 DEF EscapeFound, OpcodeRead, Modern
    <2>2. CASE MapFound
      BY <1>1, <2>2 DEF MapFound, OpcodeRead, Modern
    <2>3. CASE SwitchFound
      BY <1>1, <2>3 DEF SwitchFound, OpcodeRead, Modern, OwnMeaning, Expected
    <2>4. CASE EntryFound
      <3>1. OpcodeRead' = OpcodeBytes /\ node' \notin {"ATTRIBUTES", "3DNOW_OPCODE"}
        BY <2>4 DEF EntryFound, OpcodeRead, OpcodeBytes
      <3>2. map # "0F0F"
        BY <1>1 DEF Control, EncodingKnown
      <3>3. CASE encoding \in Modern \cup {"REX2"} \/ map = "DEFAULT"
        <4>1. OpcodeRead = 0
          BY <1>1, <3>3 DEF OpcodeRead
        <4>2. OpcodeBytes = 1
          BY <3>3 DEF OpcodeBytes
        <4> QED
          BY <3>1, <4>1, <4>2
      <3>4. CASE ~(encoding \in Modern \cup {"REX2"} \/ map = "DEFAULT")
        <4>1. OpcodeRead = IF map = "0F" THEN 1 ELSE 2
          BY <1>1, <3>4 DEF OpcodeRead
        <4>2. OpcodeBytes = IF map = "0F" THEN 2 ELSE 3
          BY <3>2, <3>4 DEF OpcodeBytes
        <4> QED
          BY <3>1, <4>1, <4>2
      <3> QED
        BY <3>3, <3>4
    <2> QED
      BY <1>2, <2>1, <2>2, <2>3, <2>4
  <1>8. encoding' \in {"LEGACY", "3DNOW"} => encoding = "LEGACY"
    BY <1>1, <1>2 DEF EscapeFound, MapFound, SwitchFound, EntryFound
  <1>9. /\ raw'["ESCAPE"].size = 0 => raw'["ESCAPE"].offset = 0
        /\ raw'["ESCAPE"].size # 0 => raw'["ESCAPE"].offset = prefixCount
        /\ encoding' \in {"LEGACY", "3DNOW"} => raw'["ESCAPE"].size = 0
    BY <1>1, <1>3, <1>8 DEF PartsPlaced, Fields
  <1>10. Sized'
    BY WalkSized DEF Walk
  <1>11. length' = prefixCount' + raw'["ESCAPE"].size + OpcodeRead'
    BY <1>1, <1>5, <1>6, <1>7
  <1> QED
    BY <1>1, <1>7, <1>9, <1>10, <1>11, HeadLayout

(* An encoding prefix was announced by one opcode byte, which is part of   *)
(* it, and nothing but prefixes came before.                               *)
LEMMA EncodingPrefixLayout ==
  ASSUME Control, Sized, Layout, Control', Sized', NEW n \in Nat,
         status = "TREE", status' = "TREE", node \in {"ESCAPE", "VECTOR_PREFIX"},
         encoding = "LEGACY", node' \in Switches, encoding' \in Expected',
         Consume(n), UNCHANGED prefixCount,
         raw' = [raw EXCEPT !.ESCAPE = [offset |-> length - 1, size |-> 1 + n]]
  PROVE  Layout'
  <1>1. PartsPlaced /\ BytesCounted
    BY DEF Layout, NoEntryHere
  <1>2. \A p \in Parts : raw[p].size = 0
    BY <1>1 DEF PartsPlaced, Unread
  <1>3. PartsRead = 0 /\ OpcodeRead = 1 /\ raw["ESCAPE"].size = 0
    BY <1>1, <1>2 DEF PartsRead, Parts, OpcodeRead, PartsPlaced
  <1>4. length = prefixCount + 1 /\ length' = length + n /\ prefixCount \in Nat
    BY <1>1, <1>3 DEF BytesCounted, Consume, Sized
  <1>5. /\ raw'["ESCAPE"].size = 1 + n /\ raw'["ESCAPE"].offset = prefixCount
        /\ \A p \in Parts : raw'[p] = raw[p]
    BY <1>4 DEF Sized, Fields, Parts
  <1>6. OpcodeRead' = 0
    BY DEF OpcodeRead
  <1>7. encoding' \notin {"LEGACY", "3DNOW"}
    BY DEF Expected
  <1>8. length' = prefixCount' + raw'["ESCAPE"].size + OpcodeRead'
    BY <1>4, <1>5, <1>6
  <1>9. raw'["ESCAPE"].size # 0
    BY <1>5
  <1>10. node \in Heads /\ node' \notin {"ATTRIBUTES", "3DNOW_OPCODE"}
    OBVIOUS
  <1> QED
    BY <1>5, <1>7, <1>8, <1>9, <1>10, HeadLayout

LEMMA PrefixLayout ==
  ASSUME Control, Sized, Layout,
         \/ \E w \in 0 .. 1 : VectorPrefix(w)
         \/ \E w, m0 \in 0 .. 1 : Rex2(w, m0)
  PROVE  Layout'
  <1>1. ASSUME NEW w \in 0 .. 1, VectorPrefix(w) PROVE Layout'
    <2>1. /\ status = "TREE" /\ status' = "TREE" /\ node = "VECTOR_PREFIX"
          /\ Consume(PayloadBytes) /\ UNCHANGED prefixCount /\ At("VECTOR_PREFIX")
          /\ raw' = [raw EXCEPT !.ESCAPE = [offset |-> length - 1,
                                            size |-> 1 + PayloadBytes]]
          /\ node' = SwitchOf(opcode) /\ encoding' = PrefixEncoding
      BY <1>1 DEF VectorPrefix, At, prefixFacts
    <2>2. encoding = "LEGACY" /\ opcode \in {98, 143, 196, 197}
      BY <2>1 DEF Control, NodeFitsEncoding
    <2>3. PayloadBytes \in Nat
      BY <2>1, PayloadNumber
    <2>4. node' \in Switches /\ encoding' \in Modern
      BY <2>1, <2>2 DEF SwitchOf, PrefixEncoding, Modern
    <2>5. Control' /\ Sized'
      BY <1>1, VectorPrefixControl, WalkSized DEF Walk
    <2>6. encoding' \in Expected'
      BY <2>4, <2>5 DEF Control, NodeFitsEncoding, OwnMeaning, Modern
    <2> QED
      BY <2>1, <2>2, <2>3, <2>4, <2>5, <2>6, EncodingPrefixLayout
  <1>2. ASSUME NEW w \in 0 .. 1, NEW m0 \in 0 .. 1, Rex2(w, m0) PROVE Layout'
    <2>1. /\ status = "TREE" /\ status' = "TREE" /\ node = "ESCAPE"
          /\ opcode = 213 /\ Consume(1) /\ UNCHANGED prefixCount
          /\ raw' = [raw EXCEPT !.ESCAPE = [offset |-> length - 1, size |-> 1 + 1]]
          /\ node' = "SWITCH_TABLE_REX2" /\ encoding' = "REX2"
      BY <1>2 DEF Rex2, At, prefixFacts
    <2>2. encoding = "LEGACY"
      BY <2>1 DEF Control, NodeFitsEncoding
    <2>3. Control' /\ Sized'
      BY <1>2, Rex2Control, WalkSized DEF Walk
    <2>4. encoding' \in Expected' /\ node' \in Switches
      BY <2>1 DEF Expected
    <2> QED
      BY <2>1, <2>2, <2>3, <2>4, EncodingPrefixLayout
  <1> QED
    BY <1>1, <1>2

LEMMA EscapeLayout ==
  ASSUME Control, Layout, NEW p \in Bytes, Escape(p)
  PROVE  Layout'
  <1>1. /\ status = "TREE" /\ status' = "TREE" /\ node = "ESCAPE" /\ opcode # 213
        /\ UNCHANGED <<length, prefixCount, raw, encoding, map>>
        /\ node' = IF IsPayload(p) THEN "VECTOR_PREFIX" ELSE SwitchOf(opcode)
    BY DEF Escape, At, prefixFacts, treeVars
  <1>2. encoding \in {"LEGACY", "REX2"} /\ opcode \in {98, 143, 196, 197}
    BY <1>1 DEF Control, NodeFitsEncoding
  <1>3. node' \in {"VECTOR_PREFIX", "SWITCH_TABLE_XOP", "SWITCH_TABLE_VEX",
                   "SWITCH_TABLE_EMVEX"}
    BY <1>1, <1>2 DEF SwitchOf
  <1>4. OpcodeRead = 1 /\ OpcodeRead' = 1
    BY <1>1, <1>2, <1>3 DEF OpcodeRead, Expected
  <1>5. Unread' = Unread
    BY <1>1, <1>3 DEF Unread
  <1>6. ~NoEntryHere
    BY <1>1 DEF NoEntryHere
  <1> QED
    BY <1>1, <1>2, <1>3, <1>4, <1>5, <1>6, KeptLayout

LEMMA SwitchTableLayout == Control /\ Layout /\ SwitchTable => Layout'
  <1> SUFFICES ASSUME Control, Layout, SwitchTable PROVE Layout'
    OBVIOUS
  <1>1. status = "TREE" /\ node \in Switches
    BY DEF SwitchTable, Expected
  <1>2. encoding \in Expected \cup OwnMeaning /\ ~temp
    BY <1>1 DEF Control, NodeFitsEncoding
  <1>3. /\ UNCHANGED <<length, prefixCount, raw, encoding, map, temp, status>>
        /\ node' \in (IF encoding \in Expected THEN {"OPCODE_TABLE", "EMPTY"}
                      ELSE {"MODRM", "DEFINITION", "EMPTY"})
    BY <1>2 DEF SwitchTable, prefixFacts, input, treeVars
  <1>4. NoEntryHere' \/ OpcodeRead' = OpcodeRead
    <2>1. CASE encoding \in Expected
      <3>1. encoding \in Modern \cup {"REX2"}
        BY <2>1 DEF Expected, Modern
      <3> QED
        BY <1>1, <1>2, <1>3, <2>1, <3>1 DEF OpcodeRead, NoEntryHere
    <2>2. CASE encoding \notin Expected
      <3>1. map = "DEFAULT"
        BY <1>1, <2>2 DEF Control, NodeFitsEncoding
      <3> QED
        BY <1>1, <1>3, <2>2, <3>1 DEF OpcodeRead, OpcodeBytes
    <2> QED
      BY <2>1, <2>2
  <1>5. \A p \in Unread' : p \in Unread
    BY <1>1, <1>3 DEF Unread, Parts, After
  <1>6. node' \notin {"ATTRIBUTES", "3DNOW_OPCODE"} /\ ~NoEntryHere
    BY <1>1, <1>3 DEF NoEntryHere
  <1> QED
    BY <1>1, <1>3, <1>4, <1>5, <1>6, KeptLayout

(* The nodes of the trees, and the step after them: the opcode is complete *)
(* and no part but ModRM can have been read.                               *)
TreeNodes == {"MODRM", "EMPTY", "DEFINITION"} \cup LegacyNodes \cup VectorNodes

LEMMA TreeLayout ==
  ASSUME Layout, status = "TREE", status' = "TREE", node \in TreeNodes,
         node' \in TreeNodes \cup {"MODRM_PART"}, ~NoEntryHere,
         UNCHANGED <<length, prefixCount, raw, encoding, map>>
  PROVE  Layout'
  <1>1. OpcodeRead' = OpcodeRead
    BY DEF OpcodeRead, OpcodeBytes, TreeNodes
  <1>2. Unread' = Unread
    BY DEF Unread, TreeNodes
  <1>3. node' \notin {"ATTRIBUTES", "3DNOW_OPCODE"} /\ node # "ATTRIBUTES"
    BY DEF TreeNodes
  <1> QED
    BY <1>1, <1>2, <1>3, KeptLayout

LEMMA DescendStays ==
  ASSUME Control, NEW n \in {"MODRM"} \cup LegacyNodes \cup VectorNodes,
         At(n), Descend(n)
  PROVE  node' \in TreeNodes /\ ~NoEntryHere
  <1>1. status = "TREE" /\ node = n
    BY DEF At
  <1>2. /\ n \in LegacyNodes => encoding \in {"LEGACY", "REX2"}
        /\ n \in VectorNodes => encoding \in Modern
    BY <1>1 DEF Control, NodeFitsEncoding
  <1> QED
    BY <1>1, <1>2, BelowLegacyNodes DEF TreeNodes, NoEntryHere

LEMMA TreeNodeLayout ==
  ASSUME Control, Layout,
         Rex2Node \/ MandatoryPrefix \/ OperandSize \/ VectorNode
  PROVE  Layout'
  <1>1. CASE Rex2Node
    BY <1>1, DescendStays, TreeLayout DEF Rex2Node, At, prefixFacts, input, TreeNodes
  <1>2. CASE MandatoryPrefix
    BY <1>2, DescendStays, TreeLayout
    DEF MandatoryPrefix, At, prefixFacts, input, TreeNodes
  <1>3. CASE OperandSize
    BY <1>3, DescendStays, TreeLayout DEF OperandSize, At, prefixFacts, input, TreeNodes
  <1>4. CASE VectorNode
    BY <1>4, DescendStays, TreeLayout DEF VectorNode, At, prefixFacts, input, TreeNodes
  <1> QED
    BY <1>1, <1>2, <1>3, <1>4

LEMMA FallbackLayout == Layout /\ Fallback => Layout'
  <1> SUFFICES ASSUME Layout, Fallback PROVE Layout'
    OBVIOUS
  <1>1. /\ status = "TREE" /\ status' = "TREE" /\ node = "EMPTY" /\ temp
        /\ UNCHANGED <<length, prefixCount, raw, encoding, map>>
        /\ node' \in {"DEFINITION", "EMPTY"} \cup BelowLegacy.MANDATORY_PREFIX
    BY DEF Fallback, FallbackState, At, prefixFacts, input
  <1>2. node' \in {"DEFINITION", "EMPTY", "MODRM", "OPERAND_SIZE"}
    BY <1>1 DEF BelowLegacy
  <1> QED
    BY <1>1, <1>2, TreeLayout DEF TreeNodes, NoEntryHere

(* A step that reads part p behind the parts read before it.               *)
LEMMA ReadLayout ==
  ASSUME Control, Sized, Layout, status = "TREE", status' = "TREE",
         NEW p \in Parts, NEW n \in Nat \ {0}, Read(p, n), raw[p].size = 0,
         \A q \in After[p] : raw[q].size = 0,
         node \in TreeNodes \cup PartSteps, ~NoEntryHere,
         node' \in TreeNodes \cup PartSteps \cup {"CHECK"},
         Unread' \subseteq After[p],
         UNCHANGED <<prefixCount, encoding, map>>
  PROVE  Layout'
  <1>1. PartsPlaced /\ BytesCounted
    BY DEF Layout
  <1>2. /\ length' = length + n
        /\ raw' \in [Fields -> [offset : Int, size : Nat]]
        /\ raw'[p] = [offset |-> length, size |-> n]
        /\ \A q \in Fields \ {p} : raw'[q] = raw[q]
    BY ReadSized
  <1>3. /\ raw["ESCAPE"].size \in Nat /\ raw["MODRM"].size \in Nat
        /\ raw["SIB"].size \in Nat /\ raw["DISP"].size \in Nat
        /\ raw["IMM0"].size \in Nat /\ raw["IMM1"].size \in Nat
        /\ prefixCount \in Nat /\ length \in Nat /\ OpcodeBytes \in Nat
    BY OpcodeBytesNumber DEF Sized, Fields, Parts
  <1>4. OpcodeRead = OpcodeBytes /\ OpcodeRead' = OpcodeBytes
    BY DEF OpcodeRead, OpcodeBytes, TreeNodes
  <1>5. node # "ATTRIBUTES" /\ node' \notin {"ATTRIBUTES", "3DNOW_OPCODE"}
    BY DEF TreeNodes
  <1>6. length = prefixCount + raw["ESCAPE"].size + OpcodeBytes + PartsRead
    <2>1. PartsRead \in Nat
      BY <1>3 DEF PartsRead
    <2> QED
      BY <1>1, <1>3, <1>4, <1>5, <2>1 DEF BytesCounted
  <1>7. raw'["ESCAPE"] = raw["ESCAPE"]
    BY <1>2 DEF Fields, Parts
  <1>8. PartsRead' = PartsRead + n
    BY <1>2, <1>3 DEF PartsRead, Parts, Fields
  <1>9. BytesCounted'
    <2>1. PartsRead \in Nat
      BY <1>3 DEF PartsRead
    <2> QED
      BY <1>2, <1>3, <1>4, <1>5, <1>6, <1>7, <1>8, <2>1 DEF BytesCounted
  <1>10. PartsPlaced'
    <2>1. OpcodeBytes' = OpcodeBytes
      BY DEF OpcodeBytes
    <2>2. \A q \in After[p] \cup {p} : raw[q].size = 0
      OBVIOUS
    <2>3. \A q \in Parts : raw'[q].size # 0 => raw'[q].offset = PartStart'[q]
      <3>1. CASE p = "MODRM"
        <4>1. /\ raw'["MODRM"].offset = length
              /\ raw'["SIB"].size = 0 /\ raw["SIB"].size = 0
              /\ raw'["DISP"].size = 0 /\ raw["DISP"].size = 0
              /\ raw'["IMM0"].size = 0 /\ raw["IMM0"].size = 0
              /\ raw'["IMM1"].size = 0 /\ raw["IMM1"].size = 0
              /\ raw["MODRM"].size = 0
          BY <1>2, <2>2, <3>1 DEF Parts, Fields, After
        <4>2. length = PartStart["MODRM"]
          BY <1>3, <1>6, <4>1, PartStarts DEF PartsRead
        <4>3. \A q \in {"MODRM"} : PartStart'[q] = PartStart[q]
          BY <1>3, <1>7, <2>1, <4>1, PartStarts, NextPartStarts
        <4> QED
          BY <1>1, <4>1, <4>2, <4>3 DEF PartsPlaced, Parts
      <3>2. CASE p = "SIB"
        <4>1. /\ raw'["SIB"].offset = length
              /\ raw'["MODRM"] = raw["MODRM"]
              /\ raw'["DISP"].size = 0 /\ raw["DISP"].size = 0
              /\ raw'["IMM0"].size = 0 /\ raw["IMM0"].size = 0
              /\ raw'["IMM1"].size = 0 /\ raw["IMM1"].size = 0
              /\ raw["SIB"].size = 0
          BY <1>2, <2>2, <3>2 DEF Parts, Fields, After
        <4>2. length = PartStart["SIB"]
          BY <1>3, <1>6, <4>1, PartStarts DEF PartsRead
        <4>3. \A q \in {"MODRM", "SIB"} : PartStart'[q] = PartStart[q]
          BY <1>3, <1>7, <2>1, <4>1, PartStarts, NextPartStarts
        <4> QED
          BY <1>1, <4>1, <4>2, <4>3 DEF PartsPlaced, Parts
      <3>3. CASE p = "DISP"
        <4>1. /\ raw'["DISP"].offset = length
              /\ raw'["MODRM"] = raw["MODRM"]
              /\ raw'["SIB"] = raw["SIB"]
              /\ raw'["IMM0"].size = 0 /\ raw["IMM0"].size = 0
              /\ raw'["IMM1"].size = 0 /\ raw["IMM1"].size = 0
              /\ raw["DISP"].size = 0
          BY <1>2, <2>2, <3>3 DEF Parts, Fields, After
        <4>2. length = PartStart["DISP"]
          BY <1>3, <1>6, <4>1, PartStarts DEF PartsRead
        <4>3. \A q \in {"MODRM", "SIB", "DISP"} : PartStart'[q] = PartStart[q]
          BY <1>3, <1>7, <2>1, <4>1, PartStarts, NextPartStarts
        <4> QED
          BY <1>1, <4>1, <4>2, <4>3 DEF PartsPlaced, Parts
      <3>4. CASE p = "IMM0"
        <4>1. /\ raw'["IMM0"].offset = length
              /\ raw'["MODRM"] = raw["MODRM"]
              /\ raw'["SIB"] = raw["SIB"]
              /\ raw'["DISP"] = raw["DISP"]
              /\ raw'["IMM1"].size = 0 /\ raw["IMM1"].size = 0
              /\ raw["IMM0"].size = 0
          BY <1>2, <2>2, <3>4 DEF Parts, Fields, After
        <4>2. length = PartStart["IMM0"]
          BY <1>3, <1>6, <4>1, PartStarts DEF PartsRead
        <4>3. \A q \in {"MODRM", "SIB", "DISP", "IMM0"} : PartStart'[q] = PartStart[q]
          BY <1>3, <1>7, <2>1, <4>1, PartStarts, NextPartStarts
        <4> QED
          BY <1>1, <4>1, <4>2, <4>3 DEF PartsPlaced, Parts
      <3>5. CASE p = "IMM1"
        <4>1. /\ raw'["IMM1"].offset = length
              /\ raw'["MODRM"] = raw["MODRM"]
              /\ raw'["SIB"] = raw["SIB"]
              /\ raw'["DISP"] = raw["DISP"]
              /\ raw'["IMM0"] = raw["IMM0"]
              /\ raw["IMM1"].size = 0
          BY <1>2, <2>2, <3>5 DEF Parts, Fields, After
        <4>2. length = PartStart["IMM1"]
          BY <1>3, <1>6, <4>1, PartStarts DEF PartsRead
        <4>3. \A q \in {"MODRM", "SIB", "DISP", "IMM0", "IMM1"} : PartStart'[q] = PartStart[q]
          BY <1>3, <1>7, <2>1, <4>1, PartStarts, NextPartStarts
        <4> QED
          BY <1>1, <4>1, <4>2, <4>3 DEF PartsPlaced, Parts
      <3> QED
        BY <3>1, <3>2, <3>3, <3>4, <3>5 DEF Parts
    <2>4. \A q \in Unread' : raw'[q].size = 0
      <3>1. p \notin After[p] /\ After[p] \subseteq Fields
        BY DEF After, Parts, Fields
      <3> QED
        BY <1>2, <3>1
    <2>5. \A q \in Fields : raw'[q].size = 0 => raw'[q].offset = 0
      BY <1>1, <1>2 DEF PartsPlaced
    <2> QED
      BY <1>1, <1>7, <2>3, <2>4, <2>5 DEF PartsPlaced
  <1> QED
    BY <1>5, <1>9, <1>10 DEF Layout

LEMMA ModrmLayout == Control /\ Sized /\ Layout /\ Modrm => Layout'
  <1> SUFFICES ASSUME Control, Sized, Layout, Modrm PROVE Layout'
    OBVIOUS
  <1>1. /\ status = "TREE" /\ status' = "TREE" /\ node = "MODRM" /\ ReadModrm
        /\ UNCHANGED <<prefixCount, encoding, map>>
        /\ node' \in TreeNodes /\ ~NoEntryHere
    BY DescendStays DEF Modrm, At, prefixFacts
  <1>2. CASE raw["MODRM"].size = 0
    <2>1. Read("MODRM", 1)
      BY <1>1, <1>2 DEF ReadModrm
    <2>2. \A q \in After["MODRM"] : raw[q].size = 0
      BY <1>1 DEF Layout, PartsPlaced, Unread
    <2>3. Unread' \subseteq After["MODRM"]
      BY <1>1 DEF Unread, TreeNodes
    <2>4. node \in TreeNodes /\ "MODRM" \in Parts
      BY <1>1 DEF TreeNodes, Parts
    <2> QED
      BY <1>1, <1>2, <2>1, <2>2, <2>3, <2>4, ReadLayout
  <1>3. CASE raw["MODRM"].size # 0
    BY <1>1, <1>3, TreeLayout DEF ReadModrm, TreeNodes
  <1> QED
    BY <1>2, <1>3

LEMMA Opcode3DNowLayout == Control /\ Layout /\ Opcode3DNow => Layout'
  <1> SUFFICES ASSUME Control, Layout, Opcode3DNow PROVE Layout'
    OBVIOUS
  <1>1. /\ status = "TREE" /\ status' = "TREE" /\ node = "OPCODE_TABLE"
        /\ node' = "MODRM" /\ encoding = "3DNOW"
        /\ UNCHANGED <<length, prefixCount, raw, encoding, map>>
    BY DEF Opcode3DNow, At, prefixFacts, input
  <1>2. map = "0F0F"
    BY <1>1 DEF Control, EncodingKnown
  <1>3. OpcodeRead = 2 /\ OpcodeRead' = 2
    BY <1>1, <1>2 DEF OpcodeRead, OpcodeBytes, Modern
  <1>4. \A p \in Unread' : p \in Unread
    BY <1>1 DEF Unread, After, Parts
  <1>5. ~NoEntryHere
    BY <1>1 DEF NoEntryHere
  <1> QED
    BY <1>1, <1>3, <1>4, <1>5, KeptLayout

(* The parts are read in their order, each at most once.                   *)
LEMMA PartLayout == Control /\ Sized /\ Layout /\ Part => Layout'
  <1> SUFFICES ASSUME Control, Sized, Layout, Part PROVE Layout'
    OBVIOUS
  <1>1. /\ status = "TREE" /\ status' = "TREE" /\ node \in PartSteps
        /\ UNCHANGED <<prefixCount, encoding, map>> /\ node' = NextPart /\ AtPart
    BY DEF Part, AtPart, PartOf, prefixFacts
  <1>2. /\ node = "MODRM_PART" => node' = "SIB_PART"
        /\ node = "SIB_PART" => node' = "DISP_PART"
        /\ node = "DISP_PART" => node' = "IMM0_PART"
        /\ node = "IMM0_PART" => node' = "IMM1_PART"
        /\ node = "IMM1_PART" => node' = "CHECK"
    BY <1>1 DEF NextPart, PartNodes
  <1>3. PartOf[node] \in Parts /\ Unread' = After[PartOf[node]]
    BY <1>1, <1>2 DEF PartOf, Parts, Unread, After
  <1>4. /\ node # "MODRM_PART" => Unread = {PartOf[node]} \cup After[PartOf[node]]
        /\ node = "MODRM_PART" => Unread = After[PartOf[node]]
    BY <1>1 DEF Unread, PartOf
  <1>5. ~NoEntryHere
    BY <1>1 DEF NoEntryHere
  <1>6. PartSize \in Nat
    BY <1>1, PartNumber
  <1>7. CASE PartSize = 0
    <2>1. UNCHANGED <<length, raw>>
      BY <1>7 DEF Part
    <2>2. OpcodeRead' = OpcodeRead
      BY <1>1, <1>2 DEF OpcodeRead, OpcodeBytes
    <2>3. \A p \in Unread' : p \in Unread
      BY <1>3, <1>4
    <2> QED
      BY <1>1, <1>2, <1>5, <2>1, <2>2, <2>3, KeptLayout
  <1>8. CASE PartSize # 0
    <2>1. Read(PartOf[node], PartSize)
      BY <1>8 DEF Part
    <2>2. \A q \in Unread : raw[q].size = 0
      BY <1>1 DEF Layout, PartsPlaced
    <2>3. raw[PartOf[node]].size = 0
      <3>1. CASE node = "MODRM_PART"
        BY <1>8, <3>1 DEF PartSize, PartOf
      <3>2. CASE node # "MODRM_PART"
        BY <1>4, <2>2, <3>2
      <3> QED
        BY <3>1, <3>2
    <2>4. \A q \in After[PartOf[node]] : raw[q].size = 0
      BY <1>4, <2>2
    <2>5. node' \in PartSteps \cup {"CHECK"}
      BY <1>1, <1>2
    <2> QED
      BY <1>1, <1>3, <1>5, <1>6, <1>8, <2>1, <2>3, <2>4, <2>5, ReadLayout
  <1> QED
    BY <1>7, <1>8

LEMMA DefinitionCaseLayout ==
  ASSUME Control, Sized, Layout,
         \/ \E d \in Definitions : Definition(d) \/ ThreeDNowOpcode(d)
         \/ CheckErrorConditions \/ Succeed
  PROVE  Layout'
  <1>1. ASSUME NEW d \in Definitions, Definition(d) PROVE Layout'
    BY <1>1, TreeLayout
    DEF Definition, At, prefixFacts, input, TreeNodes, NoEntryHere
  <1>2. ASSUME NEW d \in Definitions, ThreeDNowOpcode(d) PROVE Layout'
    <2>1. /\ status = "TREE" /\ status' = "TREE" /\ node = "3DNOW_OPCODE"
          /\ node' = "ATTRIBUTES" /\ length' = length + 1
          /\ UNCHANGED <<prefixCount, raw, encoding, map>>
      BY <1>2 DEF ThreeDNowOpcode, At, Consume, prefixFacts
    <2>2. PartsPlaced /\ BytesCounted /\ encoding = "3DNOW"
      BY <2>1 DEF Layout, NoEntryHere
    <2>3. PartStart' = PartStart /\ PartsRead' = PartsRead
      BY <2>1 DEF PartStart, OpcodeBytes, PartsRead
    <2>4. PartsPlaced'
      BY <2>1, <2>2, <2>3 DEF PartsPlaced, Unread
    <2>5. OpcodeRead' = OpcodeRead
      BY <2>1 DEF OpcodeRead, OpcodeBytes
    <2>6. length = prefixCount + raw["ESCAPE"].size + OpcodeRead + PartsRead + 0
      BY <2>1, <2>2 DEF BytesCounted
    <2>7. /\ prefixCount \in Nat /\ raw["ESCAPE"].size \in Nat
          /\ OpcodeRead \in Nat /\ PartsRead \in Nat
      <3>1. OpcodeRead \in Nat
        BY DEF OpcodeRead, OpcodeBytes
      <3>2. PartsRead \in Nat
        BY DEF PartsRead, Sized, Fields, Parts
      <3> QED
        BY <3>1, <3>2 DEF Sized, Fields
    <2>8. length' = prefixCount' + raw'["ESCAPE"].size + OpcodeRead' + PartsRead' + 1
      BY <2>1, <2>3, <2>5, <2>6, <2>7
    <2>9. BytesCounted'
      BY <2>1, <2>2, <2>8 DEF BytesCounted
    <2> QED
      BY <2>1, <2>4, <2>9 DEF Layout
  <1>3. CASE CheckErrorConditions
    <2>1. /\ status = "TREE" /\ status' = "TREE" /\ node = "CHECK"
          /\ node' = IF encoding = "3DNOW" THEN "3DNOW_OPCODE" ELSE "ATTRIBUTES"
          /\ UNCHANGED <<length, prefixCount, raw, encoding, map>>
      BY <1>3 DEF CheckErrorConditions, At, prefixFacts, input, treeVars
    <2>2. OpcodeRead' = OpcodeRead
      BY <2>1 DEF OpcodeRead, OpcodeBytes
    <2>3. Unread' = {} /\ ~NoEntryHere
      BY <2>1 DEF Unread, NoEntryHere
    <2> QED
      BY <2>1, <2>2, <2>3, KeptLayout
  <1>4. CASE Succeed
    <2>1. /\ status = "TREE" /\ status' = "SUCCESS" /\ node = "ATTRIBUTES"
          /\ UNCHANGED <<node, length, prefixCount, raw, encoding, map>>
      BY <1>4 DEF Succeed, At, prefixFacts, input, treeVars
    <2>2. OpcodeRead' = OpcodeRead
      BY <2>1 DEF OpcodeRead, OpcodeBytes
    <2>3. Unread' = {} /\ ~NoEntryHere
      BY <2>1 DEF Unread, NoEntryHere
    <2> QED
      BY <2>1, <2>2, <2>3, KeptLayout
  <1> QED
    BY <1>1, <1>2, <1>3, <1>4

LEMMA LayoutStep ==
  ASSUME Control, Sized, Layout, [Next]_vars
  PROVE  Layout'
  <1>1. CASE Collect
    BY <1>1, CollectLayout
  <1>2. CASE Failing
    BY <1>2, FailingRefused, RefusedLayout
  <1>3. CASE Walk /\ ~Failing
    BY <1>3, OpcodeLayout, Opcode3DNowLayout, EscapeLayout, PrefixLayout,
       SwitchTableLayout, TreeNodeLayout, ModrmLayout, FallbackLayout
    DEF Walk, Failing
  <1>4. CASE Decode /\ ~Failing
    BY <1>4, DefinitionCaseLayout, PartLayout DEF Decode, Failing
  <1>5. CASE UNCHANGED vars
    <2>1. /\ UNCHANGED <<status, node, temp, length, prefixCount, raw>>
          /\ UNCHANGED <<encoding, map>>
      BY <1>5 DEF vars, prefixVars, treeVars
    <2>2. /\ PartStart' = PartStart /\ PartsRead' = PartsRead
          /\ OpcodeRead' = OpcodeRead /\ Unread' = Unread
      BY <2>1 DEF PartStart, OpcodeBytes, PartsRead, OpcodeRead, Unread, Expected
    <2>3. PartsPlaced' <=> PartsPlaced
      BY <2>1, <2>2 DEF PartsPlaced
    <2>4. BytesCounted' <=> BytesCounted
      BY <2>1, <2>2 DEF BytesCounted
    <2> QED
      BY <2>1, <2>3, <2>4 DEF Layout, NoEntryHere
  <1> QED
    BY <1>1, <1>2, <1>3, <1>4, <1>5 DEF Next

(* The offsets and sizes a successful call records are those of the bytes  *)
(* it consumed, whatever the definition and the input.                     *)
THEOREM PartsTile == Spec => []PartsTileInstruction
  <1>1. Control /\ Sized /\ Layout /\ [Next]_vars => Control' /\ Sized' /\ Layout'
    BY ControlStep, SizedStep, LayoutStep
  <1>2. Control /\ Sized /\ Layout => PartsTileInstruction
    BY LayoutTiles
  <1> QED
    BY <1>1, <1>2, InitControl, InitSized, InitLayout, PTL DEF Spec

=============================================================================
