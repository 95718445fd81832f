------------------------------ MODULE Decoder ------------------------------
(***************************************************************************)
(* One call of ZydisDecoderDecodeInstruction (src/Decoder.c): the prefixes *)
(* of DecoderPrefixes, then the walk through the decoder tree down to an   *)
(* instruction definition, the parts that definition asks for, the error   *)
(* checks and the attributes.                                              *)
(*                                                                         *)
(* The tables of src/Generated are data the walk meets: "node" is the kind *)
(* of the node the walk stands on, and every handler may go to any kind    *)
(* the tables put below that node (Below).  Nodes that only choose a       *)
(* branch (MODE*, REX_W, ADDRESS_SIZE, ...) change nothing and are left    *)
(* out; "EMPTY" is an entry with offset 0.  Below the definition, "node"   *)
(* names the next step of the definition case.                             *)
(*                                                                         *)
(* Register numbers, immediate and displacement values, the payload bits   *)
(* of XOP, VEX, EVEX and MVEX beyond map and W, and attributes that no     *)
(* branch reads are left out.  What a failed call leaves in *instruction   *)
(* is not modelled beyond its status.                                      *)
(***************************************************************************)
EXTENDS DecoderPrefixes

CONSTANTS
    ModrmBytes,    \* the byte values read as ModRM
    SibBytes,      \* the byte values read as SIB
    DecoderModes,  \* the decoder->decoder_mode values, as sets of modes
    Definitions    \* the instruction definitions of the tables

Modern == {"XOP", "VEX", "EVEX", "MVEX"}
Encodings == {"LEGACY", "REX2", "3DNOW"} \cup Modern
Accepts == {"LOCK", "REP", "REPE", "REPNE", "BND", "XACQUIRE", "XRELEASE",
            "NOTRACK", "HLE_WITHOUT_LOCK", "BRANCH_HINTS", "SEGMENT"}
Parts == {"MODRM", "SIB", "DISP", "IMM0", "IMM1"}

(* A definition and the ZydisInstructionEncodingInfo of its tree node; a   *)
(* size of 0 says that the part is absent.                                 *)
IsDefinition(d) ==
    /\ d.encoding \in Encodings
    /\ d.modrm \in BOOLEAN /\ d.force_reg_form \in BOOLEAN
    /\ \A s \in {d.disp, d.imm0, d.imm1} : s \in [1 .. 3 -> {0, 8, 16, 32, 64}]
    /\ d.modrm => d.disp = <<0, 0, 0>>
    /\ d.operand_size_map \in 0 .. 7 /\ d.address_size_map \in 0 .. 2
    /\ d.accepts \subseteq Accepts
    /\ d.rejects \subseteq {"requires_protected_mode", "no_compat_mode"}

ASSUME OperandByteAssumption == ModrmBytes \cup SibBytes \subseteq 0 .. 255
ASSUME DefinitionAssumption ==
    /\ \A d \in Definitions : IsDefinition(d)
    /\ \A e \in Encodings \ {"REX2"} :
         \E d \in Definitions : d.encoding = e /\ d.accepts = {}
(* No row of InstructionDefinitions.inc sets both of these columns: a 3E   *)
(* is a hint for conditional branches, a no-track prefix for indirect ones.*)
ASSUME HintAssumption ==
    \A d \in Definitions : ~({"BRANCH_HINTS", "NOTRACK"} \subseteq d.accepts)
ASSUME DecoderModeAssumption ==
    \A m \in DecoderModes : m \subseteq {"MINIMAL", "MPX", "CET", "APX", "KNC"}

VARIABLES
    modes,      \* decoder->decoder_mode
    node,       \* the tree node, or the step of the definition case
    path,       \* the kinds of node between the opcode table and this one
    temp,       \* whether a fallback node is pending
    encoding,   \* instruction->encoding
    map,        \* instruction->opcode_map
    opcode,     \* instruction->opcode
    vectorW,    \* context->vector_unified.W
    raw,        \* offset and size in bytes of each part, 0 when absent
    modrm,      \* the ModRM byte
    sib,        \* the SIB byte
    def,        \* the definition, in a set of at most one
    eosz,       \* context->eosz_index
    easz        \* context->easz_index

treeVars == <<modes, path, temp, encoding, map, opcode, vectorW, raw, modrm,
              sib, def, eosz, easz>>
vars == <<prefixVars, node, treeVars>>

Absent == [offset |-> 0, size |-> 0]

Init ==
    /\ InitPrefixes
    /\ modes \in DecoderModes
    /\ node = "OPCODE_TABLE" /\ path = {} /\ temp = FALSE
    /\ encoding = "LEGACY" /\ map = "DEFAULT" /\ opcode = 0
    /\ vectorW = 0
    /\ raw = [p \in Parts \cup {"ESCAPE"} |-> Absent]
    /\ modrm = 0 /\ sib = 0
    /\ def = {} /\ eosz = 0 /\ easz = 0

(* ZydisCollectOptionalPrefixes; its last act is ZydisDecodeREX.           *)
Collect ==
    /\ CollectOptionalPrefixes
    /\ vectorW' = IF status' = "TREE" /\ rex # 0 THEN RexW(rex) ELSE vectorW
    /\ UNCHANGED <<modes, node, path, temp, encoding, map, opcode, raw, modrm,
                   sib, def, eosz, easz>>

-----------------------------------------------------------------------------
(* The input: ZydisInputPeek, ZydisInputNext and ZydisInputNextBytes.  A   *)
(* byte that was peeked is the next byte read.                             *)

At(n) == status = "TREE" /\ node = n
AvailableOneMore(n) ==  \* mutant: off by one at the longest instruction
    length + n <= MaxLength + 1 /\ bufferLen >= n
Available(n) == length + n <= MaxLength /\ bufferLen >= n
OneOf(S) == IF ahead = NoByte THEN S ELSE {ahead}
NextByte == OneOf(Bytes)

Consume(n) ==
    /\ Available(n)
    /\ length' = length + n
    /\ bufferLen' = bufferLen - n
    /\ ahead' = NoByte

ReadNotesEnd(p, n) ==  \* mutant: the offset is taken after the bytes
    /\ Consume(n)
    /\ raw' = [raw EXCEPT ![p] = [offset |-> length + n, size |-> n]]

Read(p, n) ==
    /\ Consume(n)
    /\ raw' = [raw EXCEPT ![p] = [offset |-> length, size |-> n]]

Fail(s) ==
    /\ status' = s
    /\ UNCHANGED <<mode, bufferLen, ahead, length, prefixes, types,
                   prefixCount, pfx, attributes, rex, rexOffset, node>>
    /\ UNCHANGED treeVars

(* What the prefix phase owns and the walk only reads.                     *)
prefixFacts == <<mode, prefixes, prefixCount, pfx, rex, rexOffset>>
input == <<bufferLen, ahead, length>>

-----------------------------------------------------------------------------
(* Generated/DecoderTables.inc: what may stand below a node.  No path      *)
(* meets a second MANDATORY_PREFIX; only the two maps named in Fallbacks   *)
(* have one with a fallback.                                               *)

BelowLegacy ==
    [OPCODE_TABLE |-> {"REX_2", "MODRM", "MANDATORY_PREFIX", "OPERAND_SIZE"},
     REX_2 |-> {"MODRM", "MANDATORY_PREFIX", "OPERAND_SIZE"},
     MODRM |-> {"MANDATORY_PREFIX", "OPERAND_SIZE"},
     MANDATORY_PREFIX |-> {"MODRM", "OPERAND_SIZE"},
     OPERAND_SIZE |-> {}]

BelowModern ==
    [OPCODE_TABLE |-> {"MODRM", "VECTOR_LENGTH"},
     MODRM |-> {"VECTOR_LENGTH"},
     VECTOR_LENGTH |-> IF encoding = "EVEX"
                       THEN {"MODRM", "EVEX_NF", "EVEX_SCC"} ELSE {"MODRM"},
     EVEX_NF |-> {},
     EVEX_SCC |-> {}]

Below(n) ==
    CASE encoding = "3DNOW" -> {"DEFINITION"}
      [] encoding \in Modern -> {"DEFINITION", "EMPTY"} \cup (BelowModern[n] \ path)
      [] OTHER -> {"DEFINITION", "EMPTY"} \cup (BelowLegacy[n] \ path)

Fallbacks == IF map \in {"DEFAULT", "0F"} THEN BOOLEAN ELSE {FALSE}

Descend(n) == node' \in Below(n) /\ path' = path \cup {n}

(* The entry of the primary table for an opcode with an encoding switch.   *)
SwitchOf(b) ==
    CASE b \in {196, 197} -> "SWITCH_TABLE_VEX"      \* C4, C5
      [] b = 98 -> "SWITCH_TABLE_EMVEX"              \* 62
      [] b = 143 -> "SWITCH_TABLE_XOP"               \* 8F
      [] b = 213 -> "SWITCH_TABLE_REX2"              \* D5
      [] OTHER -> "NONE"

EnterOpcode(b) ==
    IF encoding \notin Modern /\ map = "DEFAULT" /\ SwitchOf(b) # "NONE"
    THEN node' = SwitchOf(b) /\ path' = path
    ELSE Descend("OPCODE_TABLE")

-----------------------------------------------------------------------------
(* ZydisNodeHandlerOpcode.  The opcode byte is read first; C4, C5, 62, 8F  *)
(* and D5 go on in the steps ESCAPE and VECTOR_PREFIX.                     *)

InputFailsShortFirst(n) ==  \* mutant: the end of the input is tested first
    ~Available(n) /\ Fail(IF bufferLen < n THEN "NO_MORE_DATA"
                                           ELSE "INSTRUCTION_TOO_LONG")

InputFails(n) ==
    ~Available(n) /\ Fail(IF length + n > MaxLength THEN "INSTRUCTION_TOO_LONG"
                                                    ELSE "NO_MORE_DATA")

IsEscapeLegacy(b) ==  \* mutant: REX2 is not rejected before VEX and EVEX
    /\ map = "DEFAULT" /\ encoding = "LEGACY"
    /\ \/ b \in {196, 197, 98, 143}
       \/ b = 213 /\ "APX" \in modes /\ mode = "LONG_64"

IsEscape(b) ==
    /\ map = "DEFAULT" /\ encoding \in {"LEGACY", "REX2"}
    /\ \/ b \in {196, 197, 98}
       \/ b = 143 /\ encoding # "REX2"
       \/ b = 213 /\ "APX" \in modes /\ mode = "LONG_64"

OpcodeError(b) ==
    CASE encoding = "REX2" /\ b = 15 -> "ILLEGAL_REX2"
      [] encoding = "REX2" /\ map = "0F" /\ b \in {56, 58} -> "ILLEGAL_REX2"
      [] encoding = "REX2" /\ map = "DEFAULT" /\ b = 213 -> "DECODING_ERROR"
      [] encoding = "LEGACY" /\ map = "0F" /\ b = 15 /\ pfx.has_lock -> "ILLEGAL_LOCK"
      [] OTHER -> "NONE"

MapAfter(b) ==
    CASE encoding = "LEGACY" /\ map = "DEFAULT" /\ b = 15 -> "0F"
      [] encoding = "LEGACY" /\ map = "0F" /\ b = 15 -> "0F0F"
      [] encoding = "LEGACY" /\ map = "0F" /\ b = 56 -> "0F38"
      [] encoding = "LEGACY" /\ map = "0F" /\ b = 58 -> "0F3A"
      [] OTHER -> map

OpcodeFails ==
    /\ At("OPCODE_TABLE") /\ encoding # "3DNOW"
    /\ \/ InputFails(1)
       \/ /\ Available(1)
          /\ \E b \in NextByte : OpcodeError(b) # "NONE" /\ Fail(OpcodeError(b))

Opcode(b) ==
    /\ At("OPCODE_TABLE") /\ encoding # "3DNOW"
    /\ b \in NextByte /\ OpcodeError(b) = "NONE"
    /\ Consume(1)
    /\ opcode' = b
    /\ map' = MapAfter(b)
    /\ encoding' = IF map' = "0F0F" THEN "3DNOW" ELSE encoding
    /\ IF IsEscape(b) THEN node' = "ESCAPE" /\ path' = path
       ELSE IF map' # map THEN node' = "OPCODE_TABLE" /\ path' = path
       ELSE EnterOpcode(b)
    /\ UNCHANGED <<prefixFacts, types, attributes, status, modes, temp,
                   vectorW, raw, modrm, sib, def, eosz, easz>>

(* 0F 0F: the entry of "a random (pi2fw) instruction"; nothing is read.    *)
Opcode3DNow ==
    /\ At("OPCODE_TABLE") /\ encoding = "3DNOW"
    /\ node' = "MODRM" /\ path' = path \cup {"OPCODE_TABLE"}
    /\ UNCHANGED <<prefixFacts, input, types, attributes, status, modes, temp,
                   encoding, map, opcode, vectorW, raw, modrm, sib, def, eosz,
                   easz>>

(* The peeked byte decides whether C4, C5, 62 or 8F starts a prefix.       *)
IsPayload(p) ==
    IF opcode = 143 THEN p % 32 >= 8 ELSE p >= 192 \/ mode = "LONG_64"

EscapeErrorNoLock ==  \* mutant: the lock test is forgotten
    IF "HAS_REX" \in attributes THEN "ILLEGAL_REX"
    ELSE IF encoding = "REX2" THEN "ILLEGAL_REX2"
    ELSE IF pfx.mandatory_candidate # 0 THEN "ILLEGAL_LEGACY_PFX"
    ELSE "NONE"

EscapeError ==
    IF "HAS_REX" \in attributes THEN "ILLEGAL_REX"
    ELSE IF encoding = "REX2" THEN "ILLEGAL_REX2"
    ELSE IF pfx.has_lock THEN "ILLEGAL_LOCK"
    ELSE IF pfx.mandatory_candidate # 0 THEN "ILLEGAL_LEGACY_PFX"
    ELSE "NONE"

EscapeFails ==
    /\ At("ESCAPE") /\ opcode # 213
    /\ \/ InputFails(1)
       \/ /\ Available(1) /\ EscapeError # "NONE"
          /\ \E p \in NextByte : IsPayload(p) /\ Fail(EscapeError)

Escape(p) ==
    /\ At("ESCAPE") /\ opcode # 213
    /\ Available(1) /\ p \in NextByte
    /\ IsPayload(p) => EscapeError = "NONE"
    /\ ahead' = p
    /\ node' = IF IsPayload(p) THEN "VECTOR_PREFIX" ELSE SwitchOf(opcode)
    /\ UNCHANGED <<prefixFacts, bufferLen, length, types, attributes, status>>
    /\ UNCHANGED treeVars

-----------------------------------------------------------------------------
(* ZydisDecodeXOP, ZydisDecodeVEX, ZydisDecodeEVEX, ZydisDecodeMVEX: the   *)
(* second prefix byte names the map, W is one bit of the bytes after it.   *)

PayloadBytes == CASE opcode \in {196, 143} -> 2 [] opcode = 197 -> 1 [] opcode = 98 -> 3

PrefixEncoding ==
    CASE opcode \in {196, 197} -> "VEX"
      [] opcode = 143 -> "XOP"
      [] opcode = 98 -> IF "KNC" \in modes THEN "MVEX" ELSE "EVEX"

HasPrefix == [XOP |-> "HAS_XOP", VEX |-> "HAS_VEX", EVEX |-> "HAS_EVEX",
              MVEX |-> "HAS_MVEX", REX2 |-> "HAS_REX2"]

MapNames == <<"DEFAULT", "0F", "0F38", "0F3A", "MAP4", "MAP5", "MAP6", "MAP7",
              "XOP8", "XOP9", "XOPA">>

MapNumber(p) ==
    CASE opcode = 197 -> 1
      [] PrefixEncoding = "EVEX" -> p % 8
      [] PrefixEncoding = "MVEX" -> p % 16
      [] OTHER -> p % 32

ValidMaps ==
    CASE PrefixEncoding = "XOP" -> 8 .. 10
      [] PrefixEncoding = "EVEX" -> 1 .. 7
      [] OTHER -> 0 .. 3

ModeForbids ==
    IF PrefixEncoding = "MVEX" THEN mode # "LONG_64" ELSE mode = "REAL_16"

MapValid(p) == MapNumber(p) \in ValidMaps

(* Bit B4 of EVEX must be clear without APX.                               *)
B4Forbidden(p) ==
    PrefixEncoding = "EVEX" /\ "APX" \notin modes /\ (p \div 8) % 2 = 1

(* Behind a valid map the prefix may fail for payload bits left out here.  *)
BitErrors == [EVEX |-> {"MALFORMED_EVEX", "INVALID_MASK"},
              MVEX |-> {"MALFORMED_MVEX"}, VEX |-> {}, XOP |-> {}]

PayloadErrors(p) ==
    IF ModeForbids THEN {"DECODING_ERROR"}
    ELSE IF B4Forbidden(p) THEN {"MALFORMED_EVEX"}
    ELSE IF MapValid(p) THEN BitErrors[PrefixEncoding] ELSE {"INVALID_MAP"}

VectorPrefixFails ==
    /\ At("VECTOR_PREFIX")
    /\ \/ InputFails(PayloadBytes)
       \/ /\ Available(PayloadBytes)
          /\ \E e \in PayloadErrors(ahead) : Fail(e)

VectorPrefix(w) ==
    /\ At("VECTOR_PREFIX")
    /\ ~ModeForbids /\ ~B4Forbidden(ahead) /\ MapValid(ahead)
    /\ opcode = 197 => w = 0
    /\ Consume(PayloadBytes)
    /\ raw' = [raw EXCEPT !.ESCAPE = [offset |-> length - 1,
                                      size |-> 1 + PayloadBytes]]
    /\ encoding' = PrefixEncoding
    /\ attributes' = attributes \cup {HasPrefix[PrefixEncoding]}
    /\ map' = MapNames[MapNumber(ahead) + 1]
    /\ vectorW' = w
    /\ node' = SwitchOf(opcode)
    /\ UNCHANGED <<prefixFacts, types, status, modes, path, temp, opcode,
                   modrm, sib, def, eosz, easz>>

(* D5 in 64-bit mode with APX: the payload is read before a REX prefix is  *)
(* looked at.  A REX prefix that is not adjacent is marked as not used.    *)
Rex2Adjacent == "HAS_REX" \in attributes /\ rexOffset = length - 2

Rex2Fails ==
    /\ At("ESCAPE") /\ opcode = 213
    /\ \/ InputFails(1)
       \/ Available(1) /\ Rex2Adjacent /\ Fail("ILLEGAL_REX")

Rex2(w, m0) ==
    /\ At("ESCAPE") /\ opcode = 213
    /\ ~Rex2Adjacent
    /\ Consume(1)
    /\ raw' = [raw EXCEPT !.ESCAPE = [offset |-> length - 1, size |-> 2]]
    /\ types' = IF "HAS_REX" \in attributes
                THEN [types EXCEPT ![rexOffset] = "IGNORED"] ELSE types
    /\ attributes' = attributes \cup {HasPrefix.REX2}
    /\ vectorW' = w
    /\ encoding' = "REX2"
    /\ map' = MapNames[m0 + 1]
    /\ node' = "SWITCH_TABLE_REX2"
    /\ UNCHANGED <<prefixFacts, status, modes, path, temp, opcode, modrm, sib,
                   def, eosz, easz>>

-----------------------------------------------------------------------------
(* The switch handlers: index 0 is the opcode's own meaning, the others    *)
(* are the opcode table of the map.  An encoding a handler does not expect *)
(* is ZYAN_UNREACHABLE.                                                    *)

Expected ==
    CASE node = "SWITCH_TABLE_XOP" -> {"XOP"}
      [] node = "SWITCH_TABLE_VEX" -> {"VEX"}
      [] node = "SWITCH_TABLE_EMVEX" -> {"EVEX", "MVEX"}
      [] node = "SWITCH_TABLE_REX2" -> {"REX2"}
      [] OTHER -> {}

OwnMeaning ==
    IF node = "SWITCH_TABLE_XOP" THEN {"LEGACY", "REX2"} ELSE {"LEGACY"}

SwitchTable ==
    /\ status = "TREE" /\ Expected # {}
    /\ IF encoding \notin Expected \cup OwnMeaning THEN Fail("UNREACHABLE")
       ELSE /\ node' \in (IF encoding \in Expected THEN {"OPCODE_TABLE", "EMPTY"}
                          ELSE {"MODRM", "DEFINITION", "EMPTY"})
            /\ UNCHANGED <<prefixFacts, input, types, attributes, status>>
            /\ UNCHANGED treeVars

(* ZYDIS_NODETYPE_REX_2: only the entry for a REX2 prefix is ever empty.   *)
Rex2Node ==
    /\ At("REX_2")
    /\ Descend("REX_2")
    /\ encoding # "REX2" => node' # "EMPTY"
    /\ UNCHANGED <<prefixFacts, input, types, attributes, status, modes, temp,
                   encoding, map, opcode, vectorW, raw, modrm, sib, def, eosz,
                   easz>>

(* ZydisNodeHandlerModrmMod, ..ModrmModCompact, ..ModrmReg and ..ModrmRm:  *)
(* the byte is read by the first of them.                                  *)
ReadModrm ==
    IF raw.MODRM.size = 0
    THEN Read("MODRM", 1) /\ modrm' \in OneOf(ModrmBytes)
    ELSE UNCHANGED <<bufferLen, ahead, length, raw, modrm>>

ModrmFails == At("MODRM") /\ raw.MODRM.size = 0 /\ InputFails(1)

Modrm ==
    /\ At("MODRM")
    /\ ReadModrm
    /\ Descend("MODRM")
    /\ UNCHANGED <<prefixFacts, types, attributes, status, modes, temp,
                   encoding, map, opcode, vectorW, sib, def, eosz, easz>>

(* ZydisNodeHandlerMandatoryPrefix, and "temp" in its caller.              *)
StillOverride == attributes  \* mutant: a consumed 66 stays an override
Unconsumed == IF pfx.mandatory_candidate = OSZ
              THEN attributes \ {"HAS_OPERANDSIZE"} ELSE attributes

MandatoryPrefix ==
    /\ At("MANDATORY_PREFIX")
    /\ types' = IF pfx.mandatory_candidate = 0 THEN types
                ELSE [types EXCEPT ![pfx.offset_mandatory] = "MANDATORY"]
    /\ attributes' = Unconsumed
    /\ \E fallback \in Fallbacks : temp' = (temp \/ fallback)
    /\ Descend("MANDATORY_PREFIX")
    /\ UNCHANGED <<prefixFacts, input, status, modes, encoding, map, opcode,
                   vectorW, raw, modrm, sib, def, eosz, easz>>

(* ZydisNodeHandlerOperandSize.                                            *)
OperandSize ==
    /\ At("OPERAND_SIZE")
    /\ types' = IF \/ mode = "LONG_64" /\ vectorW = 1
                   \/ "HAS_OPERANDSIZE" \notin attributes
                THEN types
                ELSE [types EXCEPT ![pfx.offset_osz_override] = "EFFECTIVE"]
    /\ Descend("OPERAND_SIZE")
    /\ UNCHANGED <<prefixFacts, input, attributes, status, modes, temp,
                   encoding, map, opcode, vectorW, raw, modrm, sib, def, eosz,
                   easz>>

(* ZydisNodeHandlerVectorLength, ZydisNodeHandlerEvexNF and ..EvexSCC: the *)
(* bits of an EVEX payload can refuse the node.                            *)
VectorNodes == {"VECTOR_LENGTH", "EVEX_NF", "EVEX_SCC"}

VectorNodeFails ==
    /\ status = "TREE" /\ node \in VectorNodes
    /\ encoding \notin {"XOP", "VEX", "MVEX"}
    /\ Fail(IF encoding \in Modern THEN "DECODING_ERROR" ELSE "UNREACHABLE")

VectorNode ==
    /\ status = "TREE" /\ node \in VectorNodes
    /\ encoding \in Modern
    /\ node = "VECTOR_LENGTH" \/ encoding = "EVEX"
    /\ Descend(node)
    /\ UNCHANGED <<prefixFacts, input, types, attributes, status, modes, temp,
                   encoding, map, opcode, vectorW, raw, modrm, sib, def, eosz,
                   easz>>

(* An entry with offset 0: back to the pending fallback, which gives the   *)
(* consumed prefix back, or the end.                                       *)
NoEntry == At("EMPTY") /\ ~temp /\ Fail("DECODING_ERROR")

GivenBackIgnored ==  \* mutant: a 66 given back is not an override again
    [i \in Slots |-> IF pfx.mandatory_candidate = 0 \/ i # pfx.offset_mandatory
                     THEN types[i] ELSE "IGNORED"]

GivenBack ==
    [i \in Slots |->
       IF pfx.mandatory_candidate = 0 \/ i # pfx.offset_mandatory THEN types[i]
       ELSE IF pfx.mandatory_candidate = OSZ
                 /\ pfx.offset_osz_override = pfx.offset_mandatory THEN "EFFECTIVE"
       ELSE "IGNORED"]

FallbackState ==
    /\ path' = {"MANDATORY_PREFIX"}
    /\ node' \in {"DEFINITION", "EMPTY"} \cup BelowLegacy.MANDATORY_PREFIX
    /\ types' = GivenBack
    /\ attributes' = IF pfx.mandatory_candidate = OSZ
                     THEN attributes \cup {"HAS_OPERANDSIZE"} ELSE attributes
    /\ UNCHANGED <<prefixFacts, input, status, modes, encoding, map, opcode,
                   vectorW, raw, modrm, sib, def, eosz, easz>>

FallbackPending ==  \* mutant: the fallback stays pending
    At("EMPTY") /\ temp /\ UNCHANGED temp /\ FallbackState

Fallback == At("EMPTY") /\ temp /\ temp' = FALSE /\ FallbackState

-----------------------------------------------------------------------------
(* ZYDIS_NODETYPE_DEFINITION: ZydisSetEffectiveOperandWidth and            *)
(* ZydisSetEffectiveAddressWidth.  The columns are 16, 16+66, 32, 32+66,   *)
(* 64, 64+66, 64+W, 64+66+W.                                               *)

OperandSizeMap ==
    << <<16, 32, 32, 16, 32, 16, 64, 64>>, <<16, 32, 32, 16, 32, 16, 64, 64>>,
       <<16, 16, 32, 32, 32, 32, 64, 64>>, <<16, 32, 32, 16, 32, 16, 32, 32>>,
       <<16, 32, 32, 16, 64, 16, 64, 64>>, <<16, 32, 32, 16, 64, 64, 64, 64>>,
       <<32, 32, 32, 32, 32, 32, 64, 64>>, <<32, 32, 32, 32, 64, 64, 64, 64>> >>

AddressSizeMap ==
    << <<16, 32, 32, 16, 64, 32>>, <<16, 16, 32, 32, 64, 64>>,
       <<32, 32, 32, 32, 64, 64>> >>

ModeColumn ==
    CASE mode \in {"LONG_COMPAT_32", "LEGACY_32"} -> 2
      [] mode = "LONG_64" -> 4
      [] OTHER -> 0

Column(override) == ModeColumn + (IF override THEN 1 ELSE 0)

OperandWidth(d, override) ==
    OperandSizeMap[d.operand_size_map + 1]
                  [1 + Column(override) + (IF mode = "LONG_64" THEN 2 * vectorW ELSE 0)]

AddressWidth(d) ==
    AddressSizeMap[d.address_size_map + 1][1 + Column("HAS_ADDRESSSIZE" \in attributes)]

(* The tables keep definitions that accept prefixes of group 1 or LOCK off *)
(* the paths that consumed such a prefix, except the string instructions.  *)
Reached(d) ==
    /\ d.encoding = IF encoding = "REX2" THEN "LEGACY" ELSE encoding
    /\ \A i \in Slots :
         types[i] = "MANDATORY" =>
           d.accepts \subseteq {"SEGMENT"} \cup
             (IF prefixes[i] = OSZ THEN {} ELSE {"REP", "REPE", "REPNE"})

(* The 66 of map 4 is both mandatory and an override: an EVEX payload bit. *)
Definition(d) ==
    /\ At("DEFINITION") /\ Reached(d)
    /\ def' = {d}
    /\ \E pp66 \in IF encoding = "EVEX" /\ map = "MAP4" THEN BOOLEAN ELSE {FALSE} :
         eosz' = OperandWidth(d, pp66 \/ "HAS_OPERANDSIZE" \in attributes) \div 32
    /\ easz' = AddressWidth(d) \div 32
    /\ node' = "MODRM_PART"
    /\ path' = path \cap {"MANDATORY_PREFIX"}
    /\ UNCHANGED <<prefixFacts, input, types, attributes, status, modes, temp,
                   encoding, map, opcode, vectorW, raw, modrm, sib>>

-----------------------------------------------------------------------------
(* ZydisDecodeOptionalInstructionParts: one step per part, in this order.  *)

TheDef == CHOOSE d \in def : TRUE
Mod(b) == b \div 64
Rm(b) == b % 8

PartNodes == <<"MODRM_PART", "SIB_PART", "DISP_PART", "IMM0_PART", "IMM1_PART",
               "CHECK">>
PartOf == [MODRM_PART |-> "MODRM", SIB_PART |-> "SIB", DISP_PART |-> "DISP",
           IMM0_PART |-> "IMM0", IMM1_PART |-> "IMM1"]
NextPart == PartNodes[1 + CHOOSE i \in 1 .. 5 : PartNodes[i] = node]

HasMemoryForm == TheDef.modrm /\ ~TheDef.force_reg_form
HasSib == HasMemoryForm /\ easz # 0 /\ Mod(modrm) # 3 /\ Rm(modrm) = 4

(* The displacement that ModRM and SIB ask for, in bits.                   *)
ModrmDisplacement ==
    LET large == IF easz = 0 THEN 16 ELSE 32
        direct == IF easz = 0 THEN 6 ELSE 5
    IN  IF raw.SIB.size > 0 /\ Rm(sib) = 5
        THEN IF Mod(modrm) = 1 THEN 8 ELSE 32
        ELSE CASE Mod(modrm) = 0 -> IF Rm(modrm) = direct THEN large ELSE 0
               [] Mod(modrm) = 1 -> 8
               [] Mod(modrm) = 2 -> large
               [] Mod(modrm) = 3 -> 0

PartSize ==
    CASE node = "MODRM_PART" -> IF TheDef.modrm /\ raw.MODRM.size = 0 THEN 1 ELSE 0
      [] node = "SIB_PART" -> IF HasSib THEN 1 ELSE 0
      [] node = "DISP_PART" -> (IF HasMemoryForm THEN ModrmDisplacement
                                ELSE TheDef.disp[easz + 1]) \div 8
      [] node = "IMM0_PART" -> TheDef.imm0[eosz + 1] \div 8
      [] node = "IMM1_PART" -> TheDef.imm1[eosz + 1] \div 8

AtPart == status = "TREE" /\ node \in DOMAIN PartOf

PartFails == AtPart /\ PartSize > 0 /\ InputFails(PartSize)

Part ==
    /\ AtPart
    /\ IF PartSize = 0
       THEN UNCHANGED <<bufferLen, ahead, length, raw, modrm, sib>>
       ELSE /\ Read(PartOf[node], PartSize)
            /\ IF node = "MODRM_PART" THEN modrm' \in OneOf(ModrmBytes) ELSE modrm' = modrm
            /\ IF node = "SIB_PART" THEN sib' \in OneOf(SibBytes) ELSE sib' = sib
    /\ node' = NextPart
    /\ UNCHANGED <<prefixFacts, types, attributes, status, modes, path, temp,
                   encoding, map, opcode, vectorW, def, eosz, easz>>

-----------------------------------------------------------------------------
(* ZydisCheckErrorConditions.  The checks on register numbers, masks and   *)
(* MVEX functions depend on what is left out: they may fail for any        *)
(* instruction that has such operands.                                     *)

ModeRejects ==
    \/ "requires_protected_mode" \in TheDef.rejects /\ mode = "REAL_16"
    \/ "no_compat_mode" \in TheDef.rejects
         /\ mode \in {"LONG_COMPAT_16", "LONG_COMPAT_32"}

PrefixError ==
    IF encoding \notin {"LEGACY", "REX2"} THEN "NONE"
    ELSE IF ModeRejects THEN "DECODING_ERROR"
    ELSE IF pfx.has_lock /\ "LOCK" \notin TheDef.accepts THEN "ILLEGAL_LOCK"
    ELSE "NONE"

OperandErrors ==
    {"BAD_REGISTER"} \cup
    (IF encoding \in {"EVEX", "MVEX"} THEN {"INVALID_MASK"} ELSE {}) \cup
    (IF encoding = "MVEX" THEN {"DECODING_ERROR"} ELSE {})

CheckFails ==
    /\ At("CHECK")
    /\ IF PrefixError # "NONE" THEN Fail(PrefixError)
       ELSE \E e \in OperandErrors : Fail(e)

CheckErrorConditions ==
    /\ At("CHECK")
    /\ PrefixError = "NONE"
    /\ node' = IF encoding = "3DNOW" THEN "3DNOW_OPCODE" ELSE "ATTRIBUTES"
    /\ UNCHANGED <<prefixFacts, input, types, attributes, status>>
    /\ UNCHANGED treeVars

(* The opcode of a 3DNow! instruction follows its operands.                *)
ThreeDNowFails ==
    /\ At("3DNOW_OPCODE")
    /\ \/ InputFails(1)
       \/ Available(1) /\ Fail("DECODING_ERROR")

ThreeDNowOpcode(d) ==
    /\ At("3DNOW_OPCODE")
    /\ d.encoding = "3DNOW"
    /\ opcode' \in NextByte
    /\ Consume(1)
    /\ def' = {d}
    /\ node' = "ATTRIBUTES"
    /\ UNCHANGED <<prefixFacts, types, attributes, status, modes, path, temp,
                   encoding, map, vectorW, raw, modrm, sib, eosz, easz>>

-----------------------------------------------------------------------------
(* ZydisSetAttributes.                                                     *)

Takes(a) == a \in TheDef.accepts
IsLegacy == encoding \in {"LEGACY", "REX2"}

LockAttribute ==
    IF IsLegacy /\ Takes("LOCK") /\ pfx.has_lock THEN {"HAS_LOCK"} ELSE {}

Elides == LockAttribute # {} \/ Takes("HLE_WITHOUT_LOCK")

Group1Attribute ==
    CASE ~IsLegacy -> {}
      [] pfx.group1 = REPNE /\ Takes("REPNE") -> {"HAS_REPNE"}
      [] pfx.group1 = REPNE /\ ~Takes("REPNE") /\ Takes("XACQUIRE") /\ Elides
           -> {"HAS_XACQUIRE"}
      [] pfx.group1 = REPNE /\ ~Takes("REPNE") /\ ~(Takes("XACQUIRE") /\ Elides)
           /\ "MPX" \in modes /\ Takes("BND") -> {"HAS_BND"}
      [] pfx.group1 = REP /\ Takes("REP") -> {"HAS_REP"}
      [] pfx.group1 = REP /\ ~Takes("REP") /\ Takes("REPE") -> {"HAS_REPE"}
      [] pfx.group1 = REP /\ ~Takes("REP") /\ ~Takes("REPE")
           /\ Takes("XRELEASE") /\ Elides -> {"HAS_XRELEASE"}
      [] OTHER -> {}

BranchAttribute ==
    CASE IsLegacy /\ Takes("BRANCH_HINTS") /\ pfx.group2 = CS -> {"HAS_BRANCH_NOT_TAKEN"}
      [] IsLegacy /\ Takes("BRANCH_HINTS") /\ pfx.group2 = DS -> {"HAS_BRANCH_TAKEN"}
      [] OTHER -> {}

NotrackAttribute ==
    IF /\ IsLegacy /\ Takes("NOTRACK") /\ "CET" \in modes
       /\ pfx.offset_notrack >= 0
    THEN {"HAS_NOTRACK"} ELSE {}

SegmentName == [b \in Group2 |->
    CASE b = CS -> "HAS_SEGMENT_CS" [] b = SS -> "HAS_SEGMENT_SS"
      [] b = DS -> "HAS_SEGMENT_DS" [] b = ES -> "HAS_SEGMENT_ES"
      [] b = FS -> "HAS_SEGMENT_FS" [] b = GS -> "HAS_SEGMENT_GS"]

SegmentBesidesNotrack ==  \* mutant: no-track does not rule out a segment
    IF /\ Takes("SEGMENT") /\ pfx.effective_segment # 0
       /\ IsLegacy => ~Takes("BRANCH_HINTS")
    THEN {SegmentName[pfx.effective_segment]} ELSE {}

SegmentAttribute ==
    IF /\ Takes("SEGMENT") /\ pfx.effective_segment # 0
       /\ IsLegacy => ~Takes("BRANCH_HINTS") /\ NotrackAttribute = {}
    THEN {SegmentName[pfx.effective_segment]} ELSE {}

Mark(attribute, offset) == IF attribute = {} THEN {} ELSE {offset}

Group1MarkElsewhere == Mark(Group1Attribute, pfx.offset_lock)  \* mutant

Group1Mark ==
    IF types[pfx.offset_group1] = "IGNORED"
    THEN Mark(Group1Attribute, pfx.offset_group1) ELSE {}

NowEffective ==
    Mark(LockAttribute, pfx.offset_lock) \cup Group1Mark
    \cup Mark(BranchAttribute, pfx.offset_group2)
    \cup Mark(NotrackAttribute, pfx.offset_notrack)
    \cup Mark(SegmentAttribute, pfx.offset_segment)

SetAttributes ==
    /\ attributes' = attributes \cup LockAttribute \cup Group1Attribute
         \cup BranchAttribute \cup NotrackAttribute \cup SegmentAttribute
    /\ types' = [i \in Slots |-> IF i \in NowEffective THEN "EFFECTIVE"
                                                       ELSE types[i]]

(* The end of the definition case.                                         *)
Succeed ==
    /\ At("ATTRIBUTES")
    /\ IF "MINIMAL" \in modes THEN UNCHANGED <<attributes, types>>
                              ELSE SetAttributes
    /\ status' = "SUCCESS"
    /\ UNCHANGED <<prefixFacts, input, node>>
    /\ UNCHANGED treeVars

-----------------------------------------------------------------------------
Walk ==
    \/ OpcodeFails \/ (\E b \in Bytes : Opcode(b)) \/ Opcode3DNow
    \/ EscapeFails \/ (\E p \in Bytes : Escape(p))
    \/ VectorPrefixFails \/ (\E w \in 0 .. 1 : VectorPrefix(w))
    \/ Rex2Fails \/ (\E w, m0 \in 0 .. 1 : Rex2(w, m0))
    \/ SwitchTable
    \/ Rex2Node
    \/ ModrmFails \/ Modrm
    \/ MandatoryPrefix \/ OperandSize
    \/ VectorNodeFails \/ VectorNode
    \/ NoEntry \/ Fallback

Decode ==
    \/ \E d \in Definitions : Definition(d)
    \/ PartFails \/ Part
    \/ CheckFails \/ CheckErrorConditions
    \/ ThreeDNowFails \/ (\E d \in Definitions : ThreeDNowOpcode(d))
    \/ Succeed

Next == Collect \/ Walk \/ Decode

Spec == Init /\ [][Next]_vars

(* The call runs on its caller's thread and waits for nothing.             *)
FairSpec == Spec /\ WF_vars(Next)

-----------------------------------------------------------------------------
Nodes == {"OPCODE_TABLE", "ESCAPE", "VECTOR_PREFIX", "SWITCH_TABLE_XOP",
          "SWITCH_TABLE_VEX", "SWITCH_TABLE_EMVEX", "SWITCH_TABLE_REX2",
          "REX_2", "MODRM", "MANDATORY_PREFIX", "OPERAND_SIZE", "EMPTY",
          "DEFINITION", "3DNOW_OPCODE", "ATTRIBUTES"}
         \cup VectorNodes \cup {PartNodes[i] : i \in 1 .. 6}

Errors == {"NO_MORE_DATA", "INSTRUCTION_TOO_LONG", "DECODING_ERROR",
           "ILLEGAL_LOCK", "ILLEGAL_LEGACY_PFX", "ILLEGAL_REX",
           "ILLEGAL_REX2", "INVALID_MAP", "MALFORMED_EVEX", "MALFORMED_MVEX",
           "INVALID_MASK", "BAD_REGISTER", "UNREACHABLE"}

EncodingAttributes ==
    {"HAS_REX", "HAS_REX2", "HAS_XOP", "HAS_VEX", "HAS_EVEX", "HAS_MVEX"}
RepeatAttributes ==
    {"HAS_REP", "HAS_REPE", "HAS_REPNE", "HAS_BND", "HAS_XACQUIRE", "HAS_XRELEASE"}
BranchAttributes == {"HAS_BRANCH_TAKEN", "HAS_BRANCH_NOT_TAKEN"}
SegmentAttributes == {SegmentName[b] : b \in Group2}
Attributes == {"HAS_OPERANDSIZE", "HAS_ADDRESSSIZE", "HAS_LOCK", "HAS_NOTRACK"}
    \cup EncodingAttributes \cup RepeatAttributes \cup BranchAttributes
    \cup SegmentAttributes

(* Every field has its type: no count leaves the arrays of 15 and no part  *)
(* starts beyond the longest instruction.                                  *)
TypeOK ==
    /\ mode \in Modes /\ modes \in DecoderModes
    /\ bufferLen \in Nat /\ length \in 0 .. MaxLength
    /\ ahead \in Bytes \cup {NoByte}
    /\ prefixes \in [Slots -> Bytes \cup {0}] /\ types \in [Slots -> PrefixTypes]
    /\ prefixCount \in 0 .. length /\ pfx \in PrefixState
    /\ attributes \subseteq Attributes
    /\ rex \in Bytes \cup {0} /\ rexOffset \in Slots
    /\ status \in {"PREFIXES", "TREE", "SUCCESS"} \cup Errors
    /\ node \in Nodes /\ path \subseteq Nodes /\ temp \in BOOLEAN
    /\ encoding \in Encodings
    /\ map \in {MapNames[i] : i \in 1 .. 11} \cup {"0F0F"}
    /\ opcode \in Bytes \cup {0}
    /\ modrm \in ModrmBytes \cup Bytes \cup {0} /\ sib \in SibBytes \cup {0}
    /\ vectorW \in 0 .. 1
    /\ raw \in [Parts \cup {"ESCAPE"} -> [offset : 0 .. MaxLength, size : 0 .. 8]]
    /\ def \in {{}} \cup {{d} : d \in Definitions}
    /\ eosz \in 0 .. 2 /\ easz \in 0 .. 2

(***************************************************************************)
(* The bytes of a decoded instruction.                                     *)
(***************************************************************************)
OpcodeBytes ==
    IF encoding \in Modern \cup {"REX2"} \/ map = "DEFAULT" THEN 1
    ELSE IF map \in {"0F", "0F0F"} THEN 2
    ELSE 3

PartStart ==
    LET head == prefixCount + raw.ESCAPE.size + OpcodeBytes
        s == raw.MODRM.size + head
        d == raw.SIB.size + s
        i == raw.DISP.size + d
    IN  [MODRM |-> head, SIB |-> s, DISP |-> d, IMM0 |-> i,
         IMM1 |-> i + raw.IMM0.size]

(* The recorded offsets and sizes describe the bytes the call consumed:    *)
(* prefixes, encoding prefix, opcode, ModRM, SIB, displacement and         *)
(* immediates follow each other without gap or overlap, and instruction->  *)
(* length is their end (a 3DNow! instruction has its opcode after them).   *)
PartsTileInstruction ==
    status = "SUCCESS" =>
      /\ raw.ESCAPE.size > 0 => raw.ESCAPE.offset = prefixCount
      /\ \A p \in Parts :
           raw[p].offset = IF raw[p].size = 0 THEN 0 ELSE PartStart[p]
      /\ length = PartStart.IMM1 + raw.IMM1.size
                    + (IF encoding = "3DNOW" THEN 1 ELSE 0)

(* NO_MORE_DATA tells the caller to come back with more input: a caller    *)
(* who passed 15 bytes or more never gets it, however the bytes are read.  *)
FullWindowSuffices ==
    status = "NO_MORE_DATA" => bufferLen + length < MaxLength

(* No switch meets a value it marks with ZYAN_UNREACHABLE: the opcode      *)
(* handler rejects every second encoding prefix before the walk gets to    *)
(* the switch node of another encoding.                                    *)
NeverUnreachable == status # "UNREACHABLE"

(* Every call returns: the walk cannot loop, since a fallback is taken at  *)
(* most once.                                                              *)
Terminates == <>(status \notin {"PREFIXES", "TREE"})

(***************************************************************************)
(* What the prefixes of a decoded instruction mean.                        *)
(***************************************************************************)
Consumed == {i \in Slots : types[i] = "MANDATORY"}
Walking == status = "TREE"

(* Until the attributes are set, the marks of the prefixes are those the   *)
(* collection left, except that one prefix may be consumed: the candidate  *)
(* for the mandatory prefix, and only behind a MANDATORY_PREFIX node whose *)
(* fallback has not been taken.  HAS_OPERANDSIZE is absent exactly while a *)
(* 66 is consumed.                                                         *)
ConsumptionAccounted ==
    Walking =>
      /\ \A i \in Consumed :
           /\ "MANDATORY_PREFIX" \in path
           /\ IF Present(Group1) # {} THEN Last(i, Group1) ELSE First(i, {OSZ})
      /\ \A i \in Slots \ Consumed :
           types[i] = IF \/ Last(i, {OSZ}) \/ Last(i, {ASZ})
                         \/ "HAS_REX" \in attributes /\ i = prefixCount - 1
                      THEN "EFFECTIVE" ELSE "IGNORED"
      /\ ("HAS_OPERANDSIZE" \in attributes) =
           (Present({OSZ}) # {} /\ \A i \in Consumed : prefixes[i] # OSZ)

(* Taking the fallback undoes the consumption completely: afterwards no    *)
(* prefix is mandatory and a 66 is an operand-size override again.         *)
FallbackRestores ==
    [][temp /\ ~temp' =>
         /\ \A i \in Slots : types'[i] # "MANDATORY"
         /\ ("HAS_OPERANDSIZE" \in attributes') = (Present({OSZ}) # {})
         /\ \A i \in Slots : Last(i, {OSZ}) => types'[i] = "EFFECTIVE"]_vars

(* No prefix that an instruction may not have is dropped silently: a       *)
(* decoded instruction with an F0 is locked, XOP, VEX, EVEX and MVEX       *)
(* instructions have none of F0, 66, F2, F3 and REX, and no instruction    *)
(* has two of REX, REX2, XOP, VEX, EVEX and MVEX.                          *)
NoPrefixDropped ==
    status = "SUCCESS" =>
      /\ Present({LOCK}) # {} /\ "MINIMAL" \notin modes => "HAS_LOCK" \in attributes
      /\ encoding \in Modern => Present({LOCK, OSZ} \cup Group1) = {}
      /\ attributes \cap EncodingAttributes =
           CASE encoding \in Modern \cup {"REX2"} -> {HasPrefix[encoding]}
             [] OTHER -> IF prefixCount > 0 /\ IsRex(prefixes[prefixCount - 1])
                         THEN {"HAS_REX"} ELSE {}

(* The attributes that say what prefix i does.                             *)
Effects(i) ==
    {a \in attributes :
       \/ a = "HAS_LOCK" /\ Last(i, {LOCK})
       \/ a \in {"HAS_REPNE", "HAS_XACQUIRE", "HAS_BND"}
            /\ Last(i, Group1) /\ prefixes[i] = REPNE
       \/ a \in {"HAS_REP", "HAS_REPE", "HAS_XRELEASE"}
            /\ Last(i, Group1) /\ prefixes[i] = REP
       \/ a = "HAS_BRANCH_TAKEN" /\ Last(i, Group2) /\ prefixes[i] = DS
       \/ a = "HAS_BRANCH_NOT_TAKEN" /\ Last(i, Group2) /\ prefixes[i] = CS
       \/ a = "HAS_NOTRACK" /\ Last(i, {DS})
       \/ /\ i \in Present(IF mode = "LONG_64" THEN NewSegments ELSE Group2)
          /\ Last(i, IF mode = "LONG_64" THEN NewSegments ELSE Group2)
          /\ a = SegmentName[prefixes[i]]}

(* The attributes of a decoded instruction and the marks of its prefixes   *)
(* tell one story: each attribute names a prefix that is there and is      *)
(* marked as used, and a prefix other than 66, 67 and REX is EFFECTIVE     *)
(* only if an attribute says what for.                                     *)
MarksMatchAttributes ==
    status = "SUCCESS" /\ "MINIMAL" \notin modes =>
      /\ \A a \in attributes \cap
             ({"HAS_LOCK", "HAS_NOTRACK"} \cup RepeatAttributes
                \cup BranchAttributes \cup SegmentAttributes) :
           \E i \in 0 .. prefixCount - 1 : a \in Effects(i) /\ types[i] # "IGNORED"
      /\ \A i \in Slots :
           types[i] = "EFFECTIVE" =>
             \/ Last(i, {OSZ}) \/ Last(i, {ASZ})
             \/ i = prefixCount - 1 /\ IsRex(prefixes[i])
             \/ Effects(i) # {}

(* One prefix byte is never given two meanings: at most one repeat-like    *)
(* attribute, at most one segment, and a 3E is not both a no-track prefix  *)
(* and a DS override.  Lock elision needs a lock or an instruction that    *)
(* elides without one.                                                     *)
OneMeaningPerPrefix ==
    status = "SUCCESS" =>
      /\ \A i \in 0 .. prefixCount - 1 : \A a, b \in Effects(i) : a = b
      /\ attributes \cap {"HAS_XACQUIRE", "HAS_XRELEASE"} # {} =>
           "HAS_LOCK" \in attributes \/ Takes("HLE_WITHOUT_LOCK")

(* DecoderTypes.h: IGNORED applies to "the ones that are overwritten by a  *)
(* prefix of the same group closer to the instruction opcode".             *)
OverwrittenIgnored ==
    status = "SUCCESS" =>
      \A i, j \in 0 .. prefixCount - 1 :
        i < j /\ prefixes[i] = OSZ /\ prefixes[j] = OSZ => types[i] = "IGNORED"
=============================================================================
