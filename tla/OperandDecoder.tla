--------------------------- MODULE OperandDecoder ---------------------------
(***************************************************************************)
(* What the decoder makes of an instruction's fields (src/Decoder.c): the  *)
(* choice of the definition in the decoder tree, the effective widths, the *)
(* register numbers and the visible operands (ZydisDecodeInstruction and   *)
(* ZydisDecodeOperands), for every encoding but EVEX and MVEX; and the     *)
(* request ZydisEncoderDecodedInstructionToEncoderRequest builds from it.  *)
(*                                                                         *)
(* The bytes are the record of module EncoderEmission: each prefix byte at *)
(* most once, and the fields after ModRM and SIB as sizes and values.  A   *)
(* definition says by "paths" which values of the tree's nodes lead to it. *)
(* The order of repeated prefixes and the bounds of the input are those of *)
(* modules DecoderPrefixes and Decoder.                                    *)
(***************************************************************************)
EXTENDS Registers, FiniteSets, SequencesExt

----------------------------------------------------------------------------
(* The nodes of the tree that choose by a field or by the machine mode     *)

ZydisNodeHandlerMode(mode) == ZydisGetMachineModeWidth(mode) \div 32
ZydisNodeHandlerModeCompact(mode) == IF mode = "LONG_64" THEN 0 ELSE 1
ZydisNodeHandlerModrmModCompact(bytes) == IF bytes.modrm[1] = 3 THEN 0 ELSE 1

\* the last F2 or F3, or else 66; a compressed prefix holds it
MandatoryCandidate(bytes) ==
    IF bytes.vex.kind # NONE THEN bytes.vex.pp
    ELSE IF "F3" \in bytes.prefixes THEN "F3"
    ELSE IF "F2" \in bytes.prefixes THEN "F2"
    ELSE IF "66" \in bytes.prefixes THEN "66"
    ELSE NONE
ZydisNodeHandlerMandatoryPrefix(bytes) ==
    [p \in {NONE, "66", "F3", "F2"} |->
        CASE p = "66" -> 2 [] p = "F3" -> 3 [] p = "F2" -> 4 [] OTHER -> 1
    ][MandatoryCandidate(bytes)]

ZydisNodeHandlerOperandSize(bytes, mode) ==
    LET override == "66" \in bytes.prefixes
    IN IF mode = "LONG_64" /\ bytes.rex.w THEN 2
       ELSE IF ZydisGetMachineModeWidth(mode) = 16 THEN IF override THEN 1 ELSE 0
       ELSE IF override THEN 0 ELSE 1
ZydisNodeHandlerAddressSize(bytes, mode) ==
    LET override == "67" \in bytes.prefixes
        width == ZydisGetMachineModeWidth(mode)
    IN CASE width = 16 -> IF override THEN 1 ELSE 0
         [] width = 32 -> IF override THEN 0 ELSE 1
         [] OTHER -> IF override THEN 1 ELSE 2

NodeValue(node, bytes, mode) ==
    CASE node = "MODE" -> ZydisNodeHandlerMode(mode)
      [] node = "MODE_COMPACT" -> ZydisNodeHandlerModeCompact(mode)
      [] node = "MODRM_MOD_COMPACT" -> ZydisNodeHandlerModrmModCompact(bytes)
      [] node = "MODRM_REG" -> bytes.modrm[2]
      [] node = "MODRM_RM" -> bytes.modrm[3]
      [] node = "MANDATORY_PREFIX" -> ZydisNodeHandlerMandatoryPrefix(bytes)
      [] node = "OPERAND_SIZE" -> ZydisNodeHandlerOperandSize(bytes, mode)
      [] node = "ADDRESS_SIZE" -> ZydisNodeHandlerAddressSize(bytes, mode)
      [] node = "VECTOR_LENGTH" -> bytes.vex.l
      [] node = "REX_W" -> IF bytes.rex.w THEN 1 ELSE 0
      [] node = "REX_B" -> bytes.rex.b % 2
      [] node = "REX_2" -> IF bytes.rex.kind = "REX2" THEN 1 ELSE 0

\* entry 0 of a mandatory-prefix node is the one that ignores the prefix
Takes(step, bytes, mode) ==
    \/ step = <<"MANDATORY_PREFIX", 0>>
    \/ NodeValue(step[1], bytes, mode) = step[2]

\* a register in the opcode takes eight entries of the opcode table
InOpcode(def) == \E i \in DOMAIN def.operands : def.operands[i].encoding = "OPCODE"
OpcodeOf(def, bytes) ==
    IF InOpcode(def) THEN bytes.opcode - Low(bytes.opcode) ELSE bytes.opcode
EncodingOf(bytes) ==
    IF bytes.vex.kind = "8F" THEN "XOP"
    ELSE IF bytes.vex.kind # NONE THEN "VEX"
    ELSE IF bytes.opcode_map = "0F0F" THEN "3DNOW"
    ELSE "LEGACY"
Leads(def, bytes, mode) ==
    /\ def.encoding = EncodingOf(bytes)
    /\ mode # "LONG_64" => bytes.rex.kind = NONE
    /\ def.encoding \in {"VEX", "XOP"} => def.mandatory_prefix = bytes.vex.pp
    /\ def.opcode_map = bytes.opcode_map
    /\ def.opcode - (IF InOpcode(def) THEN Low(def.opcode) ELSE 0) = OpcodeOf(def, bytes)
    /\ \E path \in def.paths : \A step \in path : Takes(step, bytes, mode)
\* of two definitions the one that needs the prefix is found first
Found(definitions, bytes, mode) ==
    LET all == {d \in definitions : Leads(d, bytes, mode)}
        exact == {d \in all : ~\E path \in d.paths : <<"MANDATORY_PREFIX", 0>> \in path}
    IN IF exact # {} THEN exact ELSE all

----------------------------------------------------------------------------
(* Effective widths                                                        *)

\* a 66 that chose the definition is not an operand-size override
Override66(bytes, def) ==
    /\ "66" \in bytes.prefixes
    /\ ~\E path \in def.paths : <<"MANDATORY_PREFIX", 2>> \in path

Swapped(width) == 48 - width
\* the operand width without the two maps that ignore the machine mode
DefaultWidth(long, override, short) ==
    IF override THEN IF long THEN 16 ELSE Swapped(short) ELSE short
ZydisSetEffectiveOperandWidth(bytes, mode, def) ==
    LET map == def.operand_size_map
        long == mode = "LONG_64"
        w == long /\ bytes.rex.w
        override == Override66(bytes, def)
        short == IF long THEN 32 ELSE ZydisGetMachineModeWidth(mode)
        default == DefaultWidth(long, override, short)
    IN CASE map \in {"DEFAULT", "BYTEOP"} -> IF w THEN 64 ELSE default
         [] map = "IGNORED66" -> IF w THEN 64 ELSE short
         [] map = "REXW32" -> IF w THEN 32 ELSE default
         [] map = "DEFAULT64" -> IF long /\ (w \/ ~override) THEN 64 ELSE default
         [] map = "FORCE64" -> IF long THEN 64 ELSE default
         [] map = "FORCE32_OR_64" -> IF w THEN 64 ELSE 32
         [] map = "FORCE64_OR_32" -> IF long THEN 64 ELSE 32

ZydisSetEffectiveAddressWidth(bytes, mode, def) ==
    LET width == ZydisGetMachineModeWidth(mode)
        override == "67" \in bytes.prefixes
    IN IF def.address_size_map = "FORCED" THEN IF width = 64 THEN 64 ELSE 32
       ELSE IF def.address_size_map = "IGNORED" \/ ~override THEN width
       ELSE IF width = 64 THEN 32
       ELSE Swapped(width)

----------------------------------------------------------------------------
(* Register numbers                                                        *)

RegisterKind ==
    [t \in {"GPR8", "GPR16", "GPR32", "GPR64", "GPR16_32_64", "GPR32_32_64",
            "GPR16_32_32", "GPR_ASZ"} |-> "GPR"]
    @@ [t \in {"XMM", "YMM", "ZMM"} |-> "VR"]
    @@ [FPR |-> "X87", MMX |-> "MMX", TMM |-> "TMM", SREG |-> "SEGMENT",
        CR |-> "CONTROL", DR |-> "DEBUG", MASK |-> "MASK", BND |-> "BOUND"]
\* op_reg, op_rm and op_ndsndd of a definition
KindAt(def, encoding) ==
    LET at == {i \in DOMAIN def.operands :
                 /\ def.operands[i].encoding = encoding
                 /\ def.operands[i].type \in DOMAIN RegisterKind}
    IN IF at = {} THEN "INVALID"
       ELSE RegisterKind[def.operands[CHOOSE i \in at : TRUE].type]

\* how many numbers the bits that count for a kind can say
Masked(id, kind, narrow) ==
    CASE kind = "INVALID" -> 0
      [] kind \in {"X87", "MMX", "SEGMENT"} -> id % 8
      [] kind = "BOUND" -> id % 16
      [] kind \in {"VR", "TMM", "MASK"} -> id % narrow
      [] OTHER -> id % 32
MaskedRm(id, kind, narrow) ==
    CASE kind = "MASK" -> id % 8 [] kind = "TMM" -> id % 16
      [] OTHER -> Masked(id, kind, narrow)

Available_regs(mode, kind) ==
    IF kind = "INVALID" THEN 255
    ELSE IF kind = "SEGMENT" THEN 6
    ELSE IF kind = "BOUND" THEN 4
    ELSE IF mode # "LONG_64" THEN 8
    ELSE IF kind \in {"GPR", "VR"} THEN 32
    ELSE IF kind = "CONTROL" THEN 16
    ELSE 8
ExistingControlRegisters == {0, 2, 3, 4, 8}

ZydisPopulateRegisterIds(bytes, mode, def) ==
    LET long == mode = "LONG_64"
        mod_reg == bytes.modrm[1] = 3 \/ def.force_reg_form
        has_sib == ~mod_reg /\ bytes.modrm[3] = 4
        narrow == IF bytes.rex.kind = "REX2" THEN 16 ELSE 32
        kind == [e \in {"MODRM_REG", "MODRM_RM", "NDSNDD"} |-> KindAt(def, e)]
        Extended(low, bits) == IF long THEN low + 8 * bits ELSE low
        reg == Extended(bytes.modrm[2], bytes.rex.r)
        rm == Extended(bytes.modrm[3], bytes.rex.b)
        base == IF has_sib THEN bytes.sib[3] ELSE bytes.modrm[3]
    IN [kind |-> kind, mod_reg |-> mod_reg, has_sib |-> has_sib,
        reg |-> IF long THEN Masked(reg, kind["MODRM_REG"], narrow) ELSE reg,
        rm |-> IF long /\ mod_reg THEN MaskedRm(rm, kind["MODRM_RM"], narrow) ELSE rm,
        vvvv |-> IF long THEN bytes.vex.vvvv ELSE bytes.vex.vvvv % 8,
        base |-> Extended(base, bytes.rex.b),
        index |-> Extended(bytes.sib[2], bytes.rex.x)]

BadRegister(ids, bytes, mode) ==
    LET k == ids.kind
        used == {<<ids.reg, k["MODRM_REG"]>>}
                \cup (IF ids.mod_reg THEN {<<ids.rm, k["MODRM_RM"]>>} ELSE {})
    IN \/ k["NDSNDD"] = "INVALID" /\ bytes.vex.vvvv # 0
       \/ \E u \in used \cup {<<ids.vvvv, k["NDSNDD"]>>} :
            u[1] >= Available_regs(mode, u[2])
       \/ \E u \in used : u[2] = "CONTROL" /\ u[1] \notin ExistingControlRegisters

\* mutant: the base is asked for only behind a SIB byte
UsesEgprWithSib(ids, bytes) ==
    \/ ids.kind["MODRM_REG"] = "GPR" /\ ids.reg >= 16
    \/ ids.mod_reg /\ ids.kind["MODRM_RM"] = "GPR" /\ ids.rm >= 16
    \/ ids.has_sib /\ (ids.base >= 16 \/ (ids.index # 4 /\ ids.index >= 16))

UsesEgpr(ids, bytes) ==
    LET memory == ~ids.mod_reg
        has_base == memory /\ ~(bytes.modrm[1] = 0 /\ Low(ids.base) = 5)
    IN \/ ids.kind["MODRM_REG"] = "GPR" /\ ids.reg >= 16
       \/ ids.mod_reg /\ ids.kind["MODRM_RM"] = "GPR" /\ ids.rm >= 16
       \/ has_base /\ ids.base >= 16
       \/ ids.has_sib /\ ids.index # 4 /\ ids.index >= 16

ZydisCalcRegisterId(encoding, ids, bytes, mode) ==
    CASE encoding = "MODRM_REG" -> ids.reg
      [] encoding = "MODRM_RM" -> ids.rm
      [] encoding = "NDSNDD" -> ids.vvvv
      [] encoding = "OPCODE" ->
           Low(bytes.opcode) + IF mode = "LONG_64" THEN 8 * bytes.rex.b ELSE 0
      [] encoding = "IS4" ->
           (bytes.imm \div 16) % (IF mode = "LONG_64" THEN 16 ELSE 8)

----------------------------------------------------------------------------
(* Displacement and immediates                                             *)

\* sizes of the immediates of an operand encoding, by operand width
ImmediateSizes ==
    LET Three(n) == <<n, n, n>>
    IN [UIMM8 |-> Three(8), SIMM8 |-> Three(8), JIMM8 |-> Three(8), IS4 |-> Three(8),
        UIMM16 |-> Three(16), UIMM32 |-> Three(32), SIMM32 |-> Three(32),
        JIMM32 |-> Three(32), JIMM64 |-> Three(64),
        SIMM16_32_64 |-> <<16, 32, 64>>, SIMM16_32_32 |-> <<16, 32, 32>>,
        JIMM16_32_32 |-> <<16, 32, 32>>, PTR |-> <<16, 32, 32>>]
SignedEncodings == {"SIMM8", "SIMM32", "SIMM16_32_64", "SIMM16_32_32", "JIMM8",
                    "JIMM32", "JIMM16_32_32"}

HasModrm(def) ==
    \/ \E i \in DOMAIN def.operands : def.operands[i].encoding \in {"MODRM_REG", "MODRM_RM"}
    \/ \E path \in def.paths : \E step \in path :
         step[1] \in {"MODRM_MOD_COMPACT", "MODRM_REG", "MODRM_RM"}
Addresses(bytes, def) == HasModrm(def) /\ bytes.modrm[1] # 3 /\ ~def.force_reg_form
NeedsSib(bytes, def, easz) ==
    Addresses(bytes, def) /\ easz # 16 /\ bytes.modrm[3] = 4

\* the size of the displacement, from ModRM and SIB or from a moffs operand
DisplacementBits(bytes, def, easz) ==
    LET mod == bytes.modrm[1]
        bare == IF easz = 16 THEN bytes.modrm[3] = 6
                ELSE \/ bytes.modrm[3] = 5
                     \/ bytes.modrm[3] = 4 /\ bytes.sib[3] = 5
        full == IF easz = 16 THEN 16 ELSE 32
    IN IF \E i \in DOMAIN def.operands : def.operands[i].type = "MOFFS" THEN easz
       ELSE IF ~Addresses(bytes, def) THEN 0
       ELSE IF mod = 1 THEN 8
       ELSE IF mod = 2 \/ bare THEN full
       ELSE 0

\* the immediates in the order of the operands; a pointer has two
Immediates(def, eosz) ==
    LET Field(size, signed) == [size |-> size, signed |-> signed]
        Of(op) == IF op.encoding \notin DOMAIN ImmediateSizes THEN <<>>
                  ELSE IF op.encoding = "PTR" THEN
                         <<Field(At(ImmediateSizes["PTR"], eosz), FALSE), Field(16, FALSE)>>
                  ELSE <<Field(At(ImmediateSizes[op.encoding], eosz),
                               op.encoding \in SignedEncodings)>>
    IN FoldLeft(LAMBDA fields, op : fields \o Of(op), <<>>, def.operands)

\* the fields after ModRM and SIB as they lie in the bytes
Fields(bytes) ==
    SelectSeq(<<[size |-> bytes.disp_size, value |-> bytes.disp],
                [size |-> bytes.imm_size, value |-> bytes.imm]>>,
              LAMBDA f : f.size # 0)
\* whether the decoder reads exactly the fields that are there
Aligned(bytes, def, easz, eosz) ==
    LET disp == DisplacementBits(bytes, def, easz)
        expected == (IF disp = 0 THEN <<>> ELSE <<disp>>)
                    \o [i \in DOMAIN Immediates(def, eosz) |-> Immediates(def, eosz)[i].size]
    IN /\ HasModrm(def) = bytes.has_modrm
       /\ NeedsSib(bytes, def, easz) = bytes.has_sib
       /\ expected = [i \in DOMAIN Fields(bytes) |-> Fields(bytes)[i].size]

Displacement(bytes, def, easz) ==
    LET size == DisplacementBits(bytes, def, easz)
    IN IF size = 0 THEN 0 ELSE Signed(Fields(bytes)[1].value, size)
\* the n-th immediate
Immediate(bytes, def, easz, eosz, n) ==
    LET field == Immediates(def, eosz)[n]
        at == n + IF DisplacementBits(bytes, def, easz) = 0 THEN 0 ELSE 1
        value == Fields(bytes)[at].value
    IN IF field.signed THEN Signed(value, field.size) ELSE value

----------------------------------------------------------------------------
(* Operands                                                                *)

HasHighRegister(bytes) == bytes.rex.kind \in {"REX", "REX2"}
ZydisDecodeOperandRegister(class, id, bytes) ==
    IF class = "GPR8"
    THEN Reg(class, IF HasHighRegister(bytes) /\ id >= 4 THEN id + 4 ELSE id)
    ELSE ZydisRegisterEncode(class, id)

ScaledClasses == [GPR16_32_64 |-> <<"GPR16", "GPR32", "GPR64">>,
                  GPR32_32_64 |-> <<"GPR32", "GPR32", "GPR64">>,
                  GPR16_32_32 |-> <<"GPR16", "GPR32", "GPR32">>]
FixedClasses == [FPR |-> "X87", MMX |-> "MMX", XMM |-> "XMM", YMM |-> "YMM",
                 ZMM |-> "ZMM", TMM |-> "TMM", BND |-> "BOUND", SREG |-> "SEGMENT",
                 CR |-> "CONTROL", DR |-> "DEBUG", MASK |-> "MASK",
                 GPR8 |-> "GPR8", GPR16 |-> "GPR16", GPR32 |-> "GPR32",
                 GPR64 |-> "GPR64"]
RegisterClass(type, eosz, easz) ==
    CASE type \in DOMAIN ScaledClasses -> At(ScaledClasses[type], eosz)
      [] type = "GPR_ASZ" -> GprOfWidth(easz)
      [] OTHER -> FixedClasses[type]

Bases16 == <<3, 3, 5, 5, 6, 7, 5, 3>>
Indices16 == <<6, 7, 6, 7>>
Address16(bytes) ==
    LET rm == bytes.modrm[3]
        index == IF rm < 4 THEN Reg("GPR16", Indices16[rm + 1]) ELSE NoRegister
    IN [base |-> IF rm = 6 /\ bytes.modrm[1] = 0 THEN NoRegister
                 ELSE Reg("GPR16", Bases16[rm + 1]),
        index |-> index, scale |-> IF rm < 4 THEN 1 ELSE 0]

\* rm 5 without displacement bits in mod is relative to the instruction
\* pointer in 64-bit mode; base 5 under the same mod is no base
BaseRegister(ids, bytes, mode, easz) ==
    LET mod0 == bytes.modrm[1] = 0
    IN IF mod0 /\ bytes.modrm[3] = 5 THEN
              (IF mode = "LONG_64" THEN InstructionPointer(easz) ELSE NoRegister)
       ELSE IF mod0 /\ ids.has_sib /\ Low(ids.base) = 5 THEN NoRegister
       ELSE Reg(GprOfWidth(easz), ids.base)

IndexClass(type, easz) ==
    CASE type = "MEM_VSIBX" -> "XMM" [] type = "MEM_VSIBY" -> "YMM"
      [] type = "MEM_VSIBZ" -> "ZMM" [] OTHER -> GprOfWidth(easz)
AddressSib(ids, bytes, mode, type, easz) ==
    LET index == ZydisRegisterEncode(IndexClass(type, easz), ids.index)
        none == ~ids.has_sib \/ index = Reg(GprOfWidth(easz), 4)
    IN [base |-> BaseRegister(ids, bytes, mode, easz),
        index |-> IF none THEN NoRegister ELSE index,
        scale |-> IF none THEN 0 ELSE 2 ^ bytes.sib[1]]
ZydisDecodeOperandMemory(ids, bytes, mode, type, easz) ==
    IF easz = 16 THEN Address16(bytes) ELSE AddressSib(ids, bytes, mode, type, easz)

ZydisDecodeOperandImplicitRegister(def, eosz, easz) ==
    CASE def.register = "STATIC" -> def.reg
      [] def.register = "GPR_OSZ" -> Reg(GprOfWidth(eosz), def.id)
      [] def.register = "GPR_ASZ" -> Reg(GprOfWidth(easz), def.id)

SegmentRegisters == <<"SEGMENT_ES", "SEGMENT_CS", "SEGMENT_SS", "SEGMENT_DS",
                      "SEGMENT_FS", "SEGMENT_GS">>
\* the segment of a memory operand: the override, or the default of the base
MemorySegment(attributes, base) ==
    LET StackBase == base.class \in GprClasses /\ base.id \in {4, 5}
        overrides == {i \in DOMAIN SegmentRegisters : SegmentRegisters[i] \in attributes}
    IN IF overrides # {} THEN Reg("SEGMENT", (CHOOSE i \in overrides : TRUE) - 1)
       ELSE Reg("SEGMENT", IF StackBase THEN 2 ELSE 3)

MemoryTypes == {"MEM", "MEM_VSIBX", "MEM_VSIBY", "MEM_VSIBZ", "AGEN", "MIB", "MOFFS"}
NoAddress == [base |-> NoRegister, index |-> NoRegister, scale |-> 0]

\* immediates before operand i; IS4 names a register and is one of them
ImmediateNumber(def, i) ==
    1 + Cardinality({j \in 1 .. i - 1 : def.operands[j].kind = "IMMEDIATE"
                                       /\ def.operands[j].type # "IMPLICIT_IMM1"})

(* One operand: w is the record of the effective widths and the numbers of *)
(* the registers.                                                          *)
DecodeOperand(bytes, mode, def, w, i) ==
    LET op == def.operands[i]
        imm(n) == Immediate(bytes, def, w.easz, w.eosz, n)
        address == IF op.type = "MOFFS" THEN NoAddress
                   ELSE ZydisDecodeOperandMemory(w.ids, bytes, mode, op.type, w.easz)
    IN IF op.type = "IMPLICIT_REG" THEN
              [type |-> "REGISTER", is4 |-> FALSE,
               reg |-> ZydisDecodeOperandImplicitRegister(op, w.eosz, w.easz)]
       ELSE IF op.type = "IMPLICIT_IMM1" THEN
              [type |-> "IMMEDIATE", imm |-> 1, relative |-> FALSE, absolute |-> FALSE]
       ELSE IF op.type \in DOMAIN RegisterKind THEN
              [type |-> "REGISTER", is4 |-> op.encoding = "IS4",
               reg |-> ZydisDecodeOperandRegister(
                           RegisterClass(op.type, w.eosz, w.easz),
                           ZydisCalcRegisterId(op.encoding, w.ids, bytes, mode), bytes)]
       ELSE IF op.type \in MemoryTypes THEN
              address @@
              [type |-> "MEMORY", displacement |-> Displacement(bytes, def, w.easz),
               disp_size |-> DisplacementBits(bytes, def, w.easz),
               size |-> IF op.type = "AGEN" THEN w.easz \div 8 ELSE At(op.size, w.eosz),
               mib |-> op.type = "MIB",
               segment |-> MemorySegment(w.attributes, address.base)]
       ELSE IF op.type = "PTR" THEN [type |-> "POINTER", offset |-> imm(1), segment |-> imm(2)]
       ELSE
              [type |-> "IMMEDIATE", relative |-> op.type = "REL",
               absolute |-> op.type = "ABS",
               imm |-> IF op.encoding = "IS4" THEN imm(1) % 16
                       ELSE imm(ImmediateNumber(def, i))]

----------------------------------------------------------------------------
(* Prefix attributes and the whole instruction                             *)

\* what the last byte of the first group means for a definition
RepeatAttribute(bytes, def) ==
    LET hle == "F0" \in bytes.prefixes \/ "HLE_WITHOUT_LOCK" \in def.accepts
        Meaning(names) ==
            LET possible == {i \in DOMAIN names :
                               /\ names[i] \in def.accepts
                               /\ names[i] \in {"XACQUIRE", "XRELEASE"} => hle}
            IN {names[i] : i \in {j \in possible : \A k \in possible : j <= k}}
    IN IF "F3" \in bytes.prefixes THEN Meaning(<<"REP", "REPE", "XRELEASE">>)
       ELSE IF "F2" \in bytes.prefixes THEN Meaning(<<"REPNE", "XACQUIRE", "BND">>)
       ELSE {}

SegmentBytes == ("2E" :> "SEGMENT_CS") @@ ("36" :> "SEGMENT_SS") @@ ("3E" :> "SEGMENT_DS")
                @@ ("26" :> "SEGMENT_ES") @@ ("64" :> "SEGMENT_FS") @@ ("65" :> "SEGMENT_GS")
\* 64-bit mode ignores the four old segment overrides
SegmentAttribute(bytes, mode, def) ==
    LET effective == {b \in bytes.prefixes \cap DOMAIN SegmentBytes :
                        mode = "LONG_64" => b \in {"64", "65"}}
        notrack == "NOTRACK" \in def.accepts /\ "3E" \in bytes.prefixes
        hints == "BRANCH_HINTS" \in def.accepts
    IN IF ~def.accepts_segment \/ hints \/ notrack THEN {}
       ELSE {SegmentBytes[b] : b \in effective}

ZydisSetAttributes(bytes, mode, def) ==
    LET hints == "BRANCH_HINTS" \in def.accepts
        Has(byte) == byte \in bytes.prefixes
        legacy == def.encoding = "LEGACY"
    IN RepeatAttribute(bytes, def) \cup SegmentAttribute(bytes, mode, def)
       \cup (IF Has("F0") /\ legacy THEN {"LOCK"} ELSE {})
       \cup (IF hints /\ Has("2E") THEN {"BRANCH_NOT_TAKEN"} ELSE {})
       \cup (IF hints /\ Has("3E") THEN {"BRANCH_TAKEN"} ELSE {})
       \cup (IF "NOTRACK" \in def.accepts /\ Has("3E") THEN {"NOTRACK"} ELSE {})

ZydisCheckErrorConditions(bytes, mode, def, ids) ==
    IF mode = "REAL_16" /\ def.requires_protected_mode THEN "DECODING_ERROR"
    ELSE IF mode \in {"LONG_COMPAT_16", "LONG_COMPAT_32"} /\ def.no_compat_mode THEN
           "DECODING_ERROR"
    ELSE IF /\ def.encoding # "3DNOW"
            /\ "F0" \in bytes.prefixes /\ "LOCK" \notin def.accepts
         THEN "ILLEGAL_LOCK"
    ELSE IF BadRegister(ids, bytes, mode) THEN "BAD_REGISTER"
    ELSE "SUCCESS"

Undecoded(status) == [status |-> status]
\* "MISALIGNED": the decoder would read other fields than were written
ZydisDecodeInstruction(definitions, bytes, mode) ==
    LET found == Found(definitions, bytes, mode)
        def == CHOOSE d \in found : TRUE
        eosz == ZydisSetEffectiveOperandWidth(bytes, mode, def)
        easz == ZydisSetEffectiveAddressWidth(bytes, mode, def)
        ids == ZydisPopulateRegisterIds(bytes, mode, def)
        status == ZydisCheckErrorConditions(bytes, mode, def, ids)
        w == [eosz |-> eosz, easz |-> easz, ids |-> ids,
              attributes |-> ZydisSetAttributes(bytes, mode, def)]
    IN IF Cardinality(found) # 1 THEN Undecoded("DECODING_ERROR")
       ELSE IF ~Aligned(bytes, def, easz, eosz) THEN Undecoded("MISALIGNED")
       ELSE IF status # "SUCCESS" THEN Undecoded(status)
       ELSE [status |-> status, machine_mode |-> mode, mnemonic |-> def.mnemonic,
             encoding |-> def.encoding, attributes |-> w.attributes,
             operand_width |-> IF def.operand_size_map = "BYTEOP" THEN 8 ELSE eosz,
             address_width |-> easz, branch_type |-> def.branch_type,
             accepts_segment |-> def.accepts_segment,
             uses_egpr |-> mode = "LONG_64" /\ UsesEgpr(ids, bytes),
             imm_size |-> bytes.imm_size,
             operands |-> [i \in DOMAIN def.operands |->
                             DecodeOperand(bytes, mode, def, w, i)]]

----------------------------------------------------------------------------
(* Back to a request                                                       *)

OperandToRequest(op) ==
    CASE op.type = "MEMORY" ->
           [type |-> "MEMORY", base |-> op.base, index |-> op.index,
            scale |-> IF op.mib THEN 0 ELSE op.scale,
            displacement |-> op.displacement, size |-> op.size]
      [] op.type = "IMMEDIATE" -> [type |-> "IMMEDIATE", imm |-> op.imm]
      [] OTHER -> op

\* mutant: the width of a branch is the operand size
BranchWidthOfType(instruction) ==
    CASE instruction.branch_type = "SHORT" -> 8
      [] instruction.branch_type \in {"NEAR", "FAR"} -> instruction.operand_width
      [] OTHER -> 0

\* a relative operand asks for the size it had, whatever the branch type
BranchWidth(instruction) ==
    LET ops == instruction.operands
        relative == \E i \in DOMAIN ops : ops[i].type = "IMMEDIATE" /\ ops[i].relative
    IN IF relative /\ instruction.mnemonic # "xbegin" THEN instruction.imm_size
       ELSE IF instruction.branch_type = "SHORT" THEN 8
       ELSE IF instruction.branch_type \in {"NEAR", "FAR"} THEN instruction.operand_width
       ELSE 0

ZydisEncoderDecodedInstructionToEncoderRequest(instruction) ==
    LET segments == IF instruction.accepts_segment THEN {} ELSE SegmentPrefixes
        type == instruction.branch_type
    IN [mnemonic |-> instruction.mnemonic, machine_mode |-> instruction.machine_mode,
        allowed_encodings |-> {instruction.encoding},
        prefixes |-> instruction.attributes \ segments,
        branch_type |-> IF type = "ABSOLUTE" THEN "NONE" ELSE type,
        branch_width |-> BranchWidth(instruction),
        address_size_hint |-> instruction.address_width,
        operand_size_hint |-> instruction.operand_width,
        operands |-> [i \in DOMAIN instruction.operands |->
                        OperandToRequest(instruction.operands[i])]]

=============================================================================
