-------------------------- MODULE EncoderMatching --------------------------
(***************************************************************************)
(* How the encoder finds the definition for a request                      *)
(* (ZydisFindMatchingDefinition and what it calls, src/Encoder.c).         *)
(*                                                                         *)
(* A match is filled while the operands are compared, one after the other: *)
(* what one operand says of the operand size, the address size, the REX    *)
(* prefix, the displacement and the immediate binds the operands after it. *)
(* Each operator takes a match and returns the match the C function        *)
(* leaves, "ok" being the function's result; a match that is not ok is     *)
(* not looked at again.                                                    *)
(*                                                                         *)
(* The features of EVEX and MVEX and the compressed displacement are those *)
(* of module VectorFeatures and left out here.                             *)
(***************************************************************************)
EXTENDS Registers, SequencesExt

HasSegment(attributes) == attributes \cap SegmentPrefixes # {}

Fail(m) == [m EXCEPT !.ok = FALSE]
Require(m, condition) == [m EXCEPT !.ok = @ /\ condition]

----------------------------------------------------------------------------
(* Sizes                                                                   *)

ZydisGetMaxAddressSize(request) ==
    IF request.address_size_hint = 0
    THEN ZydisGetMachineModeWidth(request.machine_mode)
    ELSE request.address_size_hint

\* the operand sizes tried in each mode, the cheapest first
Eosz_priority(mode) == CASE ZydisGetMachineModeWidth(mode) = 16 -> <<16, 32>>
                         [] ZydisGetMachineModeWidth(mode) = 32 -> <<32, 16>>
                         [] OTHER -> <<32, 64, 16>>

ZydisGetOperandSizeFromElementSize(m, request, size, desired, exact) ==
    LET map == m.def.operand_size_map
        Fits(w) == IF exact THEN At(size, w) = desired ELSE At(size, w) >= desired
        long == request.machine_mode = "LONG_64"
        Candidate(w) == w \in m.def.operand_sizes /\ Fits(w)
    IN CASE long /\ map = "DEFAULT64" ->
              (IF Fits(64) THEN 64 ELSE IF At(size, 16) = desired THEN 16 ELSE 0)
         [] long /\ map = "FORCE64" -> IF At(size, 64) = desired THEN 64 ELSE 0
         [] OTHER -> First(Eosz_priority(request.machine_mode), Candidate)

\* the match and the size of the immediate, 0 when it does not fit
Sized(m, size) == [match |-> m, size |-> size]

ZydisGetScaledImmSize(m, request, size, min_size) ==
    IF m.eosz = 0
    THEN LET eosz == ZydisGetOperandSizeFromElementSize(m, request, size,
                                                        min_size, FALSE)
         IN Sized([m EXCEPT !.eosz = eosz], IF eosz = 0 THEN 0 ELSE At(size, eosz))
    ELSE Sized(m, IF At(size, m.eosz) >= min_size THEN At(size, m.eosz) ELSE 0)

Unsigned_immediates == {"UIMM8", "UIMM16", "UIMM32", "UIMM64", "UIMM16_32_64",
                        "UIMM32_32_64", "UIMM16_32_32", "IS4"}
ZydisIsImmSigned(encoding) == encoding \notin Unsigned_immediates

FixedSize == [UIMM8 |-> 8, SIMM8 |-> 8, UIMM16 |-> 16, SIMM16 |-> 16,
              UIMM32 |-> 32, SIMM32 |-> 32, UIMM64 |-> 64, SIMM64 |-> 64]
JimmSize == [JIMM8 |-> 8, JIMM16 |-> 16, JIMM32 |-> 32, JIMM64 |-> 64]
ScaledSizes == [UIMM16_32_64 |-> <<16, 32, 64>>, SIMM16_32_64 |-> <<16, 32, 64>>,
                UIMM32_32_64 |-> <<32, 32, 64>>, SIMM32_32_64 |-> <<32, 32, 64>>,
                UIMM16_32_32 |-> <<16, 32, 32>>, SIMM16_32_32 |-> <<16, 32, 32>>]
AtLeast(a, b) == IF a < b THEN b ELSE a

\* an address the machine mode shows in fewer bits than its sign needs
AddressBits(size, request, value) ==
    LET addr_size == ZydisGetMaxAddressSize(request)
        uimm == Unsigned(value, addr_size)
    IN IF size < addr_size /\ ZydisGetUnsignedImmSize(uimm) > size
       THEN addr_size ELSE size

\* DISP16_32_64: the size of a moffs address becomes the address size
MoffsSize(m, request, imm) ==
    LET size == AddressBits(ZydisGetSignedImmSize(imm), request, imm)
        long == request.machine_mode = "LONG_64"
        min == AtLeast(size, IF long THEN 32 ELSE 16)
    IN IF long \/ min \in {16, 32}
       THEN Sized([m EXCEPT !.easz = min], min)
       ELSE Sized(m, 0)

ZydisGetEffectiveImmSize(m, request, imm, def) ==
    LET encoding == def.encoding
        min_size == IF ZydisIsImmSigned(encoding) THEN ZydisGetSignedImmSize(imm)
                    ELSE ZydisGetUnsignedImmSize(imm)
        Fixed(size) == Sized(m, IF size >= min_size THEN size ELSE 0)
        width == request.branch_width
    IN CASE encoding \in DOMAIN FixedSize -> Fixed(FixedSize[encoding])
         [] encoding = "IS4" -> Sized(m, IF Unsigned(imm, 64) <= 15 THEN 8 ELSE 0)
         [] encoding \in DOMAIN ScaledSizes ->
              ZydisGetScaledImmSize(m, request, ScaledSizes[encoding], min_size)
         [] encoding = "DISP16_32_64" -> MoffsSize(m, request, imm)
         [] encoding \in DOMAIN JimmSize ->
              IF width \in {0, JimmSize[encoding]} THEN Fixed(JimmSize[encoding])
              ELSE Sized(m, 0)
         [] OTHER -> \* JIMM16_32_32
              CASE width = 0 ->
                     ZydisGetScaledImmSize(m, request, <<16, 32, 32>>, min_size)
                [] width \in {16, 32} -> Fixed(width)
                [] OTHER -> Sized(m, 0)

----------------------------------------------------------------------------
(* Registers                                                               *)

ZydisCheckOsz(m, width) ==
    IF m.eosz = 0
    THEN Require([m EXCEPT !.eosz = IF width = 8 THEN 0 ELSE width], width # 8)
    ELSE Require(m, m.eosz = width)

ZydisCheckAsz(m, request, width) ==
    IF m.easz = 0
    THEN IF request.machine_mode = "LONG_64" /\ width = 16 THEN Fail(m)
         ELSE [m EXCEPT !.easz = width]
    ELSE Require(m, m.easz = width)

ZydisIsRegisterAllowed(m, request, reg) ==
    IF request.machine_mode # "LONG_64"
    THEN reg.class # "GPR64" /\ reg.id < 8
    ELSE CASE m.def.encoding = "EVEX" -> reg \notin HighByte
           [] m.def.encoding = "MVEX" -> TRUE
           [] m.def.encoding = "LEGACY" /\ reg.class \in GprClasses ->
                m.def.rex2 # "FORBIDDEN" \/ ZydisGetPhysicalId(reg) < 16
           [] OTHER -> reg.id < 16

ZydisIsScaleValid(scale) == scale \in {0, 1, 2, 4, 8}

\* REX is excluded by AH..BH and required by the registers it alone reaches
ZydisValidateRexType(m, reg, addressing_mode) ==
    LET Settle(type, other) ==
            Require([m EXCEPT !.rex_type = IF @ = "UNKNOWN" THEN type ELSE @],
                    m.rex_type # other)
        needs == IF reg.class = "GPR8" THEN reg.id > 7
                 ELSE reg.id > 7 \/ (~addressing_mode /\ reg.class = "GPR64")
    IN CASE reg \in LowByte -> m
         [] reg \in HighByte -> Settle("FORBIDDEN", "REQUIRED")
         [] OTHER -> IF needs THEN Settle("REQUIRED", "FORBIDDEN") ELSE m

ZydisIsValidAddressingClass(m, request, reg) ==
    LET class == ZydisRegisterGetClass(reg)
        long == request.machine_mode = "LONG_64"
        \* registers 16..31 come with REX2 or with EVEX
        reached == \/ reg.id < 16
                   \/ m.def.encoding = "LEGACY" /\ m.def.rex2 # "FORBIDDEN"
                   \/ m.def.encoding = "EVEX"
        usable == CASE class = "GPR16" -> ~long
                    [] class = "GPR32" -> (long /\ reached) \/ reg.id < 8
                    [] class = "GPR64" -> long /\ reached
                    [] OTHER -> FALSE
    IN IF class = NONE THEN m
       ELSE IF usable THEN ZydisValidateRexType(m, reg, TRUE) ELSE Fail(m)

Rm16Table == LET G(i) == Reg("GPR16", i)
             IN <<<<G(3), G(6)>>, <<G(3), G(7)>>, <<G(5), G(6)>>, <<G(5), G(7)>>,
                  <<G(6), NoRegister>>, <<G(7), NoRegister>>,
                  <<G(5), NoRegister>>, <<G(3), NoRegister>>>>
\* ModRM.rm of a 16-bit address, -1 when no value names the pair
ZydisGetRm16(base, index) ==
    LET hits == {i \in DOMAIN Rm16Table : Rm16Table[i] = <<base, index>>}
    IN IF hits = {} THEN -1 ELSE (CHOOSE i \in hits : TRUE) - 1

----------------------------------------------------------------------------
(* One operand of the request against one of the definition                *)

\* the register classes a semantic type takes; the others take GPRs by size
OwnClass == [FPR |-> "X87", MMX |-> "MMX", XMM |-> "XMM", YMM |-> "YMM",
             ZMM |-> "ZMM", TMM |-> "TMM", BND |-> "BOUND", SREG |-> "SEGMENT",
             CR |-> "CONTROL", DR |-> "DEBUG", MASK |-> "MASK",
             GPR8 |-> "GPR8", GPR16 |-> "GPR16", GPR32 |-> "GPR32",
             GPR64 |-> "GPR64"]
GprClassesOf ==
    [GPR16_32_64 |-> {"GPR16", "GPR32", "GPR64"},
     GPR32_32_64 |-> {"GPR32", "GPR64"},
     GPR16_32_32 |-> {"GPR16", "GPR32"},
     GPR_ASZ |-> {"GPR16", "GPR32", "GPR64"}]
ClassFits(def, class) ==
    IF def.type \in DOMAIN GprClassesOf THEN class \in GprClassesOf[def.type]
    ELSE class = OwnClass[def.type]

ControlRegisters == {0, 2, 3, 4, 8}
\* registers some instructions or modes do not have
RegisterExists(request, reg, def) ==
    CASE def.type = "SREG" -> ~(def.write /\ reg.id = 1)
      [] def.type = "CR" -> /\ reg.id \in ControlRegisters
                            /\ request.machine_mode # "LONG_64" => reg.id # 8
      [] def.type = "DR" -> reg.id < 8
      [] OTHER -> TRUE

Checked(m, request, reg) == Require(m, ZydisIsRegisterAllowed(m, request, reg))
RexChecked(m, request, reg) ==
    ZydisValidateRexType(Checked(m, request, reg), reg, FALSE)

\* 32 or 64 bits: a 32-bit register rules a later 64-bit size out
Gpr32_32_64(m, reg) ==
    IF m.eosz # 0
    THEN Require(m, m.eosz = ZydisRegisterClassGetWidth("LONG_64", reg.class))
    ELSE IF reg.class = "GPR64" THEN [m EXCEPT !.eosz = 64]
    ELSE [m EXCEPT !.eosz64_forbidden = TRUE]
\* 32-bit registers go with an operand size of 64 too
Gpr16_32_32(m, reg, width) ==
    IF m.eosz = 64 /\ reg.class = "GPR32" THEN m ELSE ZydisCheckOsz(m, width)

ExplicitRegister(m, request, reg, def, width) ==
    CASE def.type = "GPR8" -> RexChecked(m, request, reg)
      [] def.type = "GPR16_32_64" ->
           RexChecked(ZydisCheckOsz(m, width), request, reg)
      [] def.type = "GPR32_32_64" -> RexChecked(Gpr32_32_64(m, reg), request, reg)
      [] def.type = "GPR16_32_32" ->
           Checked(Gpr16_32_32(m, reg, width), request, reg)
      [] def.type = "GPR_ASZ" ->
           Checked(ZydisCheckAsz(m, request, width), request, reg)
      [] def.type \in {"GPR16", "GPR32", "GPR64"} \cup VectorClasses ->
           Checked(m, request, reg)
      [] OTHER -> Require(m, RegisterExists(request, reg, def))

ImplicitRegister(m, request, reg, def, width) ==
    IF def.register = "STATIC" THEN Require(m, reg = def.reg)
    ELSE IF reg.class \notin GprClasses \/ reg.id # def.id THEN Fail(m)
    ELSE IF def.register = "GPR_OSZ" THEN ZydisCheckOsz(m, width)
    ELSE ZydisCheckAsz(m, request, width)

ZydisIsRegisterOperandCompatible(m, request, op, def) ==
    LET reg == op.reg
        class == ZydisRegisterGetClass(reg)
        width == ZydisRegisterClassGetWidth(request.machine_mode, class)
        is4 == def.encoding = "IS4" /\ def.type \in {"XMM", "YMM"}
    IN IF width = 0 THEN Fail(m)
       ELSE IF def.type = "IMPLICIT_REG" THEN
              Require(ImplicitRegister(m, request, reg, def, width), ~op.is4)
       ELSE IF ~ClassFits(def, class) THEN Fail(m)
       ELSE Require(ExplicitRegister(m, request, reg, def, width),
                    op.is4 = is4)

VsibClass == [MEM_VSIBX |-> "XMM", MEM_VSIBY |-> "YMM", MEM_VSIBZ |-> "ZMM"]
IsVsib(def) == def.type \in DOMAIN VsibClass
IsRipRelative(op) ==
    op.base \in {InstructionPointer(32), InstructionPointer(64)}

\* the smallest displacement field the value needs, none for zero
DisplacementSize(op) ==
    IF op.displacement = 0 THEN 0 ELSE ZydisGetSignedImmSize(op.displacement)

ZydisCheckVectorMemorySize(m, request, op, size) ==
    LET mode == ZydisGetMachineModeWidth(request.machine_mode)
        index == IF mode = 64 /\ m.eosz64_forbidden THEN 32 ELSE mode
    IN \/ op.size = At(size, index)
       \/ index = 64 /\ op.size = At(size, 32)

\* AGEN: the request gives the address size in place of the operand size
AgenSizeFits(m, op) ==
    IF m.easz # 0 THEN Require(m, m.easz = op.size)
    ELSE IF op.size \in {2, 4, 8} THEN [m EXCEPT !.easz = 8 * op.size] ELSE Fail(m)

SizeFromElement(m, request, op, size) ==
    LET eosz == ZydisGetOperandSizeFromElementSize(m, request, size, op.size, TRUE)
    IN Require([m EXCEPT !.eosz = eosz], eosz # 0)

MemorySizeFits(m, request, op, def) ==
    IF def.type = "AGEN" THEN AgenSizeFits(m, op)
    ELSE IF m.eosz # 0 THEN Require(m, At(def.size, m.eosz) = op.size)
    ELSE IF m.def.vector_length # 0 THEN
           Require(m, ZydisCheckVectorMemorySize(m, request, op, def.size))
    ELSE IF m.def.rex_w THEN [m EXCEPT !.eosz = 64]
    ELSE SizeFromElement(m, request, op, def.size)

VsibRegistersFit(m, request, op, def) ==
    LET base == ZydisRegisterGetClass(op.base)
        long == request.machine_mode = "LONG_64"
        max_reg_id == IF ~long THEN 7 ELSE IF m.def.encoding = "VEX" THEN 15 ELSE 31
    IN Require(m, /\ base \in {NONE, "GPR32"} \/ (long /\ base = "GPR64")
                  /\ base = "GPR32" /\ ~long => op.base.id <= 7
                  /\ m.def.encoding # "EVEX" => op.base.id <= 15
                  /\ ZydisRegisterGetClass(op.index) = VsibClass[def.type]
                  /\ op.index.id <= max_reg_id)

GprAddressFits(m, request, op) ==
    LET based == ZydisIsValidAddressingClass(m, request, op.base)
        bound == IF based.ok \/ ~IsRipRelative(op) \/ request.machine_mode # "LONG_64"
                 THEN based ELSE m
        both == ZydisIsValidAddressingClass(bound, request, op.index)
        classes == {ZydisRegisterGetClass(r) : r \in {op.base, op.index}} \ {NONE}
    IN Require(both, /\ \A c, d \in classes : c = d
                     /\ op.index \notin {Reg("GPR32", 4), Reg("GPR64", 4)})

AddressRegistersFit(m, request, op, def) ==
    IF IsVsib(def) THEN VsibRegistersFit(m, request, op, def)
    ELSE GprAddressFits(m, request, op)

ScaleFits(op, def) ==
    IF op.index = NoRegister THEN op.scale = 0
    ELSE def.type = "MIB" \/ op.scale # 0

\* an address without registers
AbsoluteAddress(m, request, op, disp_size) ==
    LET addr_size == ZydisGetMaxAddressSize(request)
        long == request.machine_mode = "LONG_64"
        start == IF m.easz = 0 THEN 16 ELSE m.easz
        min == IF \/ start = 16 /\ 16 \notin m.def.address_sizes
                  \/ start = 64 \/ long
               THEN 32 ELSE start
        size == IF long THEN AtLeast(disp_size, min)
                ELSE AddressBits(AtLeast(disp_size, min), request, op.displacement)
    IN [ok |-> disp_size <= addr_size, disp_size |-> size,
        easz |-> IF ~long THEN size
                 ELSE IF addr_size = 32 /\ op.displacement >= 0 /\ m.easz # 32 THEN 64
                 ELSE addr_size]

\* the address size the registers give, and what a 16-bit address may hold
RegisterAddress(m, request, op, def, disp_size) ==
    LET mode == request.machine_mode
        class == ZydisRegisterGetClass(IF op.base = NoRegister THEN op.index ELSE op.base)
        easz == CASE IsRipRelative(op) -> ZydisRegisterGetWidth("LONG_64", op.base)
                  [] op.base = NoRegister /\ IsVsib(def) -> ZydisGetMachineModeWidth(mode)
                  [] OTHER -> ZydisRegisterClassGetWidth(mode, class)
        short == mode # "LONG_64" /\ easz = 16
        rm16 == ZydisGetRm16(op.base, op.index)
    IN [ok |-> /\ mode = "LONG_64" /\ IsRipRelative(op) => op.index = NoRegister
               /\ short /\ ~IsVsib(def) =>
                    /\ disp_size <= 16
                    /\ rm16 # -1
                    /\ op.scale = IF rm16 < 4 THEN 1 ELSE 0,
        disp_size |-> disp_size,
        easz |-> IF short /\ IsVsib(def) THEN 32 ELSE easz]

\* the match with the sizes of an address that its operand gives
Addressed(m, request, a) ==
    LET ignored == m.def.address_size_map = "IGNORED"
    IN Require([m EXCEPT !.easz = IF @ = 0 THEN a.easz ELSE @,
                         !.disp_size = a.disp_size],
               /\ a.ok
               /\ m.easz \in {0, a.easz}
               /\ ignored => a.easz = ZydisGetMachineModeWidth(request.machine_mode))

\* the address size of a memory operand, from the operand and the match
AddressSizeFits(m, request, op, def) ==
    LET size == DisplacementSize(op)
    IN IF ~m.ok THEN m
       ELSE Addressed(m, request,
                      IF op.base = NoRegister /\ op.index = NoRegister
                      THEN AbsoluteAddress(m, request, op, size)
                      ELSE RegisterAddress(m, request, op, def, size))

\* the requested displacement and size, the registers, then the address size
AddressedMemoryFits(m, request, op, def) ==
    LET allowed == /\ DisplacementSize(op) <= 32
                   /\ def.type = "MIB" => op.scale = 0
                   /\ IsRipRelative(op) => ~def.no_rip_rel /\ m.def.modrm % 8 # 4
        sized == MemorySizeFits(m, request, op, def)
    IN IF ~allowed \/ ~ScaleFits(op, def) THEN Fail(m)
       ELSE AddressSizeFits(AddressRegistersFit(sized, request, op, def),
                            request, op, def)

MoffsFound(request, op, found) ==
    LET min == ZydisGetSignedImmSize(op.displacement)
    IN Require([found.match EXCEPT !.disp_size = found.size],
               /\ op.base = NoRegister /\ op.index = NoRegister /\ op.scale = 0
               /\ min <= ZydisGetMaxAddressSize(request)
               /\ found.size # 0
               /\ found.size = 64 => min = 64)

\* a moffs operand; a 64-bit one is left to the shorter ModRM form
MoffsFits(m, request, op, def) ==
    LET sized == IF m.eosz # 0 THEN Require(m, At(def.size, m.eosz) = op.size)
                 ELSE SizeFromElement(m, request, op, def.size)
    IN MoffsFound(request, op,
                  ZydisGetEffectiveImmSize(sized, request, op.displacement, def))

ZydisIsMemoryOperandCompatible(m, request, op, def) ==
    IF def.type = "MOFFS" THEN MoffsFits(m, request, op, def)
    ELSE AddressedMemoryFits(m, request, op, def)

ZydisIsPointerOperandCompatible(m, request, op) ==
    LET desired == IF request.branch_width = 0
                   THEN ZydisGetMachineModeWidth(request.machine_mode)
                   ELSE request.branch_width
    IN Require([m EXCEPT !.eosz = desired, !.disp_size = desired, !.imm_size = 16],
               ZydisGetUnsignedImmSize(op.offset) <= desired)

\* a second immediate moves the first one to the displacement
ImmediateFound(def, found) ==
    LET f == found.match
        required == IF def.encoding = "IS4" THEN found.size = 8 ELSE found.size # 0
        moved == def.encoding # "IS4" /\ f.imm_size # 0
    IN Require([f EXCEPT !.disp_size = IF moved THEN f.imm_size ELSE @,
                         !.imm_size = found.size,
                         !.has_rel_operand = def.type = "REL"], required)

ImmediateFits(m, request, op, def) ==
    ImmediateFound(def, ZydisGetEffectiveImmSize(m, request, op.imm, def))

ZydisIsImmediateOperandCompabile(m, request, op, def) ==
    CASE def.type = "IMPLICIT_IMM1" -> Require(m, Unsigned(op.imm, 64) = 1)
      [] def.type = "ABS" -> [m EXCEPT !.imm_size = 64]
      [] OTHER -> ImmediateFits(m, request, op, def)

OperandFits(m, request, op, def) ==
    CASE op.type = "REGISTER" ->
           ZydisIsRegisterOperandCompatible(m, request, op, def)
      [] op.type = "MEMORY" -> ZydisIsMemoryOperandCompatible(m, request, op, def)
      [] op.type = "POINTER" -> ZydisIsPointerOperandCompatible(m, request, op)
      [] OTHER -> \* IMMEDIATE
           ZydisIsImmediateOperandCompabile(m, request, op, def)

----------------------------------------------------------------------------
(* One definition of the mnemonic                                          *)

NextFits(m, def, request, n) ==
    IF m.ok THEN OperandFits(m, request, request.operands[n], def.operands[n]) ELSE m
\* the operands in order, each compared with what the ones before it left
OperandsFit(m, request) ==
    LET fitted[n \in 0 .. Len(request.operands)] ==
          IF n = 0 THEN m ELSE NextFits(fitted[n - 1], m.def, request, n)
    IN fitted[Len(request.operands)]

\* the operand size a requested branch width stands for, 0 for none
BranchSize(m, request) ==
    CASE request.branch_width = 32 ->
           IF /\ m.has_rel_operand /\ request.machine_mode = "LONG_64"
              /\ m.def.operand_size_map = "FORCE64"
           THEN 64 ELSE 32
      [] request.branch_width = 8 -> 0
      [] OTHER -> request.branch_width

BranchFits(m, request) ==
    LET eosz == BranchSize(m, request)
        width == request.branch_width
    IN IF m.def.branch_type \in {"NONE", "ABSOLUTE"} THEN m
       ELSE Require([m EXCEPT !.eosz = IF @ = 0 THEN eosz ELSE @],
                    /\ width = 8 => m.has_rel_operand /\ m.def.branch_type = "SHORT"
                    /\ width = 64 => ~m.has_rel_operand
                    /\ eosz = 0 \/ m.eosz \in {0, eosz})

\* a VEX gather whose destination, index and mask are not three registers
ZydisCheckConstraints(m, request) ==
    LET ops == request.operands
    IN m.def.encoding = "VEX" /\ m.def.is_gather =>
         /\ ops[1].reg.id # ops[2].index.id
         /\ ops[1].reg.id # ops[3].reg.id
         /\ ops[2].index.id # ops[3].reg.id

ConstraintsFit(m, request) == Require(m, m.ok => ZydisCheckConstraints(m, request))

ZydisIsDefinitionCompatible(m, request) ==
    ConstraintsFit(BranchFits(OperandsFit(m, request), request), request)

Accepted(def, prefix) ==
    CASE prefix \in SegmentPrefixes -> def.accepts_segment
      [] prefix \in BranchHints -> "BRANCH_HINTS" \in def.accepts
      [] OTHER -> prefix \in def.accepts
ZydisArePrefixesCompatible(def, attributes) ==
    /\ HasSegment(attributes) => def.accepts_segment
    /\ \A p \in attributes \ SegmentPrefixes :
         def.encoding = "LEGACY" /\ Accepted(def, p)
    /\ attributes \cap {"XACQUIRE", "XRELEASE"} # {} =>
         "HLE_WITHOUT_LOCK" \in def.accepts \/ "LOCK" \in attributes

\* what the loop of ZydisFindMatchingDefinition skips without a comparison
Viable(def, request) ==
    LET mode == request.machine_mode
    IN /\ Len(def.operands) = Len(request.operands)
       /\ \A i \in DOMAIN def.operands : def.operands[i].kind = request.operands[i].type
       /\ ZydisGetMachineModeWidth(mode) \in def.modes
       /\ def.encoding \in request.allowed_encodings
       /\ mode = "REAL_16" =>
            /\ ~def.requires_protected_mode
            /\ def.encoding \notin {"XOP", "VEX", "EVEX", "MVEX"}
       /\ def.encoding = "MVEX" => mode = "LONG_64"
       /\ mode \in {"LONG_COMPAT_16", "LONG_COMPAT_32"} => ~def.no_compat_mode
       /\ request.branch_type \in {"NONE", def.branch_type}
       /\ def.branch_type \in {"NONE", "ABSOLUTE"} => request.branch_width = 0

NoMatch == [def |-> NONE, ok |-> FALSE, easz |-> 0, eosz |-> 0, disp_size |-> 0,
            imm_size |-> 0, rex_type |-> "UNKNOWN", eosz64_forbidden |-> FALSE,
            has_rel_operand |-> FALSE]

\* mutant: the kind of REX prefix is left from the definition before
ResetExceptRex(m, request, def) ==
    [m EXCEPT !.def = def, !.ok = TRUE,
       !.easz = IF def.accepts_hint = "ASZ" THEN request.address_size_hint ELSE 0,
       !.eosz = IF def.accepts_hint = "OSZ" THEN request.operand_size_hint ELSE 0,
       !.disp_size = 0, !.imm_size = 0,
       !.eosz64_forbidden = FALSE, !.has_rel_operand = FALSE]

\* the fields the loop assigns before it compares a definition
Reset(m, request, def) ==
    [m EXCEPT !.def = def, !.ok = TRUE,
       !.easz = IF def.accepts_hint = "ASZ" THEN request.address_size_hint ELSE 0,
       !.eosz = IF def.accepts_hint = "OSZ" THEN request.operand_size_hint ELSE 0,
       !.disp_size = 0, !.imm_size = 0, !.rex_type = "UNKNOWN",
       !.eosz64_forbidden = FALSE, !.has_rel_operand = FALSE]

\* the shorter of two definitions that differ in the direction of the operands
ZydisHandleSwappableDefinition(m, request, next) ==
    LET ops == request.operands
        long == request.machine_mode = "LONG_64"
        source == ops[IF Len(ops) = 3 THEN 3 ELSE 2]
    IN IF ~m.ok \/ ~m.def.swappable THEN m
       ELSE IF request.mnemonic = "mov" THEN
              Require(m, ~ /\ long /\ m.eosz = 64
                           /\ ZydisGetSignedImmSize(ops[2].imm) < 64)
       ELSE IF request.mnemonic = "xchg" THEN
              (IF ops[1].reg.id # 0 THEN m
               ELSE Require([m EXCEPT !.eosz = 0],
                            ~(long /\ ops[1].reg.class = "GPR32")))
       ELSE IF ops[1].reg.id <= 7 /\ source.reg.id > 7 THEN [m EXCEPT !.def = next]
       ELSE m

\* the address size when no operand has said it, and whether it exists
AddressSizeSettled(m, request) ==
    LET mode == ZydisGetMachineModeWidth(request.machine_mode)
        default == IF mode \in m.def.address_sizes THEN mode
                   ELSE IF mode = 32 THEN 16
                   ELSE 32
    IN IF m.easz = 0 THEN [m EXCEPT !.easz = default]
       ELSE Require(m, m.easz \in m.def.address_sizes)

DefaultOsz(m, request) ==
    LET mode == ZydisGetMachineModeWidth(request.machine_mode)
        sizes == m.def.operand_sizes
        default == IF mode = 64 THEN 32 ELSE mode
    IN IF mode = 64 /\ m.def.operand_size_map = "DEFAULT64" THEN
              (IF 64 \in sizes THEN 64 ELSE 16)
       ELSE IF mode = 64 /\ m.def.operand_size_map = "FORCE64" THEN 64
       ELSE IF default \in sizes THEN default
       ELSE IF 16 \in sizes THEN 16
       ELSE IF 32 \in sizes THEN 32
       ELSE 64

OperandSizeSettled(m, request) ==
    LET long == request.machine_mode = "LONG_64"
        map == m.def.operand_size_map
        eosz == IF m.eosz = 0 THEN DefaultOsz(m, request) ELSE m.eosz
        settled == m.eosz # 0 \/ (long /\ map \in {"DEFAULT64", "FORCE64"})
    IN Require([m EXCEPT !.eosz = eosz],
               /\ long /\ map = "DEFAULT64" => m.eosz # 32
               /\ long /\ map = "FORCE64" => eosz = 64
               /\ settled => /\ eosz = 64 => ~m.eosz64_forbidden
                             /\ eosz \in m.def.operand_sizes)

SizesSettled(m, request) ==
    IF m.ok THEN OperandSizeSettled(AddressSizeSettled(m, request), request) ELSE m

\* one pass of the loop; next is the definition after this one
Compared(m, request, def, next) ==
    LET start == Reset(m, request, def)
        fits == /\ start.eosz = 8 => def.operand_size_map = "BYTEOP"
                /\ ZydisArePrefixesCompatible(def, request.prefixes)
        same == IF fits THEN ZydisIsDefinitionCompatible(start, request)
                ELSE Fail(start)
    IN SizesSettled(ZydisHandleSwappableDefinition(same, request, next), request)

=============================================================================
