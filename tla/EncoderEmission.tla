-------------------------- MODULE EncoderEmission --------------------------
(***************************************************************************)
(* From a match to the bytes (ZydisBuildInstruction, ZydisEmitInstruction  *)
(* and ZydisEncoderEncodeInstructionInternal, src/Encoder.c), for the      *)
(* legacy encoding with REX and REX2, and for VEX and XOP.                 *)
(*                                                                         *)
(* The bytes are a record of their fields in the order they are emitted:   *)
(* the prefixes, REX or REX2 or VEX or XOP, the opcode, ModRM, SIB,        *)
(* displacement and immediate; of 3DNow! the opcode is the last byte.  Registers are numbered 0..31; the high bits of a number *)
(* are its quotient by 8.  The payload of EVEX and MVEX is that of module  *)
(* VectorFeatures and left out here.                                       *)
(***************************************************************************)
EXTENDS EncoderMatching, FiniteSets

ZYDIS_MAX_INSTRUCTION_LENGTH == 15

\* ZydisEncoderInstruction after the ZYAN_MEMSET
Cleared == [attributes |-> {}, encoding |-> "LEGACY", opcode_map |-> "DEFAULT",
            opcode |-> 0, rex_w |-> FALSE, vector_length |-> 0, mod |-> 0,
            reg |-> 0, rm |-> 0, base |-> 0, index |-> 0, scale |-> 0, vvvv |-> 0,
            disp_size |-> 0, disp |-> 0, imm_size |-> 0, imm |-> 0]

With(i, attribute) == [i EXCEPT !.attributes = @ \cup {attribute}]
WithIf(i, condition, attribute) == IF condition THEN With(i, attribute) ELSE i

----------------------------------------------------------------------------
(* Operands                                                                *)

\* REX, empty, is what makes number 4..7 mean SPL..DIL
NeedsRex(reg) == reg.class = "GPR8" /\ reg.id \in 8 .. 11

ZydisBuildRegisterOperand(i, op, def) ==
    LET id == ZydisGetPhysicalId(op.reg)
        j == WithIf(i, NeedsRex(op.reg), "REX")
    IN IF def.type = "IMPLICIT_REG" THEN i
       ELSE IF def.encoding = "MODRM_REG" THEN [With(j, "MODRM") EXCEPT !.reg = id]
       ELSE IF def.encoding = "MODRM_RM" THEN [With(j, "MODRM") EXCEPT !.rm = id]
       ELSE IF def.encoding = "OPCODE" THEN [j EXCEPT !.opcode = @ + Low(id), !.rm = id]
       ELSE IF def.encoding = "NDSNDD" THEN [j EXCEPT !.vvvv = id]
       ELSE [j EXCEPT !.imm_size = 8, !.imm = 16 * id]

\* a 16-bit address; [BP] needs a displacement
BuildMemory16(i, m, op) ==
    LET rm == ZydisGetRm16(op.base, op.index)
        size == IF m.disp_size = 0 /\ rm = 6 THEN 8 ELSE m.disp_size
    IN IF rm = -1 THEN [i EXCEPT !.rm = 6, !.disp_size = 16]
       ELSE [i EXCEPT !.rm = rm, !.disp_size = size, !.mod = size \div 8]

\* no register, or the instruction pointer
BuildAbsolute(i, request) ==
    IF request.machine_mode = "LONG_64"
    THEN [With(i, "SIB") EXCEPT !.rm = 4, !.base = 5, !.index = 4, !.disp_size = 32]
    ELSE [i EXCEPT !.rm = 5, !.disp_size = 32]
BuildRipRelative(i) == [i EXCEPT !.rm = 5, !.disp_size = 32]

\* mutant: R13 and R21 are forgotten
DisplacementFieldNumber5(i, m, op) ==
    IF m.disp_size = 0 /\ op.base # NoRegister /\ op.base.id = 5 THEN
           [i EXCEPT !.disp_size = 8, !.disp = 0, !.mod = 1]
    ELSE IF m.disp_size = 0 THEN [i EXCEPT !.disp_size = 0]
    ELSE IF m.disp_size = 8 THEN [i EXCEPT !.disp_size = 8, !.mod = 1]
    ELSE [i EXCEPT !.disp_size = 32, !.mod = 2]

\* number 5 in ModRM.rm or in SIB.base needs a displacement
DisplacementField(i, m, op) ==
    IF m.disp_size = 0 /\ op.base # NoRegister /\ Low(op.base.id) = 5 THEN
           [i EXCEPT !.disp_size = 8, !.disp = 0, !.mod = 1]
    ELSE IF m.disp_size = 0 THEN [i EXCEPT !.disp_size = 0]
    ELSE IF m.disp_size = 8 THEN [i EXCEPT !.disp_size = 8, !.mod = 1]
    ELSE [i EXCEPT !.disp_size = 32, !.mod = 2]

ScaleBits == [s \in {0, 1, 2, 4, 8} |-> CASE s \in {0, 1} -> 0 [] s = 2 -> 1
                                          [] s = 4 -> 2 [] s = 8 -> 3]
BuildSib(i, op) ==
    LET based == IF op.base # NoRegister THEN [i EXCEPT !.base = op.base.id]
                 ELSE [i EXCEPT !.base = 5, !.mod = 0, !.disp_size = 32]
    IN [With(based, "SIB") EXCEPT
          !.rm = 4, !.scale = ScaleBits[op.scale],
          !.index = IF op.index # NoRegister THEN op.index.id ELSE 4]

BuildRegisterMemory(i, m, op) ==
    LET j == DisplacementField(i, m, op)
    IN IF /\ op.index = NoRegister /\ op.base # NoRegister
          /\ Low(op.base.id) # 4 /\ m.def.modrm % 8 # 4
       THEN [j EXCEPT !.rm = op.base.id]
       ELSE BuildSib(j, op)

ZydisBuildMemoryOperand(i, m, request, op) ==
    LET j == [With(i, "MODRM") EXCEPT !.disp = op.displacement]
        bare == op.index = NoRegister
    IN IF m.easz = 16 THEN BuildMemory16(j, m, op)
       ELSE IF bare /\ op.base = NoRegister THEN BuildAbsolute(j, request)
       ELSE IF bare /\ IsRipRelative(op) THEN BuildRipRelative(j)
       ELSE BuildRegisterMemory(j, m, op)

BuildImmediate(i, m, op, def) ==
    IF def.type = "IMPLICIT_IMM1" THEN i
    ELSE IF def.encoding = "IS4" THEN [i EXCEPT !.imm = @ + op.imm]
    ELSE IF i.imm_size # 0 THEN [i EXCEPT !.disp_size = m.disp_size, !.disp = i.imm,
                                          !.imm_size = m.imm_size, !.imm = op.imm]
    ELSE [i EXCEPT !.imm_size = m.imm_size, !.imm = op.imm]

BuildOperand(i, m, request, op, def) ==
    IF op.type = "REGISTER" THEN ZydisBuildRegisterOperand(i, op, def)
    ELSE IF op.type = "MEMORY" /\ def.type = "MOFFS" THEN
           [i EXCEPT !.disp_size = m.disp_size, !.disp = op.displacement]
    ELSE IF op.type = "MEMORY" THEN ZydisBuildMemoryOperand(i, m, request, op)
    ELSE IF op.type = "POINTER" THEN
           [i EXCEPT !.disp_size = m.disp_size, !.disp = op.offset,
                     !.imm_size = m.imm_size, !.imm = op.segment]
    ELSE BuildImmediate(i, m, op, def)

----------------------------------------------------------------------------
(* The instruction                                                         *)

MandatoryAttribute == ("66" :> "OPERANDSIZE") @@ ("F2" :> "REPNE") @@ ("F3" :> "REP")

\* fields the definition gives
FromDefinition(m, request) ==
    LET def == m.def
        i == [Cleared EXCEPT !.attributes = request.prefixes,
                 !.encoding = def.encoding, !.opcode_map = def.opcode_map,
                 !.opcode = def.opcode, !.rex_w = def.rex_w,
                 !.mod = def.modrm \div 64, !.reg = (def.modrm \div 8) % 8,
                 !.rm = def.modrm % 8,
                 !.vector_length = IF def.vector_length = 256 THEN 1 ELSE 0]
        j == WithIf(WithIf(i, def.modrm # 0, "MODRM"), def.rex2 = "MANDATORY", "REX2")
    IN WithIf(j, def.mandatory_prefix # NONE,
              IF def.mandatory_prefix = NONE THEN NONE
              ELSE MandatoryAttribute[def.mandatory_prefix])

\* what asks for the effective sizes: 0x66, 0x67 and REX.W
SizeAttributes(i, m, request) ==
    LET mode == ZydisGetMachineModeWidth(request.machine_mode)
        map == m.def.operand_size_map
        j == WithIf(i, m.easz # mode, "ADDRESSSIZE")
    IN IF mode # 64 \/ map = "FORCE64" THEN WithIf(j, m.eosz # mode, "OPERANDSIZE")
       ELSE IF m.eosz = 16 THEN With(j, "OPERANDSIZE")
       ELSE IF m.eosz = 32 THEN j
       ELSE [j EXCEPT !.rex_w = map # "DEFAULT64"]

ZydisBuildInstruction(m, request) ==
    FoldLeftDomain(LAMBDA i, n : BuildOperand(i, m, request, request.operands[n],
                                              m.def.operands[n]),
                   SizeAttributes(FromDefinition(m, request), m, request),
                   request.operands)

----------------------------------------------------------------------------
(* Emission                                                                *)

Compressed(i) == i.encoding \in {"XOP", "VEX"}

\* the bytes of each group, each at most once, by the attributes that ask
\* for it
ByteOf == [b \in {"F0", "F2", "F3", "2E", "36", "3E", "26", "64", "65", "66", "67"} |->
    CASE b = "F0" -> {"LOCK"}
      [] b = "F2" -> {"REPNE", "BND", "XACQUIRE"}
      [] b = "F3" -> {"REP", "REPE", "XRELEASE"}
      [] b = "2E" -> {"SEGMENT_CS", "BRANCH_NOT_TAKEN"}
      [] b = "36" -> {"SEGMENT_SS"}
      [] b = "3E" -> {"SEGMENT_DS", "BRANCH_TAKEN", "NOTRACK"}
      [] b = "26" -> {"SEGMENT_ES"}
      [] b = "64" -> {"SEGMENT_FS"}
      [] b = "65" -> {"SEGMENT_GS"}
      [] b = "66" -> {"OPERANDSIZE"}
      [] b = "67" -> {"ADDRESSSIZE"}]
ZydisEmitLegacyPrefixes(i) ==
    LET carried == IF Compressed(i) THEN {"F2", "F3", "66"} ELSE {}
    IN {b \in DOMAIN ByteOf \ carried : ByteOf[b] \cap i.attributes # {}}

\* W and the high bits of the numbers in ModRM.reg, SIB.index and ModRM.rm
\* or SIB.base
ZydisEncodeRex2(i) ==
    LET sib == "SIB" \in i.attributes
        modrm == "MODRM" \in i.attributes
    IN [w |-> i.rex_w, r |-> IF modrm THEN High(i.reg) ELSE 0,
        x |-> IF sib THEN High(i.index) ELSE 0,
        b |-> High(IF sib THEN i.base ELSE i.rm)]

NoRex == [kind |-> NONE, w |-> FALSE, r |-> 0, x |-> 0, b |-> 0]
ZydisEmitRex(i) ==
    LET rex == ZydisEncodeRex2(i)
        high == \E n \in {rex.r, rex.x, rex.b} : n >= 2
        Kind(kind) == [kind |-> kind] @@ rex
    IN IF high \/ "REX2" \in i.attributes THEN Kind("REX2")
       ELSE IF rex # [w |-> FALSE, r |-> 0, x |-> 0, b |-> 0]
                 \/ "REX" \in i.attributes THEN Kind("REX")
       ELSE NoRex

PrefixOfVex(i) ==
    IF "OPERANDSIZE" \in i.attributes THEN "66"
    ELSE IF "REP" \in i.attributes THEN "F3"
    ELSE IF "REPNE" \in i.attributes THEN "F2"
    ELSE NONE
NoVex == [kind |-> NONE, pp |-> NONE, vvvv |-> 0, l |-> 0]
\* the two bytes of C5 stand for map 0F and hold no X, B and W
ZydisEmitVex(i) ==
    LET rex == ZydisEncodeRex2(i)
        short == i.opcode_map = "0F" /\ ~rex.w /\ rex.x = 0 /\ rex.b = 0
    IN [kind |-> IF i.encoding = "XOP" THEN "8F"
                 ELSE IF short THEN "C5"
                 ELSE "C4",
        pp |-> PrefixOfVex(i), vvvv |-> i.vvvv, l |-> i.vector_length]
VexRex(i) == [kind |-> NONE] @@ [n \in {"r", "x", "b"} |-> ZydisEncodeRex2(i)[n] % 2]
                             @@ [w |-> i.rex_w]

ZydisEmitInstruction(i) ==
    LET modrm == "MODRM" \in i.attributes
        sib == "SIB" \in i.attributes
    IN [prefixes |-> ZydisEmitLegacyPrefixes(i),
        rex |-> IF Compressed(i) THEN VexRex(i) ELSE ZydisEmitRex(i),
        vex |-> IF Compressed(i) THEN ZydisEmitVex(i) ELSE NoVex,
        opcode_map |-> i.opcode_map, opcode |-> i.opcode,
        has_modrm |-> modrm,
        modrm |-> IF modrm THEN <<i.mod, Low(i.reg), Low(i.rm)>> ELSE <<0, 0, 0>>,
        has_sib |-> sib,
        sib |-> IF sib THEN <<i.scale, Low(i.index), Low(i.base)>> ELSE <<0, 0, 0>>,
        disp_size |-> i.disp_size,
        disp |-> IF i.disp_size = 0 THEN 0 ELSE Unsigned(i.disp, i.disp_size),
        imm_size |-> i.imm_size,
        imm |-> IF i.imm_size = 0 THEN 0 ELSE Unsigned(i.imm, i.imm_size)]

\* REX2 and VEX hold the opcode map
MapLength(bytes) ==
    IF bytes.rex.kind = "REX2" \/ bytes.vex.kind # NONE THEN 0
    ELSE IF bytes.opcode_map = "DEFAULT" THEN 0
    ELSE IF bytes.opcode_map = "0F" THEN 1
    ELSE 2
PrefixLength == [NONE |-> 0, REX |-> 1, REX2 |-> 2, C5 |-> 2] @@ ("C4" :> 3)
                @@ ("8F" :> 3)
Count(condition) == IF condition THEN 1 ELSE 0
Length(bytes) ==
    Cardinality(bytes.prefixes) + PrefixLength[bytes.rex.kind]
    + PrefixLength[bytes.vex.kind] + MapLength(bytes) + 1
    + Count(bytes.has_modrm) + Count(bytes.has_sib)
    + (bytes.disp_size \div 8) + (bytes.imm_size \div 8)

\* what lies behind the displacement: the immediate, and the opcode of 3DNow!
Behind(bytes) == bytes.imm_size \div 8 + Count(bytes.opcode_map = "0F0F")

\* the status of emitting into a buffer of limit bytes
EmitStatus(bytes, limit) ==
    IF Length(bytes) <= limit /\ Length(bytes) <= ZYDIS_MAX_INSTRUCTION_LENGTH THEN
           "SUCCESS"
    ELSE IF limit >= ZYDIS_MAX_INSTRUCTION_LENGTH THEN "INSTRUCTION_TOO_LONG"
    ELSE "INSUFFICIENT_BUFFER_SIZE"

=============================================================================
