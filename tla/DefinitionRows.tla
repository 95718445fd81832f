--------------------------- MODULE DefinitionRows ---------------------------
(***************************************************************************)
(* Definitions of a few mnemonics as the tables under src/Generated hold   *)
(* them, for model checking: the encoder's list of each mnemonic           *)
(* (EncoderTables.inc), the entry of InstructionDefinitions.inc and of     *)
(* OperandDefinitions.inc it refers to, and the nodes of DecoderTables.inc *)
(* that lead to that entry.  Nodes that choose by the mode of the decoder  *)
(* (MPX, CET, KNC, ...) are followed as in the default configuration.  The *)
(* mnemonics are chosen for their operands: every way in which an operand  *)
(* is encoded occurs.                                                      *)
(***************************************************************************)
EXTENDS Registers, TLC

----------------------------------------------------------------------------
(* One entry: the fields that differ from the most common value            *)

Plain == [opcode_map |-> "DEFAULT", encoding |-> "LEGACY", modrm |-> 0,
          mandatory_prefix |-> NONE, modes |-> {16, 32, 64},
          address_sizes |-> {16, 32, 64}, operand_sizes |-> {16, 32, 64},
          rex_w |-> FALSE, rex2 |-> "ALLOWED", vector_length |-> 0,
          accepts_hint |-> NONE, swappable |-> FALSE,
          operand_size_map |-> "DEFAULT", address_size_map |-> "DEFAULT",
          branch_type |-> "NONE", accepts_segment |-> FALSE,
          requires_protected_mode |-> FALSE, no_compat_mode |-> FALSE,
          accepts |-> {}, is_gather |-> FALSE, force_reg_form |-> FALSE]
Row(mnemonic, opcode, paths, changes, operands) ==
    [mnemonic |-> mnemonic, opcode |-> opcode, paths |-> paths,
     operands |-> operands] @@ changes @@ Plain

Only64 == [modes |-> {64}, address_sizes |-> {32, 64}]
OnlyNot64 == [modes |-> {16, 32}, address_sizes |-> {16, 32}]
RegisterModrm == [modrm |-> 192]
Osz(sizes) == [operand_sizes |-> sizes]
ByteOp == [operand_size_map |-> "BYTEOP"]
Default64 == [operand_size_map |-> "DEFAULT64"]
Force64 == [operand_size_map |-> "FORCE64"]
Ignored66 == [operand_size_map |-> "IGNORED66"]
SystemRegister == [operand_size_map |-> "FORCE64_OR_32", force_reg_form |-> TRUE]
OszHint == [accepts_hint |-> "OSZ"]
Swaps == [swappable |-> TRUE]
Segment == [accepts_segment |-> TRUE]
Lockable == [accepts |-> {"LOCK", "XACQUIRE", "XRELEASE"}]
LockImplied == [accepts |-> {"LOCK", "XACQUIRE", "XRELEASE", "HLE_WITHOUT_LOCK"}]
Releasable == [accepts |-> {"XRELEASE", "HLE_WITHOUT_LOCK"}]
NoRex2Form == [rex2 |-> "FORBIDDEN"]
Map(map) == [opcode_map |-> map]
Needs(prefix) == [mandatory_prefix |-> prefix]
Branch(type) == [branch_type |-> type]
Vex128 == [encoding |-> "VEX", rex2 |-> "FORBIDDEN", vector_length |-> 128]
Vex256 == [encoding |-> "VEX", rex2 |-> "FORBIDDEN", vector_length |-> 256]
Xop128 == [Vex128 EXCEPT !.encoding = "XOP"]
Xop256 == [Vex256 EXCEPT !.encoding = "XOP"]
Amd3DNow == [encoding |-> "3DNOW", rex2 |-> "FORBIDDEN", opcode_map |-> "0F0F"]

\* the nodes that lead to a definition
Always == {{}}
NoRex2 == <<"REX_2", 0>>
In64 == <<"MODE_COMPACT", 0>>
Not64 == <<"MODE_COMPACT", 1>>
RegForm == <<"MODRM_MOD_COMPACT", 0>>
MemForm == <<"MODRM_MOD_COMPACT", 1>>
Group(n) == <<"MODRM_REG", n>>
Prefix(n) == <<"MANDATORY_PREFIX", n>>
W(n) == <<"REX_W", n>>
VL(n) == <<"VECTOR_LENGTH", n>>
GatherPaths(vl) ==
    {{<<"MODRM_RM", 4>>, VL(vl), MemForm, W(0), <<"ADDRESS_SIZE", a>>} : a \in {1, 2}}

----------------------------------------------------------------------------
(* One operand                                                             *)

Element(kind, type, encoding, size) ==
    [kind |-> kind, type |-> type, encoding |-> encoding, size |-> size,
     write |-> FALSE, no_rip_rel |-> FALSE]
NoSize == <<0, 0, 0>>
R(type, encoding) == Element("REGISTER", type, encoding, NoSize)
InReg(type) == R(type, "MODRM_REG")
InRm(type) == R(type, "MODRM_RM")
Written(op) == [op EXCEPT !.write = TRUE]
Implicit(register) == [register |-> register] @@ R("IMPLICIT_REG", NONE)
Fixed(class, number) == [reg |-> Reg(class, number)] @@ Implicit("STATIC")
Accumulator == [id |-> 0] @@ Implicit("GPR_OSZ")
Memory(type, size) == Element("MEMORY", type, "MODRM_RM", size)
M(size) == Memory("MEM", size)
WithoutRip(op) == [op EXCEPT !.no_rip_rel = TRUE]
Moffs(size) == Element("MEMORY", "MOFFS", "DISP16_32_64", size)
Imm(encoding) == Element("IMMEDIATE", "IMM", encoding, NoSize)
Rel(encoding) == Element("IMMEDIATE", "REL", encoding, NoSize)
Abs(encoding) == Element("IMMEDIATE", "ABS", encoding, NoSize)
Pointer == Element("POINTER", "PTR", "PTR", NoSize)

----------------------------------------------------------------------------
(* The definitions                                                         *)

Rows_mov ==
  <<Row("mov", 160, {{NoRex2}}, ByteOp @@ Segment @@ NoRex2Form,
        <<Fixed("GPR8", 0), Moffs(<<1, 1, 1>>)>>),
    Row("mov", 161, {{NoRex2, Prefix(0)}}, Segment @@ NoRex2Form,
        <<Accumulator, Moffs(<<2, 4, 8>>)>>),
    Row("mov", 162, {{NoRex2}}, ByteOp @@ Segment @@ NoRex2Form,
        <<Moffs(<<1, 1, 1>>), Fixed("GPR8", 0)>>),
    Row("mov", 163, {{NoRex2}}, Segment @@ NoRex2Form,
        <<Moffs(<<2, 4, 8>>), Accumulator>>),
    Row("mov", 136, {{RegForm}}, RegisterModrm @@ ByteOp,
        <<InRm("GPR8"), InReg("GPR8")>>),
    Row("mov", 136, {{MemForm}}, ByteOp @@ Segment @@ Releasable,
        <<M(<<1, 1, 1>>), InReg("GPR8")>>),
    Row("mov", 137, {{RegForm}}, RegisterModrm,
        <<InRm("GPR16_32_64"), InReg("GPR16_32_64")>>),
    Row("mov", 137, {{MemForm}}, Segment @@ Releasable,
        <<M(<<2, 4, 8>>), InReg("GPR16_32_64")>>),
    Row("mov", 138, {{RegForm}}, RegisterModrm @@ ByteOp,
        <<InReg("GPR8"), InRm("GPR8")>>),
    Row("mov", 138, {{MemForm}}, ByteOp @@ Segment,
        <<InReg("GPR8"), M(<<1, 1, 1>>)>>),
    Row("mov", 139, {{RegForm}}, RegisterModrm,
        <<InReg("GPR16_32_64"), InRm("GPR16_32_64")>>),
    Row("mov", 139, {{MemForm}}, Segment,
        <<InReg("GPR16_32_64"), M(<<2, 4, 8>>)>>),
    Row("mov", 140, {{RegForm}}, RegisterModrm,
        <<InRm("GPR16_32_64"), InReg("SREG")>>),
    Row("mov", 140, {{MemForm}}, Segment, <<M(<<2, 2, 2>>), InReg("SREG")>>),
    Row("mov", 142, {{RegForm}}, RegisterModrm,
        <<Written(InReg("SREG")), InRm("GPR16")>>),
    Row("mov", 142, {{MemForm}}, Segment,
        <<Written(InReg("SREG")), M(<<2, 2, 2>>)>>),
    Row("mov", 176, Always, ByteOp, <<R("GPR8", "OPCODE"), Imm("SIMM8")>>),
    Row("mov", 198, {{RegForm, Group(0)}}, RegisterModrm @@ ByteOp,
        <<InRm("GPR8"), Imm("SIMM8")>>),
    Row("mov", 198, {{MemForm, Group(0)}}, ByteOp @@ Segment @@ Releasable,
        <<M(<<1, 1, 1>>), Imm("SIMM8")>>),
    Row("mov", 32, {{In64}}, Only64 @@ SystemRegister @@ Map("0F"),
        <<InRm("GPR64"), InReg("CR")>>),
    Row("mov", 32, {{Not64}}, OnlyNot64 @@ SystemRegister @@ Map("0F"),
        <<InRm("GPR32"), InReg("CR")>>),
    Row("mov", 33, {{In64}}, Only64 @@ SystemRegister @@ Map("0F"),
        <<InRm("GPR64"), InReg("DR")>>),
    Row("mov", 33, {{Not64}}, OnlyNot64 @@ SystemRegister @@ Map("0F"),
        <<InRm("GPR32"), InReg("DR")>>),
    Row("mov", 34, {{In64}}, Only64 @@ SystemRegister @@ Map("0F"),
        <<InReg("CR"), InRm("GPR64")>>),
    Row("mov", 34, {{Not64}}, OnlyNot64 @@ SystemRegister @@ Map("0F"),
        <<InReg("CR"), InRm("GPR32")>>),
    Row("mov", 35, {{In64}}, Only64 @@ SystemRegister @@ Map("0F"),
        <<InReg("DR"), InRm("GPR64")>>),
    Row("mov", 35, {{Not64}}, OnlyNot64 @@ SystemRegister @@ Map("0F"),
        <<InReg("DR"), InRm("GPR32")>>),
    Row("mov", 184, Always, Swaps,
        <<R("GPR16_32_64", "OPCODE"), Imm("SIMM16_32_64")>>),
    Row("mov", 199, {{RegForm, Group(0)}}, RegisterModrm,
        <<InRm("GPR16_32_64"), Imm("SIMM16_32_32")>>),
    Row("mov", 199, {{MemForm, Group(0)}}, Segment @@ Releasable,
        <<M(<<2, 4, 8>>), Imm("SIMM16_32_32")>>)>>
Rows_push ==
  <<Row("push", 6, {{Not64}}, OnlyNot64 @@ OszHint, <<Fixed("SEGMENT", 0)>>),
    Row("push", 14, {{Not64}}, OnlyNot64 @@ OszHint, <<Fixed("SEGMENT", 1)>>),
    Row("push", 22, {{Not64}}, OnlyNot64 @@ OszHint, <<Fixed("SEGMENT", 2)>>),
    Row("push", 30, {{Not64}}, OnlyNot64 @@ OszHint, <<Fixed("SEGMENT", 3)>>),
    Row("push", 80, {{NoRex2}, {<<"REX_2", 1>>, In64, W(0)}}, Default64,
        <<R("GPR16_32_64", "OPCODE")>>),
    Row("push", 106, Always, Default64 @@ OszHint, <<Imm("SIMM8")>>),
    Row("push", 255, {{RegForm, Group(6)}}, Default64 @@ [modrm |-> 240],
        <<InRm("GPR16_32_64")>>),
    Row("push", 255, {{MemForm, Group(6)}}, Default64 @@ Segment @@ [modrm
        |-> 48], <<M(<<2, 4, 8>>)>>),
    Row("push", 160, Always, Default64 @@ OszHint @@ Map("0F"),
        <<Fixed("SEGMENT", 4)>>),
    Row("push", 168, Always, Default64 @@ OszHint @@ Map("0F"),
        <<Fixed("SEGMENT", 5)>>),
    Row("push", 104, Always, Default64 @@ OszHint, <<Imm("SIMM16_32_32")>>)>>
Rows_xchg ==
  <<Row("xchg", 144, {{Prefix(0), <<"REX_B", 1>>}, {}}, Swaps,
        <<R("GPR16_32_64", "OPCODE"), Accumulator>>),
    Row("xchg", 134, {{RegForm}}, RegisterModrm @@ ByteOp,
        <<InRm("GPR8"), InReg("GPR8")>>),
    Row("xchg", 134, {{MemForm}}, ByteOp @@ Segment @@ LockImplied,
        <<M(<<1, 1, 1>>), InReg("GPR8")>>),
    Row("xchg", 135, {{RegForm}}, RegisterModrm,
        <<InRm("GPR16_32_64"), InReg("GPR16_32_64")>>),
    Row("xchg", 135, {{MemForm}}, Segment @@ LockImplied,
        <<M(<<2, 4, 8>>), InReg("GPR16_32_64")>>)>>
Rows_lea ==
  <<Row("lea", 141, {{MemForm}}, Plain,
        <<InReg("GPR16_32_64"), Memory("AGEN", <<0, 0, 0>>)>>)>>
Rows_bndldx ==
  <<Row("bndldx", 26, {{MemForm, Prefix(1), In64}}, Only64 @@ Segment
        @@ Map("0F") @@ [address_size_map |-> "IGNORED"],
        <<InReg("BND"), WithoutRip(Memory("MIB", <<24, 24, 24>>))>>),
    Row("bndldx", 26, {{MemForm, Prefix(1), Not64, <<"ADDRESS_SIZE", 1>>}},
        Segment @@ Map("0F") @@ [modes |-> {16, 32}, address_sizes |-> {32}],
        <<InReg("BND"), WithoutRip(Memory("MIB", <<12, 12, 12>>))>>)>>
Rows_in ==
  <<Row("in", 236, {{NoRex2}}, ByteOp @@ NoRex2Form,
        <<Fixed("GPR8", 0), Fixed("GPR16", 2)>>),
    Row("in", 237, {{NoRex2, <<"OPERAND_SIZE", 0>>}}, NoRex2Form @@ Osz({16})
        @@ [operand_size_map |-> "REXW32"],
        <<Fixed("GPR16", 0), Fixed("GPR16", 2)>>),
    Row("in", 237,
        {{NoRex2, <<"OPERAND_SIZE", 1>>}, {NoRex2, <<"OPERAND_SIZE", 2>>}},
        NoRex2Form @@ Osz({32, 64}) @@ [operand_size_map |-> "REXW32"],
        <<Fixed("GPR32", 0), Fixed("GPR16", 2)>>),
    Row("in", 228, {{NoRex2}}, ByteOp @@ NoRex2Form,
        <<Fixed("GPR8", 0), Imm("UIMM8")>>),
    Row("in", 229, {{NoRex2, <<"OPERAND_SIZE", 0>>}}, NoRex2Form @@ Osz({16})
        @@ [operand_size_map |-> "REXW32"], <<Fixed("GPR16", 0), Imm("UIMM8")>>),
    Row("in", 229,
        {{NoRex2, <<"OPERAND_SIZE", 1>>}, {NoRex2, <<"OPERAND_SIZE", 2>>}},
        NoRex2Form @@ Osz({32, 64}) @@ [operand_size_map |-> "REXW32"],
        <<Fixed("GPR32", 0), Imm("UIMM8")>>)>>
Rows_enter ==
  <<Row("enter", 200, Always, Default64 @@ OszHint,
        <<Imm("UIMM16"), Imm("UIMM8")>>)>>
Rows_movdir64b ==
  <<Row("movdir64b", 248, {{MemForm, Prefix(2), In64}}, Only64 @@ Segment
        @@ NoRex2Form @@ Map("0F38") @@ Needs("66"),
        <<InReg("GPR_ASZ"), M(<<64, 64, 64>>)>>),
    Row("movdir64b", 248, {{MemForm, Prefix(2), Not64}}, OnlyNot64 @@ Segment
        @@ NoRex2Form @@ Map("0F38") @@ Needs("66"),
        <<InReg("GPR_ASZ"), M(<<64, 64, 64>>)>>)>>
Rows_cvtsi2sd ==
  <<Row("cvtsi2sd", 42, {{RegForm, Prefix(4), W(0)}}, RegisterModrm @@ Ignored66
        @@ Map("0F") @@ Needs("F2"), <<InReg("XMM"), InRm("GPR32")>>),
    Row("cvtsi2sd", 42, {{MemForm, Prefix(4), W(0)}}, Segment @@ Ignored66
        @@ Map("0F") @@ Needs("F2"), <<InReg("XMM"), M(<<4, 4, 4>>)>>),
    Row("cvtsi2sd", 42, {{RegForm, Prefix(4), W(1)}}, Only64 @@ RegisterModrm
        @@ Ignored66 @@ Map("0F") @@ Needs("F2") @@ [rex_w |-> TRUE],
        <<InReg("XMM"), InRm("GPR64")>>),
    Row("cvtsi2sd", 42, {{MemForm, Prefix(4), W(1)}}, Only64 @@ Segment
        @@ Ignored66 @@ Map("0F") @@ Needs("F2") @@ [rex_w |-> TRUE],
        <<InReg("XMM"), M(<<8, 8, 8>>)>>)>>
Rows_crc32 ==
  <<Row("crc32", 240, {{RegForm, Prefix(4)}}, RegisterModrm @@ NoRex2Form
        @@ Map("0F38") @@ Needs("F2"), <<InReg("GPR32_32_64"), InRm("GPR8")>>),
    Row("crc32", 240, {{MemForm, Prefix(4)}}, Segment @@ NoRex2Form
        @@ Map("0F38") @@ Needs("F2"), <<InReg("GPR32_32_64"), M(<<1, 1, 1>>)>>),
    Row("crc32", 241, {{RegForm, Prefix(4)}}, RegisterModrm @@ NoRex2Form
        @@ Map("0F38") @@ Needs("F2"),
        <<InReg("GPR32_32_64"), InRm("GPR16_32_64")>>),
    Row("crc32", 241, {{MemForm, Prefix(4)}}, Segment @@ NoRex2Form
        @@ Map("0F38") @@ Needs("F2"), <<InReg("GPR32_32_64"), M(<<2, 4, 8>>)>>)>>
Rows_movsxd ==
  <<Row("movsxd", 99, {{RegForm, In64}}, Only64 @@ RegisterModrm,
        <<InReg("GPR16_32_64"), InRm("GPR16_32_32")>>),
    Row("movsxd", 99, {{MemForm, In64}}, Only64 @@ Segment,
        <<InReg("GPR16_32_64"), M(<<4, 4, 4>>)>>)>>
Rows_add ==
  <<Row("add", 0, {{RegForm}}, RegisterModrm @@ ByteOp,
        <<InRm("GPR8"), InReg("GPR8")>>),
    Row("add", 0, {{MemForm}}, ByteOp @@ Segment @@ Lockable,
        <<M(<<1, 1, 1>>), InReg("GPR8")>>),
    Row("add", 1, {{RegForm}}, RegisterModrm,
        <<InRm("GPR16_32_64"), InReg("GPR16_32_64")>>),
    Row("add", 1, {{MemForm}}, Segment @@ Lockable,
        <<M(<<2, 4, 8>>), InReg("GPR16_32_64")>>),
    Row("add", 2, {{RegForm}}, RegisterModrm @@ ByteOp,
        <<InReg("GPR8"), InRm("GPR8")>>),
    Row("add", 2, {{MemForm}}, ByteOp @@ Segment,
        <<InReg("GPR8"), M(<<1, 1, 1>>)>>),
    Row("add", 3, {{RegForm}}, RegisterModrm,
        <<InReg("GPR16_32_64"), InRm("GPR16_32_64")>>),
    Row("add", 3, {{MemForm}}, Segment,
        <<InReg("GPR16_32_64"), M(<<2, 4, 8>>)>>),
    Row("add", 4, Always, ByteOp, <<Fixed("GPR8", 0), Imm("SIMM8")>>),
    Row("add", 128, {{RegForm, Group(0)}, {RegForm, Group(0), Not64}},
        RegisterModrm @@ ByteOp, <<InRm("GPR8"), Imm("SIMM8")>>),
    Row("add", 128, {{MemForm, Group(0)}, {MemForm, Group(0), Not64}}, ByteOp
        @@ Segment @@ Lockable, <<M(<<1, 1, 1>>), Imm("SIMM8")>>),
    Row("add", 130, {{RegForm, Group(0)}, {RegForm, Group(0), Not64}}, OnlyNot64
        @@ RegisterModrm @@ ByteOp, <<InRm("GPR8"), Imm("SIMM8")>>),
    Row("add", 130, {{MemForm, Group(0)}, {MemForm, Group(0), Not64}}, OnlyNot64
        @@ ByteOp @@ Segment @@ Lockable, <<M(<<1, 1, 1>>), Imm("SIMM8")>>),
    Row("add", 131, {{RegForm, Group(0)}}, RegisterModrm,
        <<InRm("GPR16_32_64"), Imm("SIMM8")>>),
    Row("add", 131, {{MemForm, Group(0)}}, Segment @@ Lockable,
        <<M(<<2, 4, 8>>), Imm("SIMM8")>>),
    Row("add", 5, Always, Plain, <<Accumulator, Imm("SIMM16_32_32")>>),
    Row("add", 129, {{RegForm, Group(0)}}, RegisterModrm,
        <<InRm("GPR16_32_64"), Imm("SIMM16_32_32")>>),
    Row("add", 129, {{MemForm, Group(0)}}, Segment @@ Lockable,
        <<M(<<2, 4, 8>>), Imm("SIMM16_32_32")>>)>>
Rows_jmpabs ==
  <<Row("jmpabs", 161,
        {{<<"REX_2", 1>>, Prefix(1), In64, <<"ADDRESS_SIZE", 2>>, W(0)}},
        Branch("ABSOLUTE") @@ [modes |-> {64}, address_sizes |-> {64}, rex2
        |-> "MANDATORY"], <<Abs("JIMM64")>>)>>
Rows_jmp ==
  <<Row("jmp", 234, {{NoRex2, Not64}}, OnlyNot64 @@ Segment @@ NoRex2Form
        @@ Branch("FAR") @@ [accepts |-> {"NOTRACK"}], <<Pointer>>),
    Row("jmp", 235, {{NoRex2, In64}}, Only64 @@ Force64 @@ NoRex2Form
        @@ Branch("SHORT"), <<Rel("JIMM8")>>),
    Row("jmp", 235, {{NoRex2, Not64}}, OnlyNot64 @@ NoRex2Form
        @@ Branch("SHORT"), <<Rel("JIMM8")>>),
    Row("jmp", 255, {{RegForm, Group(4)}}, Force64 @@ Branch("NEAR") @@ [modrm
        |-> 224, accepts |-> {"BND", "NOTRACK"}], <<InRm("GPR16_32_64")>>),
    Row("jmp", 255, {{MemForm, Group(4)}}, Force64 @@ Segment @@ Branch("NEAR")
        @@ [modrm |-> 32, accepts |-> {"BND", "NOTRACK"}], <<M(<<2, 4, 8>>)>>),
    Row("jmp", 255, {{MemForm, Group(5)}}, Segment @@ Branch("FAR") @@ [modrm
        |-> 40], <<M(<<4, 6, 10>>)>>),
    Row("jmp", 233, {{NoRex2, Not64}}, OnlyNot64 @@ NoRex2Form @@ Branch("NEAR")
        @@ [accepts |-> {"BND"}], <<Rel("JIMM16_32_32")>>),
    Row("jmp", 233, {{NoRex2, In64}}, Only64 @@ Force64 @@ NoRex2Form
        @@ Branch("NEAR") @@ [accepts |-> {"BND"}], <<Rel("JIMM32")>>)>>
Rows_call ==
  <<Row("call", 154, {{Not64}}, OnlyNot64 @@ Segment @@ Branch("FAR")
        @@ [accepts |-> {"NOTRACK"}], <<Pointer>>),
    Row("call", 255, {{RegForm, Group(2)}}, Force64 @@ Branch("NEAR") @@ [modrm
        |-> 208, accepts |-> {"BND", "NOTRACK"}], <<InRm("GPR16_32_64")>>),
    Row("call", 255, {{MemForm, Group(2)}}, Force64 @@ Segment @@ Branch("NEAR")
        @@ [modrm |-> 16, accepts |-> {"BND", "NOTRACK"}], <<M(<<2, 4, 8>>)>>),
    Row("call", 255, {{MemForm, Group(3)}}, Segment @@ Branch("FAR") @@ [modrm
        |-> 24], <<M(<<4, 6, 10>>)>>),
    Row("call", 232, {{NoRex2, Not64}}, OnlyNot64 @@ NoRex2Form
        @@ Branch("NEAR") @@ [accepts |-> {"BND"}], <<Rel("JIMM16_32_32")>>),
    Row("call", 232, {{NoRex2, In64}}, Only64 @@ Force64 @@ NoRex2Form
        @@ Branch("NEAR") @@ [accepts |-> {"BND"}], <<Rel("JIMM32")>>)>>
Rows_jz ==
  <<Row("jz", 116, {{NoRex2, In64}}, Only64 @@ Force64 @@ NoRex2Form
        @@ Branch("SHORT") @@ [accepts |-> {"BND", "BRANCH_HINTS"}],
        <<Rel("JIMM8")>>),
    Row("jz", 116, {{NoRex2, Not64}}, OnlyNot64 @@ NoRex2Form @@ Branch("SHORT")
        @@ [accepts |-> {"BND", "BRANCH_HINTS"}], <<Rel("JIMM8")>>),
    Row("jz", 132, {{NoRex2, Not64}}, OnlyNot64 @@ NoRex2Form @@ Map("0F")
        @@ Branch("NEAR") @@ [accepts |-> {"BND", "BRANCH_HINTS"}],
        <<Rel("JIMM16_32_32")>>),
    Row("jz", 132, {{NoRex2, In64}}, Only64 @@ Force64 @@ NoRex2Form
        @@ Map("0F") @@ Branch("NEAR") @@ [accepts |-> {"BND", "BRANCH_HINTS"}],
        <<Rel("JIMM32")>>)>>
Rows_loop ==
  <<Row("loop", 226, {{NoRex2}}, Force64 @@ NoRex2Form @@ Branch("SHORT")
        @@ [accepts_hint |-> "ASZ"], <<Rel("JIMM8")>>)>>
Rows_jrcxz ==
  <<Row("jrcxz", 227, {{NoRex2, In64, <<"ADDRESS_SIZE", 2>>}}, Force64
        @@ NoRex2Form @@ Branch("SHORT") @@ [modes |-> {64}, address_sizes
        |-> {64}], <<Rel("JIMM8")>>)>>
Rows_jecxz ==
  <<Row("jecxz", 227, {{NoRex2, In64, <<"ADDRESS_SIZE", 1>>}}, Force64
        @@ NoRex2Form @@ Branch("SHORT") @@ [modes |-> {64}, address_sizes
        |-> {32}], <<Rel("JIMM8")>>),
    Row("jecxz", 227, {{NoRex2, Not64, <<"ADDRESS_SIZE", 1>>}}, NoRex2Form
        @@ Branch("SHORT") @@ [modes |-> {16, 32}, address_sizes |-> {32}],
        <<Rel("JIMM8")>>)>>
Rows_jcxz ==
  <<Row("jcxz", 227, {{NoRex2, Not64, <<"ADDRESS_SIZE", 0>>}}, NoRex2Form
        @@ Branch("SHORT") @@ [modes |-> {16, 32}, address_sizes |-> {16}],
        <<Rel("JIMM8")>>)>>
Rows_xbegin ==
  <<Row("xbegin", 199, {{RegForm, Group(7), <<"MODRM_RM", 0>>}}, OszHint
        @@ [modrm |-> 248], <<Rel("JIMM16_32_32")>>)>>
Rows_vpgatherdd ==
  <<Row("vpgatherdd", 144,
        GatherPaths(0),
        Segment @@ Vex128 @@ Map("0F38") @@ Needs("66") @@ [modrm |-> 4,
        address_sizes |-> {32, 64}, is_gather |-> TRUE],
        <<InReg("XMM"), WithoutRip(Memory("MEM_VSIBX", <<4, 4, 4>>)), R("XMM", "NDSNDD")>>),
    Row("vpgatherdd", 144,
        GatherPaths(1),
        Segment @@ Vex256 @@ Map("0F38") @@ Needs("66") @@ [modrm |-> 4,
        address_sizes |-> {32, 64}, is_gather |-> TRUE],
        <<InReg("YMM"), WithoutRip(Memory("MEM_VSIBY", <<4, 4, 4>>)), R("YMM", "NDSNDD")>>)>>
Rows_vblendvps ==
  <<Row("vblendvps", 74, {{VL(0), RegForm, W(0)}},
        RegisterModrm @@ Vex128 @@ Map("0F3A") @@ Needs("66"),
        <<InReg("XMM"), R("XMM", "NDSNDD"), InRm("XMM"), R("XMM", "IS4")>>),
    Row("vblendvps", 74, {{VL(1), RegForm, W(0)}},
        RegisterModrm @@ Vex256 @@ Map("0F3A") @@ Needs("66"),
        <<InReg("YMM"), R("YMM", "NDSNDD"), InRm("YMM"), R("YMM", "IS4")>>),
    Row("vblendvps", 74, {{VL(0), MemForm, W(0)}}, Segment
        @@ Vex128 @@ Map("0F3A") @@ Needs("66"),
        <<InReg("XMM"), R("XMM", "NDSNDD"), M(<<16, 16, 16>>), R("XMM", "IS4")>>),
    Row("vblendvps", 74, {{VL(1), MemForm, W(0)}}, Segment
        @@ Vex256 @@ Map("0F3A") @@ Needs("66"),
        <<InReg("YMM"), R("YMM", "NDSNDD"), M(<<32, 32, 32>>), R("YMM", "IS4")>>)>>
Rows_vmovaps ==
  <<Row("vmovaps", 40, {{VL(0), MemForm}}, Segment @@ Vex128
        @@ Map("0F"), <<InReg("XMM"), M(<<16, 16, 16>>)>>),
    Row("vmovaps", 40, {{VL(1), MemForm}}, Segment @@ Vex256
        @@ Map("0F"), <<InReg("YMM"), M(<<32, 32, 32>>)>>),
    Row("vmovaps", 41, {{VL(0), MemForm}}, Segment @@ Vex128
        @@ Map("0F"), <<M(<<16, 16, 16>>), InReg("XMM")>>),
    Row("vmovaps", 41, {{VL(1), MemForm}}, Segment @@ Vex256
        @@ Map("0F"), <<M(<<32, 32, 32>>), InReg("YMM")>>),
    Row("vmovaps", 40, {{VL(0), RegForm}}, RegisterModrm
        @@ Vex128 @@ Swaps @@ Map("0F"), <<InReg("XMM"), InRm("XMM")>>),
    Row("vmovaps", 41, {{VL(0), RegForm}}, RegisterModrm
        @@ Vex128 @@ Map("0F"), <<InRm("XMM"), InReg("XMM")>>),
    Row("vmovaps", 40, {{VL(1), RegForm}}, RegisterModrm
        @@ Vex256 @@ Swaps @@ Map("0F"), <<InReg("YMM"), InRm("YMM")>>),
    Row("vmovaps", 41, {{VL(1), RegForm}}, RegisterModrm
        @@ Vex256 @@ Map("0F"), <<InRm("YMM"), InReg("YMM")>>)>>
Rows_vprotb ==
  <<Row("vprotb", 144, {{VL(0), RegForm, W(0)}},
        RegisterModrm @@ Xop128 @@ Map("XOP9"),
        <<InReg("XMM"), InRm("XMM"), R("XMM", "NDSNDD")>>),
    Row("vprotb", 144, {{VL(0), RegForm, W(1)}},
        RegisterModrm @@ Xop128 @@ Map("XOP9") @@ [rex_w |-> TRUE],
        <<InReg("XMM"), R("XMM", "NDSNDD"), InRm("XMM")>>),
    Row("vprotb", 144, {{VL(0), MemForm, W(0)}}, Segment
        @@ Xop128 @@ Map("XOP9"),
        <<InReg("XMM"), M(<<16, 16, 16>>), R("XMM", "NDSNDD")>>),
    Row("vprotb", 144, {{VL(0), MemForm, W(1)}}, Segment
        @@ Xop128 @@ Map("XOP9") @@ [rex_w |-> TRUE],
        <<InReg("XMM"), R("XMM", "NDSNDD"), M(<<16, 16, 16>>)>>),
    Row("vprotb", 192, {{VL(0), RegForm, W(0)}},
        RegisterModrm @@ Xop128 @@ Map("XOP8"),
        <<InReg("XMM"), InRm("XMM"), Imm("UIMM8")>>),
    Row("vprotb", 192, {{VL(0), MemForm, W(0)}}, Segment
        @@ Xop128 @@ Map("XOP8"),
        <<InReg("XMM"), M(<<16, 16, 16>>), Imm("UIMM8")>>)>>
Rows_vpcmov ==
  <<Row("vpcmov", 162, {{VL(0), RegForm, W(0)}},
        RegisterModrm @@ Xop128 @@ Map("XOP8"),
        <<InReg("XMM"), R("XMM", "NDSNDD"), InRm("XMM"), R("XMM", "IS4")>>),
    Row("vpcmov", 162, {{VL(0), RegForm, W(1)}},
        RegisterModrm @@ Xop128 @@ Map("XOP8") @@ [rex_w |-> TRUE],
        <<InReg("XMM"), R("XMM", "NDSNDD"), R("XMM", "IS4"), InRm("XMM")>>),
    Row("vpcmov", 162, {{VL(1), RegForm, W(0)}},
        RegisterModrm @@ Xop256 @@ Map("XOP8"),
        <<InReg("YMM"), R("YMM", "NDSNDD"), InRm("YMM"), R("YMM", "IS4")>>),
    Row("vpcmov", 162, {{VL(1), RegForm, W(1)}},
        RegisterModrm @@ Xop256 @@ Map("XOP8") @@ [rex_w |-> TRUE],
        <<InReg("YMM"), R("YMM", "NDSNDD"), R("YMM", "IS4"), InRm("YMM")>>),
    Row("vpcmov", 162, {{VL(0), MemForm, W(0)}}, Segment
        @@ Xop128 @@ Map("XOP8"),
        <<InReg("XMM"), R("XMM", "NDSNDD"), M(<<16, 16, 16>>), R("XMM", "IS4")>>),
    Row("vpcmov", 162, {{VL(0), MemForm, W(1)}}, Segment
        @@ Xop128 @@ Map("XOP8") @@ [rex_w |-> TRUE],
        <<InReg("XMM"), R("XMM", "NDSNDD"), R("XMM", "IS4"), M(<<16, 16, 16>>)>>),
    Row("vpcmov", 162, {{VL(1), MemForm, W(0)}}, Segment
        @@ Xop256 @@ Map("XOP8"),
        <<InReg("YMM"), R("YMM", "NDSNDD"), M(<<32, 32, 32>>), R("YMM", "IS4")>>),
    Row("vpcmov", 162, {{VL(1), MemForm, W(1)}}, Segment
        @@ Xop256 @@ Map("XOP8") @@ [rex_w |-> TRUE],
        <<InReg("YMM"), R("YMM", "NDSNDD"), R("YMM", "IS4"), M(<<32, 32, 32>>)>>)>>
Rows_blsfill ==
  <<Row("blsfill", 1, {{Group(2), VL(0), RegForm}},
        Xop128 @@ Map("XOP9") @@ [modrm |-> 208],
        <<R("GPR32_32_64", "NDSNDD"), InRm("GPR32_32_64")>>),
    Row("blsfill", 1, {{Group(2), VL(0), MemForm}}, Segment
        @@ Xop128 @@ Map("XOP9") @@ [modrm |-> 16],
        <<R("GPR32_32_64", "NDSNDD"), M(<<4, 4, 8>>)>>)>>
Rows_bextr ==
  <<Row("bextr", 247, {{VL(0), RegForm}}, RegisterModrm @@ Vex128 @@ Map("0F38"),
        <<InReg("GPR32_32_64"), InRm("GPR32_32_64"), R("GPR32_32_64", "NDSNDD")>>),
    Row("bextr", 247, {{VL(0), MemForm}}, Segment @@ Vex128 @@ Map("0F38"),
        <<InReg("GPR32_32_64"), M(<<4, 4, 8>>), R("GPR32_32_64", "NDSNDD")>>),
    Row("bextr", 16, {{VL(0), RegForm}}, RegisterModrm @@ Xop128 @@ Map("XOPA"),
        <<InReg("GPR32_32_64"), InRm("GPR32_32_64"), Imm("UIMM32")>>),
    Row("bextr", 16, {{VL(0), MemForm}}, Segment @@ Xop128 @@ Map("XOPA"),
        <<InReg("GPR32_32_64"), M(<<4, 4, 8>>), Imm("UIMM32")>>)>>
Rows_pfadd ==
  <<Row("pfadd", 158, {{RegForm}}, RegisterModrm @@ Amd3DNow,
        <<InReg("MMX"), InRm("MMX")>>),
    Row("pfadd", 158, {{MemForm}}, Segment @@ Amd3DNow,
        <<InReg("MMX"), M(<<8, 8, 8>>)>>)>>

SomeRows ==
    [mov |-> Rows_mov,
     push |-> Rows_push,
     xchg |-> Rows_xchg,
     lea |-> Rows_lea,
     bndldx |-> Rows_bndldx,
     in |-> Rows_in,
     enter |-> Rows_enter,
     movdir64b |-> Rows_movdir64b,
     cvtsi2sd |-> Rows_cvtsi2sd,
     crc32 |-> Rows_crc32,
     movsxd |-> Rows_movsxd,
     add |-> Rows_add,
     jmpabs |-> Rows_jmpabs,
     jmp |-> Rows_jmp,
     call |-> Rows_call,
     jz |-> Rows_jz,
     loop |-> Rows_loop,
     jrcxz |-> Rows_jrcxz,
     jecxz |-> Rows_jecxz,
     jcxz |-> Rows_jcxz,
     xbegin |-> Rows_xbegin,
     vpgatherdd |-> Rows_vpgatherdd,
     vblendvps |-> Rows_vblendvps,
     vmovaps |-> Rows_vmovaps,
     vprotb |-> Rows_vprotb,
     vpcmov |-> Rows_vpcmov,
     blsfill |-> Rows_blsfill,
     bextr |-> Rows_bextr,
     pfadd |-> Rows_pfadd]

=============================================================================
