--------------------------- MODULE FormatterFunctions ---------------------------
(****************************************************************************)
(* What the functions of the formatter print: FormatterBase.c,              *)
(* FormatterIntel.c and FormatterATT.c in src/src.  A function is the       *)
(* sequence of calls it makes on the output buffer; a check that fails is   *)
(* the call "fail", after which nothing of the sequence is executed.        *)
(*                                                                          *)
(* A name, a number or a fixed string is one glyph.  How numbers are        *)
(* converted, letter case and padding are left out.                         *)
(*                                                                          *)
(* c is the context of a call: the formatter c.f, the instruction c.insn,   *)
(* the operand c.op, whether context->operands is there (c.whole) and       *)
(* whether a runtime address is (c.known).                                  *)
(****************************************************************************)
EXTENDS Integers, Sequences

\* ZYDIS_BUFFER_APPEND_TOKEN, ZYDIS_BUFFER_APPEND, ZydisStringAppend...
Token(type) == <<[do |-> "token", arg |-> type]>>
Static(name) == <<[do |-> "static", arg |-> name]>>
Text(glyph) == <<[do |-> "text", arg |-> glyph]>>
Fail == <<[do |-> "fail", arg |-> "INVALID_ARGUMENT"]>>

Maybe(condition, calls) == IF condition THEN calls ELSE <<>>

\* The first n of a list of sequences, one after the other.
InTurn(lists, n) ==
  LET Upto[k \in 0 .. n] == IF k = 0 THEN <<>> ELSE Upto[k - 1] \o lists[k]
  IN  Upto[n]

-----------------------------------------------------------------------------
(* The formatter *)

\* FORMATTER_ATT, FORMATTER_INTEL and FORMATTER_INTEL_MASM
Preset(style) == [
  style                      |-> style,
  force_memory_size          |-> style = "MASM",
  force_memory_segment       |-> FALSE,
  force_memory_scale         |-> TRUE,
  force_relative_branches    |-> FALSE,
  force_relative_riprel      |-> FALSE,
  print_branch_size          |-> FALSE,
  detailed_prefixes          |-> FALSE,
  addr_signedness            |-> "SIGNED",
  disp_signedness            |-> "SIGNED",
  deco_apx_nf_use_suffix     |-> style = "ATT",
  deco_apx_dfv_use_immediate |-> style = "ATT"]

BooleanField == [
  FORCE_SIZE              |-> "force_memory_size",
  FORCE_SEGMENT           |-> "force_memory_segment",
  FORCE_SCALE_ONE         |-> "force_memory_scale",
  FORCE_RELATIVE_BRANCHES |-> "force_relative_branches",
  FORCE_RELATIVE_RIPREL   |-> "force_relative_riprel",
  PRINT_BRANCH_SIZE       |-> "print_branch_size",
  DETAILED_PREFIXES       |-> "detailed_prefixes"]
SignednessField == [
  ADDR_SIGNEDNESS |-> "addr_signedness",
  DISP_SIGNEDNESS |-> "disp_signedness"]

\* ZydisFormatterSetProperty handles the property and its value is in range.
\* The two APX properties have no case there.
Settable(property, value) ==
  \/ property \in DOMAIN BooleanField /\ value \in BOOLEAN
  \/ property \in DOMAIN SignednessField /\ value \in {"AUTO", "SIGNED", "UNSIGNED"}

\* ZydisFormatterSetProperty on a property that is handled.
WithProperty(f, property, value) ==
  LET field == IF property \in DOMAIN BooleanField THEN BooleanField[property]
                                                   ELSE SignednessField[property]
  IN  [f EXCEPT ![field] = value]

-----------------------------------------------------------------------------
(* FormatterBase.c *)

IsMask(op) == op.type = "REGISTER" /\ op.encoding = "MASK"

\* ZydisFormatterHelperGetExplicitSize: 0, or the size to be printed because
\* the operand next to the memory operand does not tell it.
GetExplicitSize(c, op) ==
  LET operands == c.insn.operands
      ByNext == LET next == operands[2] IN
        \/ next.type = "IMMEDIATE"
        \/ next.size # op.size
        \/ next.type = "REGISTER" /\ next.implicit /\ next.reg = "CL"
      needed == /\ op.mem # "AGEN" /\ c.whole
                /\ \/ op.id = 0 /\ Len(operands) >= 2 /\ ByNext
                   \/ op.id \in {1, 2} /\ operands[op.id].size # op.size
  IN  IF c.f.force_memory_size \/ needed THEN op.size ELSE 0

\* ZydisFormatterIntelPrintRegister, ZydisFormatterATTPrintRegister
PrintRegister(c, reg) ==
  (IF c.f.style = "ATT" THEN Static("REGISTER") ELSE Token("REGISTER")) \o Text(reg)

Relative(op) == op.base \in {"EIP", "RIP"}
Bare(op) == op.base = "NONE" /\ op.index = "NONE"

\* mutant: no address without a base register
AddressOfBase(c, op) ==
  IF op.type = "MEMORY"
  THEN op.disp # "NONE" /\ Relative(op)
  ELSE op.type = "IMMEDIATE" /\ op.address \in {"RELATIVE", "ABSOLUTE"}

\* ZydisCalcAbsoluteAddress finds an address in the operand.
HasAddress(c, op) ==
  IF op.type = "MEMORY"
  THEN op.disp # "NONE" /\ (Relative(op) \/ Bare(op))
  ELSE op.type = "IMMEDIATE" /\ op.address \in {"RELATIVE", "ABSOLUTE"}

\* ZydisFormatterIntelPrintAddressMASM
PrintAddressMASM(c) ==
  IF HasAddress(c, c.op) THEN Static("ADDR_RELATIVE") \o Text("ADDRESS") ELSE Fail

\* ZydisFormatterBasePrintAddressABS
PrintAddressABS(c) ==
  IF c.f.style = "MASM" THEN PrintAddressMASM(c)
  ELSE IF HasAddress(c, c.op) THEN Token("ADDRESS_ABS") \o Text("ADDRESS")
  ELSE Fail

\* ZydisFormatterBasePrintAddressREL
PrintAddressREL(c) ==
  IF c.f.style = "MASM" THEN PrintAddressMASM(c)
  ELSE IF HasAddress(c, c.op) THEN
         Token("ADDRESS_REL")
           \o Maybe(c.f.addr_signedness = "UNSIGNED", Text("PLUS")) \o Text("ADDRESS")
  ELSE Fail

\* ZydisFormatterBasePrintIMM, ZydisFormatterATTPrintIMM
PrintIMM(c) ==
  Maybe(c.f.style = "ATT", Static("IMMEDIATE")) \o Token("IMMEDIATE") \o Text("NUMBER")

\* ZydisFormatterBaseFormatOperandPTR
FormatOperandPTR(c) ==
  Token("IMMEDIATE") \o Text("NUMBER") \o Static("DELIM_SEGMENT")
    \o (IF c.insn.operand_width \in {16, 32} THEN Token("IMMEDIATE") \o Text("NUMBER")
                                             ELSE Fail)

\* ZydisFormatterBaseFormatOperandIMM
FormatOperandIMM(c) ==
  IF c.op.address = "NONE" THEN PrintIMM(c)
  ELSE IF \/ c.op.address = "ABSOLUTE"
          \/ c.known /\ ~c.f.force_relative_branches THEN PrintAddressABS(c)
  ELSE PrintAddressREL(c)

\* ZydisFormatterBasePrintSegment
PrintSegment(c) ==
  LET segment == c.op.segment IN
  Maybe(\/ segment \in {"ES", "CS", "FS", "GS"}
        \/ /\ segment \in {"SS", "DS"}
           /\ c.f.force_memory_segment \/ segment \in c.insn.attributes,
        PrintRegister(c, segment) \o Static("DELIM_SEGMENT"))

-----------------------------------------------------------------------------
(* FormatterBase.c: prefixes and decorators *)

\* A prefix byte that is ignored, or part of the opcode.
PrintIgnored(value) ==
  IF value \in {"REX", "LOCK", "CS", "SS", "DS", "ES", "FS", "GS"}
  THEN Static(value)
  ELSE Token("PREFIX") \o Text("NUMBER") \o Token("WHITESPACE") \o Text("SPACE")

\* mutant: F2 is taken for XACQUIRE or REPNE
EffectWithoutBND(attributes, value) ==
  LET Named(name) == Maybe(name \in attributes, Static(name)) IN
  CASE value = "LOCK" -> Static("LOCK")
    [] value = "F2" -> Named("XACQUIRE") \o Named("REPNE")
    [] value = "F3" -> Named("XRELEASE") \o Named("REP") \o Named("REPE")
    [] OTHER -> <<>>

\* A prefix byte that has an effect, F2 and F3 by the name of their effect.
PrintEffective(attributes, value) ==
  LET Named(name) == Maybe(name \in attributes, Static(name)) IN
  CASE value = "LOCK" -> Static("LOCK")
    [] value = "F2" -> Named("XACQUIRE") \o Named("REPNE") \o Named("BND")
    [] value = "F3" -> Named("XRELEASE") \o Named("REP") \o Named("REPE")
    [] OTHER -> <<>>

\* The first of the group that the instruction has.
FirstNamed(attributes, names) ==
  LET has == {k \in DOMAIN names : names[k] \in attributes} IN
  Maybe(has # {}, Static(names[CHOOSE k \in has : \A j \in has : k <= j]))

\* ZydisFormatterBasePrintPrefixes
PrintPrefixes(c) ==
  LET raw == c.insn.prefixes
      attributes == c.insn.attributes
      One(p) == IF p.type = "EFFECTIVE" THEN PrintEffective(attributes, p.value)
                                        ELSE PrintIgnored(p.value)
      Named(name) == Maybe(name \in attributes, Static(name))
  IN
  IF c.f.detailed_prefixes
  THEN InTurn([n \in DOMAIN raw |-> One(raw[n])], Len(raw))
  ELSE Named("XACQUIRE") \o Named("XRELEASE") \o Named("LOCK") \o Named("BND")
         \o Named("NOTRACK") \o FirstNamed(attributes, <<"REP", "REPE", "REPNE">>)

\* ZydisFormatterIntelIsDynamicEVEXBroadcast
DynamicBroadcast(insn) == insn.encoding = "EVEX" /\ insn.broadcast = "DYNAMIC"

\* ZydisFormatterBasePrintDecorator, ZydisFormatterIntelPrintDecoratorMASM
PrintDecorator(c, decorator) ==
  LET insn == c.insn IN
  CASE decorator = "MASK" ->
         Maybe(insn.mask # "K0",
               Static("DECO_BEGIN") \o PrintRegister(c, insn.mask) \o Static("DECO_END")
                 \o Maybe(insn.zeroing, Static("DECO_ZERO")))
    [] decorator = "BC" ->
         Maybe(/\ insn.broadcast = "DYNAMIC"
               /\ ~(c.f.style = "MASM" /\ DynamicBroadcast(insn)), Static("DECO_BC"))
    [] decorator = "RC" ->
         Maybe(insn.rounding, Static(IF insn.sae THEN "DECO_RC_SAE" ELSE "DECO_RC"))
    [] decorator = "SAE" -> Maybe(insn.sae /\ ~insn.rounding, Static("DECO_SAE"))
    [] decorator = "SWIZZLE" -> Maybe(insn.swizzle, Static("DECO_SWIZZLE"))
    [] decorator = "CONVERSION" -> Maybe(insn.conversion, Static("DECO_CONVERSION"))
    [] decorator = "EH" -> Maybe(insn.evictionHint, Static("DECO_EH"))
    [] decorator = "APX_NF" -> Maybe(insn.nf, Static("DECO_NF"))
    [] decorator = "APX_DFV" -> Maybe(insn.scc, Static("DECO_DFV"))

-----------------------------------------------------------------------------
(* FormatterIntel.c and FormatterATT.c *)

\* Modifiers of ZydisFormatterIntelPrintMnemonic and
\* ZydisFormatterATTPrintMnemonic behind the mnemonic.
BranchSize(c) ==
  Maybe(c.f.print_branch_size /\ c.insn.branch \in {"SHORT", "NEAR"}, Text(c.insn.branch))
Suffix(c) == Maybe(c.f.deco_apx_nf_use_suffix /\ c.insn.nf, Text("NF"))

IntelPrintMnemonic(c) ==
  Token("MNEMONIC") \o Text("NAME") \o Suffix(c)
    \o (IF c.insn.branch = "FAR" THEN Text("FAR") ELSE BranchSize(c))

\* The size suffix comes from the first plain memory operand.
ATTPrintMnemonic(c) ==
  LET plain == {k \in DOMAIN c.insn.operands :
                  LET op == c.insn.operands[k] IN op.type = "MEMORY" /\ op.mem = "MEM"}
      first == CHOOSE k \in plain : \A j \in plain : k <= j
      size == IF plain = {} THEN 0 ELSE GetExplicitSize(c, c.insn.operands[first])
  IN
  Token("MNEMONIC") \o Maybe(c.insn.branch = "FAR", Text("FAR")) \o Text("NAME") \o Suffix(c)
    \o Maybe(size \in {8, 16, 32, 64, 128, 256, 512}, Text("SIZE")) \o BranchSize(c)

PrintMnemonic(c) == IF c.f.style = "ATT" THEN ATTPrintMnemonic(c) ELSE IntelPrintMnemonic(c)

\* ZydisFormatterIntelPrintTypecast, ZydisFormatterIntelPrintTypecastMASM
PrintTypecast(c) ==
  LET size == GetExplicitSize(c, c.op) IN
  CASE c.f.style = "MASM" /\ DynamicBroadcast(c.insn) ->
         IF size \in {16, 32, 64} THEN Static("SIZE_BCST") ELSE Fail
    [] OTHER -> Maybe(size \in {8, 16, 32, 48, 64, 80, 128, 256, 512}, Static("SIZE"))

\* ZydisFormatterIntelPrintDISP
IntelPrintDISP(c) ==
  LET negative == c.op.disp = "NEGATIVE" /\ c.f.disp_signedness # "UNSIGNED" IN
  Maybe(~Bare(c.op), Static(IF negative THEN "SUB" ELSE "ADD"))
    \o Token("DISPLACEMENT") \o Text("NUMBER")

\* ZydisFormatterATTPrintDISP
ATTPrintDISP(c) == Token("DISPLACEMENT") \o Text("NUMBER")

\* The operand is printed as the address it stands for.
AsAddress(c) ==
  /\ c.known /\ ~c.f.force_relative_riprel
  /\ c.op.disp # "NONE" /\ c.op.index = "NONE" /\ (c.op.base = "NONE" \/ Relative(c.op))

HasScale(c) ==
  c.op.scale # 0 /\ c.op.mem # "MIB" /\ (c.op.scale > 1 \/ c.f.force_memory_scale)

\* ZydisFormatterIntelFormatOperandMEM
IntelFormatOperandMEM(c) ==
  LET op == c.op
      index == Maybe(op.index # "NONE",
                 Maybe(op.base # "NONE", Static("ADD")) \o PrintRegister(c, op.index)
                   \o Maybe(HasScale(c), Static("MUL") \o Token("IMMEDIATE") \o Text("NUMBER")))
      place ==
        IF AsAddress(c) THEN PrintAddressABS(c)
        ELSE Maybe(op.base # "NONE", PrintRegister(c, op.base)) \o index
               \o (CASE Bare(op) -> PrintAddressABS(c)
                     [] ~Bare(op) /\ op.disp \in {"POSITIVE", "NEGATIVE"} -> IntelPrintDISP(c)
                     [] OTHER -> <<>>)
  IN
  Maybe(op.mem \in {"MEM", "AGEN", "VSIB"}, PrintTypecast(c)) \o PrintSegment(c)
    \o Static("MEMORY_BEGIN") \o place \o Static("MEMORY_END")

\* ZydisFormatterATTFormatOperandMEM
ATTFormatOperandMEM(c) ==
  LET op == c.op
      index == Maybe(op.index # "NONE",
                 Static("DELIM_MEMORY") \o PrintRegister(c, op.index)
                   \o Maybe(HasScale(c), Token("DELIMITER") \o Static("DELIM_MEMORY")
                                           \o Token("IMMEDIATE") \o Text("NUMBER")))
      place ==
        IF AsAddress(c) \/ Bare(op) THEN PrintAddressABS(c)
        ELSE Maybe(op.disp \in {"POSITIVE", "NEGATIVE"}, ATTPrintDISP(c))
               \o Static("MEMORY_BEGIN")
               \o Maybe(op.base # "NONE", PrintRegister(c, op.base)) \o index
               \o Static("MEMORY_END")
  IN
  Maybe(c.insn.branch # "NONE", Static("MUL")) \o PrintSegment(c) \o place

\* ZydisFormatterBaseFormatOperandREG, ZydisFormatterATTFormatOperandREG
FormatOperandREG(c) ==
  Maybe(c.f.style = "ATT" /\ c.insn.branch # "NONE" /\ c.op.encoding = "MODRM_RM", Static("MUL"))
    \o PrintRegister(c, c.op.reg)

\* The switch over the operand type.
FormatOperand(c) ==
  CASE c.op.type = "REGISTER"  -> FormatOperandREG(c)
    [] c.op.type = "MEMORY"    -> IF c.f.style = "ATT" THEN ATTFormatOperandMEM(c)
                                                       ELSE IntelFormatOperandMEM(c)
    [] c.op.type = "POINTER"   -> FormatOperandPTR(c)
    [] c.op.type = "IMMEDIATE" -> FormatOperandIMM(c)

-----------------------------------------------------------------------------
(* The parts of FormatInstruction *)

\* Before the operands, up to the remembered state.
FormatHead(c) ==
  Maybe(~c.f.deco_apx_nf_use_suffix, PrintDecorator(c, "APX_NF"))
    \o PrintPrefixes(c) \o PrintMnemonic(c)
    \o Maybe(~c.f.deco_apx_dfv_use_immediate, PrintDecorator(c, "APX_DFV"))

\* The default flags as an operand in front of all others.
FormatDfv(c) ==
  Maybe(c.f.deco_apx_dfv_use_immediate /\ c.insn.scc,
        Static("DELIM_MNEMONIC") \o Token("IMMEDIATE")
          \o Maybe(c.f.style = "ATT", Static("IMMEDIATE")) \o Text("NUMBER"))

\* The operand behind which rounding, SAE and swizzle are printed, n counting
\* from 1: the last, or the one in front of an immediate.
Decorated(insn, n) ==
  IF n = Len(insn.operands) THEN insn.operands[n].type # "IMMEDIATE"
                            ELSE insn.operands[n + 1].type = "IMMEDIATE"

FormatDecorators(c, n) ==
  LET insn == c.insn
      knc == insn.encoding = "MVEX"
  IN
  Maybe(insn.encoding \in {"EVEX", "MVEX"},
    Maybe(n = 1 /\ Len(insn.operands) > 1 /\ IsMask(insn.operands[2]),
          PrintDecorator(c, "MASK"))
    \o IF c.op.type = "MEMORY"
       THEN PrintDecorator(c, "BC")
              \o Maybe(knc, PrintDecorator(c, "CONVERSION") \o PrintDecorator(c, "EH"))
       ELSE Maybe(Decorated(insn, n),
              Maybe(knc, PrintDecorator(c, "SWIZZLE"))
                \o PrintDecorator(c, "RC") \o PrintDecorator(c, "SAE")))

=============================================================================
