------------------------- MODULE AbsoluteAddresses -------------------------
(***************************************************************************)
(* Addresses relative to the instruction: what an operand of a decoded     *)
(* instruction refers to (src/Utils.c), and what                           *)
(* ZydisEncoderEncodeInstructionAbsolute does to a request whose relative  *)
(* operands hold absolute addresses (src/Encoder.c).                       *)
(*                                                                         *)
(* A relative operand depends on the length of the instruction and the     *)
(* length on the size of the operand: the length is predicted from a table *)
(* and the size is written to the request.  Addresses are numbers of       *)
(* Bits[64] bits.                                                          *)
(***************************************************************************)
EXTENDS Registers, SequencesExt

----------------------------------------------------------------------------
(* The address an operand of an instruction of that length refers to       *)

Found64(address) == [ok |-> TRUE, address |-> address]
NoResult == [ok |-> FALSE, address |-> 0]

MemoryAddress(instruction, length, op, runtime) ==
    IF op.disp_size = 0 THEN NoResult
    ELSE IF op.base = InstructionPointer(32) THEN
           Found64(Unsigned(runtime + length + op.displacement, 32))
    ELSE IF op.base = InstructionPointer(64) THEN
           Found64(Unsigned(runtime + length + op.displacement, 64))
    ELSE IF op.base = NoRegister /\ op.index = NoRegister THEN
           Found64(Unsigned(op.displacement, instruction.address_width))
    ELSE NoResult

\* a branch with a 16-bit operand size stays in its 64 KiB, XBEGIN does not
ImmediateAddress(instruction, length, op, runtime) ==
    LET wraps == /\ instruction.machine_mode # "LONG_64"
                 /\ instruction.operand_width = 16
                 /\ instruction.mnemonic # "xbegin"
        target == Unsigned(runtime + length + op.imm, 64)
    IN IF op.relative THEN Found64(IF wraps THEN Unsigned(target, 16) ELSE target)
       ELSE IF op.absolute /\ instruction.machine_mode = "LONG_64" THEN Found64(op.imm)
       ELSE NoResult

ZydisCalcAbsoluteAddress(instruction, length, op, runtime) ==
    CASE op.type = "MEMORY" -> MemoryAddress(instruction, length, op, runtime)
      [] op.type = "IMMEDIATE" -> ImmediateAddress(instruction, length, op, runtime)
      [] OTHER -> NoResult

\* values holds what is in the registers
ZydisCalcAbsoluteAddressEx(instruction, length, op, runtime, values) ==
    LET memory == op.type = "MEMORY"
        computed == /\ memory
                    /\ op.base # NoRegister \/ op.index # NoRegister
                    /\ op.base \notin {InstructionPointer(32), InstructionPointer(64)}
        Value(reg) == IF reg = NoRegister THEN 0 ELSE values[reg]
        value == IF memory
                 THEN op.displacement + Value(op.base) + Value(op.index) * op.scale
                 ELSE values[op.reg]
    IN IF memory /\ op.mib THEN NoResult
       ELSE IF computed \/ op.type = "REGISTER" THEN
              Found64(Unsigned(value, instruction.address_width))
       ELSE ZydisCalcAbsoluteAddress(instruction, length, op, runtime)

----------------------------------------------------------------------------
(* The table of ZydisGetRelInfo: lengths for operands of 8, 16 and 32 bits *)
(* in each mode, 0 for an operand that does not exist                      *)

Info(size, hint, branch_hints, bound) ==
    [size |-> size, hint |-> hint, branch_hints |-> branch_hints, bound |-> bound]
ZydisGetRelInfo ==
    [call  |-> Info(<<<<0, 3, 6>>, <<0, 4, 5>>, <<0, 0, 5>>>>, NONE, FALSE, TRUE),
     jz    |-> Info(<<<<2, 4, 7>>, <<2, 5, 6>>, <<2, 0, 6>>>>, NONE, TRUE, TRUE),
     jcxz  |-> Info(<<<<2, 0, 0>>, <<3, 0, 0>>, <<0, 0, 0>>>>, NONE, FALSE, FALSE),
     jecxz |-> Info(<<<<3, 0, 0>>, <<2, 0, 0>>, <<3, 0, 0>>>>, NONE, FALSE, FALSE),
     jmp   |-> Info(<<<<2, 3, 6>>, <<2, 4, 5>>, <<2, 0, 5>>>>, NONE, FALSE, TRUE),
     jrcxz |-> Info(<<<<0, 0, 0>>, <<0, 0, 0>>, <<2, 0, 0>>>>, NONE, FALSE, FALSE),
     loop  |-> Info(<<<<2, 0, 0>>, <<2, 0, 0>>, <<2, 0, 0>>>>, "ASZ", FALSE, FALSE),
     xbegin |-> Info(<<<<0, 4, 7>>, <<0, 5, 6>>, <<0, 5, 6>>>>, "OSZ", FALSE, FALSE)]

ModeWidth(request) == ZydisGetMachineModeWidth(request.machine_mode)
LengthFor(info, mode_width, size) == At(info.size, mode_width)[size \div 16 + 1]

----------------------------------------------------------------------------
(* The sizes that are tried for a relative operand, and what it becomes    *)

\* mutant: the BND prefix is not counted
ExtraLengthUnbound(request, info) ==
    LET One(condition) == IF condition THEN 1 ELSE 0
    IN IF info.hint = "OSZ" THEN One(request.operand_size_hint = 64)
       ELSE One(info.branch_hints /\ BranchHints \cap request.prefixes # {})

\* prefixes the table's lengths do not count
ExtraLength(request, info) ==
    LET One(condition) == IF condition THEN 1 ELSE 0
    IN IF info.hint = "OSZ" THEN One(request.operand_size_hint = 64)
       ELSE One(info.branch_hints /\ BranchHints \cap request.prefixes # {})
            + One(info.bound /\ "BND" \in request.prefixes)

\* a short JMP takes no BND prefix
SkipsShort(request, info) ==
    \/ request.branch_type = "NEAR"
    \/ /\ info.bound /\ "BND" \in request.prefixes
       /\ request.mnemonic = "jmp" /\ request.branch_type = "NONE"

Asz_priority == <<<<8, 16, 32>>, <<8, 32, 16>>, <<8, 32>>>>
Osz_priority == <<<<8, 16, 32>>, <<8, 32, 16>>, <<8, 32, 16>>>>
SizesTried(request, info) ==
    LET hint == request.operand_size_hint
        short_first == At(Asz_priority, ModeWidth(request))
    IN IF info.hint = "OSZ" THEN
              (IF hint = 0 THEN At(Osz_priority, ModeWidth(request))
               ELSE <<IF hint = 64 THEN 32 ELSE hint>>)
       ELSE IF request.branch_width # 0 THEN <<request.branch_width>>
       ELSE IF SkipsShort(request, info) THEN Tail(short_first) ELSE short_first

\* mutant: the distance is taken from the start of the instruction
RelativeToStart(address, runtime, length) == Signed(address - runtime, 64)

\* the operand of an instruction of that length, 64-bit arithmetic
Relative(address, runtime, length) == Signed(address - (runtime + length), 64)
InstructionFits(runtime, length) == runtime <= 2^Bits[64] - length
Reaches(address, runtime, length, size) ==
    /\ InstructionFits(runtime, length)
    /\ ZydisGetSignedImmSize(Relative(address, runtime, length)) <= size

\* the request with operand i relative, and "ok" when a size reaches
ScaledBranch(request, info, i, runtime) ==
    LET address == request.operands[i].imm
        Predicted(size) == LengthFor(info, ModeWidth(request), size)
                           + ExtraLength(request, info)
        Suits(size) == /\ LengthFor(info, ModeWidth(request), size) # 0
                       /\ Reaches(address, runtime, Predicted(size), size)
        size == First(SizesTried(request, info), Suits)
        refused == info.hint = NONE /\ (request.branch_type = "FAR"
                                        \/ request.branch_width = 64)
    IN IF refused \/ size = 0 THEN [ok |-> FALSE, request |-> request]
       ELSE [ok |-> TRUE,
             request |->
               [request EXCEPT
                  !.operands[i].imm = Relative(address, runtime, Predicted(size)),
                  !.branch_width = IF info.hint = NONE THEN size ELSE @,
                  !.operand_size_hint = IF info.hint = "OSZ" /\ @ = 0 THEN size ELSE @]]

\* LOOP has one size and an address-size prefix; no entry of the table of
\* the code is negative for a request that passed the sanity check
LoopBranch(request, info, i, runtime) ==
    LET hint == request.address_size_hint
        mode == ModeWidth(request)
        extra == IF hint \in {0, mode} THEN 0 ELSE 1
        length == LengthFor(info, IF hint = 0 THEN mode ELSE hint, 8) + extra
        address == request.operands[i].imm
    IN IF ~Reaches(address, runtime, length, 8) THEN [ok |-> FALSE, request |-> request]
       ELSE [ok |-> TRUE,
             request |-> [request EXCEPT !.operands[i].imm =
                                           Relative(address, runtime, length)]]

\* the loop over the operands; rip is the number of the operand to patch
Unadjusted(request) ==
    [ok |-> TRUE, request |-> request, adjusted |-> FALSE, rip |-> 0, absolute |-> 0]
IsRelative(request, op) ==
    op.type = "IMMEDIATE" /\ request.mnemonic \in DOMAIN ZydisGetRelInfo
RefersToRip(op) ==
    /\ op.type = "MEMORY"
    /\ op.base \in {InstructionPointer(32), InstructionPointer(64)}
AdjustRelative(a, i, runtime) ==
    LET info == ZydisGetRelInfo[a.request.mnemonic]
        b == IF info.hint = "ASZ" THEN LoopBranch(a.request, info, i, runtime)
             ELSE ScaledBranch(a.request, info, i, runtime)
    IN IF a.adjusted THEN [a EXCEPT !.ok = FALSE]
       ELSE [a EXCEPT !.ok = b.ok, !.request = b.request, !.adjusted = b.ok]
AdjustOperand(a, i, runtime) ==
    LET op == a.request.operands[i]
    IN IF ~a.ok THEN a
       ELSE IF IsRelative(a.request, op) THEN AdjustRelative(a, i, runtime)
       ELSE IF RefersToRip(op) THEN
              (IF a.rip # 0 THEN [a EXCEPT !.ok = FALSE]
               ELSE [a EXCEPT !.rip = i, !.absolute = op.displacement,
                              !.request.operands[i].displacement = 0])
       ELSE a
Adjusted(request, runtime) ==
    FoldLeftDomain(LAMBDA a, i : AdjustOperand(a, i, runtime),
                   Unadjusted(request), request.operands)

\* whether the displacement of the emitted instruction reaches the address
RipReaches(absolute, runtime, length) == Reaches(absolute, runtime, length, 32)

=============================================================================
