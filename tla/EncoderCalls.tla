---------------------------- MODULE EncoderCalls ----------------------------
(***************************************************************************)
(* Calls of the encoder and what comes of them: a request is checked,      *)
(* compared with the definitions of its mnemonic one after the other,      *)
(* built and emitted (ZydisEncoderEncodeInstruction); with absolute        *)
(* addresses it is first rewritten, and its RIP-relative displacement is   *)
(* patched into the bytes (ZydisEncoderEncodeInstructionAbsolute).  The    *)
(* bytes are decoded, and the caller goes on as the library's users do     *)
(* (tools/ZydisFuzzShared.c, examples/RewriteCode.c): a request is made of *)
(* the decoded instruction and encoded again, or the same request is       *)
(* encoded again, or the addresses are calculated and encoded as such.     *)
(***************************************************************************)
EXTENDS EncoderEmission, OperandDecoder, AbsoluteAddresses

CONSTANTS
    Rows,       \* for each mnemonic the encoder's definitions, in their order
    Calls,      \* the first calls: operation, request, limit, runtime_address
    MaxRounds   \* how often an instruction is encoded

VARIABLES
    call,        \* the call as it was made: operation, request, limit, runtime
    request,     \* the caller's ZydisEncoderRequest, which a call may write to
    pc,          \* where the call is
    tried,       \* the number of the definition compared last, 0 for none
    match,       \* ZydisEncoderInstructionMatch
    rip,         \* op_rip_rel and absolute_address
    length,      \* *length: the size of the buffer, then of the instruction
    buffer,      \* the emitted fields
    status,      \* what the call returned
    instruction, \* the decoded instruction
    round,       \* how often the caller has encoded
    earlier      \* call, request, buffer, length and instruction of the
                 \* round before

vars == <<call, request, pc, tried, match, rip, length, buffer, status,
          instruction, round, earlier>>

Definitions == UNION {{Rows[m][i] : i \in DOMAIN Rows[m]} : m \in DOMAIN Rows}
ASSUME RowsAssumption ==
    /\ \A mnemonic \in DOMAIN Rows : Rows[mnemonic] \in Seq(Definitions)
    /\ \A def \in Definitions : Len(def.operands) \in Nat
Nothing == [call |-> NONE]
NoRip == [operand |-> 0, absolute |-> 0]

----------------------------------------------------------------------------
(* The request                                                             *)

BranchLookup ==
    (0 :> {"NONE", "SHORT", "NEAR", "FAR"}) @@ (8 :> {"NONE", "SHORT"})
    @@ [w \in {16, 32, 64} |-> {"NONE", "NEAR", "FAR"}]
AtMostOne(set) == Cardinality(set) <= 1

ZydisEncoderCheckRequestSanity(r) ==
    LET segments == r.prefixes \cap SegmentPrefixes
        long == r.machine_mode = "LONG_64"
    IN /\ r.mnemonic \in DOMAIN Rows
       /\ AtMostOne(segments)
       /\ long => segments \cap LegacySegments = {}
       /\ AtMostOne(r.prefixes \cap {"REP", "REPE", "REPNE"})
       /\ AtMostOne(r.prefixes \cap {"XACQUIRE", "XRELEASE"})
       /\ AtMostOne(r.prefixes \cap BranchHints)
       /\ "NOTRACK" \in r.prefixes => segments = {}
       /\ r.branch_type \in BranchLookup[r.branch_width]
       /\ long => r.address_size_hint # 16
       /\ ~long => 64 \notin {r.branch_width, r.address_size_hint, r.operand_size_hint}
       /\ \A i \in DOMAIN r.operands :
            r.operands[i].type = "MEMORY" => ZydisIsScaleValid(r.operands[i].scale)

----------------------------------------------------------------------------
(* The exported functions                                                  *)

Init ==
    /\ call \in Calls
    /\ request = call.request
    /\ length = call.limit
    /\ pc = "CHECK" /\ tried = 0 /\ match = NoMatch /\ rip = NoRip
    /\ buffer = NONE /\ status = NONE /\ instruction = NONE
    /\ round = 1 /\ earlier = Nothing

Return(s) == pc' = "RETURNED" /\ status' = s

Check ==
    /\ pc = "CHECK"
    /\ IF ~ZydisEncoderCheckRequestSanity(request) THEN Return("INVALID_ARGUMENT")
       ELSE /\ pc' = IF call.operation = "ABSOLUTE" THEN "ADJUST" ELSE "FIND"
            /\ UNCHANGED status
    /\ UNCHANGED <<call, request, tried, match, rip, length, buffer, instruction,
                   round, earlier>>

\* the request is the caller's and stays changed when the call fails
Adjust ==
    /\ pc = "ADJUST"
    /\ LET a == Adjusted(request, call.runtime)
       IN /\ request' = a.request
          /\ rip' = [operand |-> a.rip, absolute |-> a.absolute]
          /\ IF a.ok THEN pc' = "FIND" /\ UNCHANGED status
             ELSE Return("INVALID_ARGUMENT")
    /\ UNCHANGED <<call, tried, match, length, buffer, instruction, round, earlier>>

\* ZydisGetEncodableInstructions, which has no rows for what is no mnemonic
RowsOf(r) == IF r.mnemonic \in DOMAIN Rows THEN Rows[r.mnemonic] ELSE <<>>
Following(r, i) == RowsOf(r)[IF i = Len(RowsOf(r)) THEN i ELSE i + 1]
\* a swapped definition is the one after the row and is skipped with it
NextRow == IF tried = 0 THEN 1
           ELSE tried + IF match.def = RowsOf(request)[tried] THEN 1 ELSE 2
Candidates == {i \in NextRow .. Len(RowsOf(request)) :
                 Viable(RowsOf(request)[i], request)}

Compare ==
    /\ pc = "FIND"
    /\ \E i \in Candidates :
         /\ \A j \in Candidates : i <= j
         /\ tried' = i
         /\ match' = Compared(match, request, RowsOf(request)[i], Following(request, i))
    /\ pc' = IF match'.ok THEN "EMIT" ELSE "FIND"
    /\ UNCHANGED <<call, request, rip, length, buffer, status, instruction, round,
                   earlier>>

NoDefinition ==
    /\ pc = "FIND"
    /\ Candidates = {}
    /\ Return("IMPOSSIBLE_INSTRUCTION")
    /\ UNCHANGED <<call, request, tried, match, rip, length, buffer, instruction,
                   round, earlier>>

\* a RIP-relative displacement is emitted as 0 and written afterwards
Emit ==
    /\ pc = "EMIT"
    /\ LET bytes == ZydisEmitInstruction(ZydisBuildInstruction(match, request))
           emitted == EmitStatus(bytes, length)
       IN IF emitted # "SUCCESS" THEN Return(emitted) /\ UNCHANGED <<length, buffer>>
          ELSE /\ buffer' = bytes
               /\ length' = Length(bytes)
               /\ IF rip.operand = 0 THEN Return("SUCCESS")
                  ELSE pc' = "PATCH" /\ UNCHANGED status
    /\ UNCHANGED <<call, request, tried, match, rip, instruction, round, earlier>>

\* how far from the end of the instruction the displacement is written, by the
\* sizes of the built instruction: an IS4 register is an immediate of its own
DispOffset == buffer.disp_size \div 8 + buffer.imm_size \div 8
              + Count(match.def.encoding = "3DNOW")
\* ... in other bytes it does not become the displacement
Patched(relative) ==
    IF DispOffset = 4 + Behind(buffer) THEN [buffer EXCEPT !.disp = Unsigned(relative, 32)]
    ELSE buffer

Patch ==
    /\ pc = "PATCH"
    /\ LET relative == Relative(rip.absolute, call.runtime, length)
       IN IF RipReaches(rip.absolute, call.runtime, length)
          THEN /\ request' = [request EXCEPT
                                !.operands[rip.operand].displacement = relative]
               /\ buffer' = Patched(relative)
               /\ Return("SUCCESS")
          ELSE /\ Return("INVALID_ARGUMENT")
               /\ UNCHANGED <<request, buffer>>
    /\ UNCHANGED <<call, tried, match, rip, length, instruction, round, earlier>>

----------------------------------------------------------------------------
(* The caller                                                              *)

Decode ==
    /\ pc = "RETURNED" /\ status = "SUCCESS"
    /\ instruction' = ZydisDecodeInstruction(Definitions, buffer, request.machine_mode)
    /\ pc' = "DECODED"
    /\ UNCHANGED <<call, request, tried, match, rip, length, buffer, status, round,
                   earlier>>

\* the next call, with the request r and a whole buffer
Reusable == pc = "DECODED" /\ instruction.status = "SUCCESS" /\ round < MaxRounds
Again(operation, r, runtime) ==
    /\ call' = [operation |-> operation, request |-> r, runtime |-> runtime,
                limit |-> ZYDIS_MAX_INSTRUCTION_LENGTH]
    /\ request' = r
    /\ length' = ZYDIS_MAX_INSTRUCTION_LENGTH
    /\ round' = round + 1
    /\ earlier' = [call |-> call, request |-> request, buffer |-> buffer,
                   length |-> length, instruction |-> instruction]
    /\ pc' = "CHECK" /\ tried' = 0 /\ match' = NoMatch /\ rip' = NoRip
    /\ buffer' = NONE /\ status' = NONE /\ instruction' = NONE

ReEncode ==
    /\ Reusable
    /\ Again("ENCODE", ZydisEncoderDecodedInstructionToEncoderRequest(instruction), 0)

\* the request an absolute call has written is one for a plain call
Replay == Reusable /\ call.operation = "ABSOLUTE" /\ Again("ENCODE", request, 0)

Absolute(op, address) ==
    IF op.type = "IMMEDIATE" THEN [op EXCEPT !.imm = Signed(address, 64)]
    ELSE [op EXCEPT !.displacement = Signed(address, 64)]
IsRelativeOperand(op) ==
    RefersToRip(op) \/ (op.type = "IMMEDIATE" /\ op.relative)
RelativeOperands(i) == {n \in DOMAIN i.operands : IsRelativeOperand(i.operands[n])}

\* the runtime address at which the instruction ends in the middle of the
\* address space
MiddleAddress ==
    LET short == request.machine_mode # "LONG_64" /\ instruction.operand_width = 16
        width == IF short THEN 16 ELSE instruction.address_width
    IN Unsigned(2 ^ (Bits[width] - 1) - length, 64)
WithAddresses ==
    LET Target(n) == ZydisCalcAbsoluteAddress(instruction, length,
                         instruction.operands[n], MiddleAddress).address
    IN [request EXCEPT !.operands =
          [n \in DOMAIN @ |-> IF n \in RelativeOperands(instruction)
                              THEN Absolute(@[n], Target(n)) ELSE @[n]]]
ZydisReEncodeInstructionAbsolute ==
    /\ Reusable
    /\ round > 1 /\ call.operation = "ENCODE" /\ RelativeOperands(instruction) # {}
    /\ Again("ABSOLUTE", WithAddresses, MiddleAddress)

Done ==
    /\ \/ pc = "RETURNED" /\ status # "SUCCESS"
       \/ pc = "DECODED" /\ (round = MaxRounds \/ instruction.status # "SUCCESS")
    /\ UNCHANGED vars

Next ==
    \/ Check \/ Adjust \/ Compare \/ NoDefinition \/ Emit \/ Patch
    \/ Decode \/ ReEncode \/ Replay \/ ZydisReEncodeInstructionAbsolute
    \/ Done
Spec == Init /\ [][Next]_vars

----------------------------------------------------------------------------
(* Properties                                                              *)

Decoded == pc = "DECODED" /\ instruction.status = "SUCCESS"
SameModulo(a, b, n) == Unsigned(a - b, n) = 0

\* an operand of the request and what the decoder makes of it
SameAddress(op, got, width) ==
    /\ got.base = op.base /\ got.index = op.index
    /\ got.mib \/ got.scale = op.scale
    /\ SameModulo(got.displacement, op.displacement, width)
SameOperand(op, got) ==
    /\ got.type = op.type
    /\ CASE op.type = "REGISTER" -> got.reg = op.reg /\ got.is4 = op.is4
         [] op.type = "MEMORY" -> SameAddress(op, got, instruction.address_width)
         [] op.type = "POINTER" -> /\ SameModulo(got.segment, op.segment, 16)
                                   /\ got.offset = op.offset
         [] op.type = "IMMEDIATE" -> SameModulo(got.imm, op.imm, 64)

\* what the bytes of the prefixes say to a definition: 3E in front of an
\* indirect branch is NOTRACK, whichever of its two names was asked for
Said(prefixes, def) ==
    IF "SEGMENT_DS" \in prefixes /\ "NOTRACK" \in def.accepts
    THEN (prefixes \ {"SEGMENT_DS"}) \cup {"NOTRACK"} ELSE prefixes

\* the bytes decode, and to the mnemonic, the prefixes and the operands of the
\* request, with the branch type and width it asks for
OperandsDelivered ==
    pc = "DECODED" =>
      /\ length = Length(buffer) /\ length \in 1 .. ZYDIS_MAX_INSTRUCTION_LENGTH
      /\ instruction.status = "SUCCESS"
      /\ instruction.mnemonic = request.mnemonic
      /\ instruction.encoding \in request.allowed_encodings
      /\ instruction.attributes = Said(request.prefixes, match.def)
      /\ Len(instruction.operands) = Len(request.operands)
      /\ \A i \in DOMAIN request.operands :
           SameOperand(request.operands[i], instruction.operands[i])
      /\ request.branch_type \in {"NONE", instruction.branch_type}
      /\ request.branch_width \in {0, BranchWidth(instruction)}

\* what the registers hold
Contents == [reg \in NumberedRegisters |-> 2^13 * (reg.id + 1) + 37 * reg.id]
RequestedAddress(op) ==
    LET Value(reg) == IF reg = NoRegister THEN 0 ELSE Contents[reg]
    IN op.displacement + IF IsRipRelative(op) THEN length
                         ELSE Value(op.base) + Value(op.index) * op.scale
SegmentNumber == [SEGMENT_ES |-> 0, SEGMENT_CS |-> 1, SEGMENT_SS |-> 2,
                  SEGMENT_DS |-> 3, SEGMENT_FS |-> 4, SEGMENT_GS |-> 5]
\* a memory operand of the bytes refers to the address and the segment the
\* request's operand does, whatever the registers hold: the decoder calculates
\* the address in the address width the encoder chose, from the displacement
\* of the size it chose (ZydisCalcAbsoluteAddressEx).
AddressDelivered ==
    Decoded /\ call.operation = "ENCODE" =>
      \A i \in {n \in DOMAIN request.operands : request.operands[n].type = "MEMORY"} :
        LET op == request.operands[i]
            got == instruction.operands[i]
            address == ZydisCalcAbsoluteAddressEx(instruction, length, got, 0, Contents)
        IN /\ got.mib \/ address = Found64(Unsigned(RequestedAddress(op),
                                                    instruction.address_width))
           /\ \A s \in Said(request.prefixes, match.def) \cap SegmentPrefixes :
                got.segment = Reg("SEGMENT", SegmentNumber[s])

\* a memory operand of the request has the size the decoder reports
\* (include/Zydis/Encoder.h, "Size of this operand in bytes").
SizesHonoured ==
    Decoded => \A i \in DOMAIN request.operands :
                 request.operands[i].type = "MEMORY" =>
                   instruction.operands[i].size = request.operands[i].size
\* ... except where the definition holds REX.W, whose size is not compared
SizesDelivered == pc = "DECODED" /\ ~match.def.rex_w => SizesHonoured

\* an operand- or address-size hint a definition accepts is the width of the
\* instruction (ZydisEncoderRequest, operand_size_hint and address_size_hint).
HintsHonoured ==
    Decoded =>
      /\ match.def.accepts_hint = "OSZ" =>
           request.operand_size_hint \in {0, instruction.operand_width}
      /\ match.def.accepts_hint = "ASZ" =>
           request.address_size_hint \in {0, instruction.address_width}

\* What the encoder accepts it encodes: the bytes decode, to the operands,
\* addresses, sizes and hints of the request.  Each operand is matched under
\* what the ones before it settled (sizes, REX, the kind of displacement), so
\* a later one can take from an earlier one the encoding it was accepted with
\* (ZydisFindMatchingDefinition, ZydisBuildInstruction).
Delivered == OperandsDelivered /\ AddressDelivered /\ SizesDelivered /\ HintsHonoured

\* Comparing a definition does not depend on the definitions that were
\* compared before it, whose half-filled match the loop reuses.
CandidatesIndependent ==
    pc \in {"FIND", "EMIT"} /\ tried # 0 =>
      match = Compared(NoMatch, request, RowsOf(request)[tried], Following(request, tried))

\* the request of this round is the one made of the instruction of the round
\* before
Rewritten ==
    round > 1 /\ call.operation = "ENCODE"
    /\ call.request = ZydisEncoderDecodedInstructionToEncoderRequest(earlier.instruction)
\* A decoded instruction can be encoded, is no longer than it was, and says
\* the same: the identity tools/ZydisFuzzShared.c checks.  An instruction that
\* was encoded twice has reached its final form.
ReEncodes ==
    Rewritten =>
      /\ pc = "RETURNED" => status = "SUCCESS"
      /\ pc = "DECODED" => /\ length <= earlier.length
                           /\ instruction.operands = earlier.instruction.operands
                           /\ instruction.attributes = earlier.instruction.attributes
                           /\ round > 2 => buffer = earlier.buffer

\* REX2 numbers: the decoder reports the use of an extended register exactly
\* when the request names a general-purpose register from 16 on.
Extended(reg) == ZydisRegisterGetClass(reg) \in GprClasses /\ ZydisGetPhysicalId(reg) >= 16
EgprReported ==
    Decoded =>
      (instruction.uses_egpr <=>
         \E i \in DOMAIN request.operands :
           LET op == request.operands[i]
           IN \/ op.type = "REGISTER" /\ Extended(op.reg)
              \/ op.type = "MEMORY" /\ (Extended(op.base) \/ Extended(op.index)))

----------------------------------------------------------------------------
(* Properties of absolute addresses                                        *)

Asked(i) == call.request.operands[i]
AddressOf(op) == IF op.type = "IMMEDIATE" THEN op.imm ELSE op.displacement
Reached(i) == ZydisCalcAbsoluteAddress(instruction, length, instruction.operands[i],
                                       call.runtime)
\* the bits of an address the operand can say
AddressBitsOf(op) ==
    IF op.type = "MEMORY" THEN instruction.address_width
    ELSE IF instruction.machine_mode # "LONG_64" /\ instruction.operand_width = 16 THEN 16
    ELSE 64
\* When an absolute call succeeds, the operand of the instruction refers to
\* the address that was asked for: the length predicted from the table of
\* ZydisGetRelInfo is the length that was emitted.
TargetReached ==
    Decoded /\ call.operation = "ABSOLUTE" =>
      \A i \in RelativeOperands(instruction) :
        /\ Reached(i).ok
        /\ SameModulo(Reached(i).address, AddressOf(Asked(i)),
                      AddressBitsOf(instruction.operands[i]))

\* The two functions agree: the request an absolute call leaves behind gives
\* the same bytes to a plain call (include/Zydis/Encoder.h on
\* ZydisEncoderEncodeInstructionAbsolute), and calculating the addresses of an
\* encoded instruction and encoding them as absolute gives the instruction
\* back (tools/ZydisFuzzShared.c).
AbsoluteRoundTrip ==
    LET written_back == /\ call.operation = "ENCODE"
                        /\ earlier.call.operation = "ABSOLUTE"
                        /\ call.request = earlier.request
    IN round > 1 /\ (call.operation = "ABSOLUTE" \/ written_back) =>
      /\ pc = "RETURNED" => status = "SUCCESS"
      /\ pc = "DECODED" => buffer = earlier.buffer

=============================================================================
