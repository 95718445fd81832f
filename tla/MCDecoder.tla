----------------------------- MODULE MCDecoder -----------------------------
(***************************************************************************)
(* TLC instances of Decoder and InstructionSegments.                       *)
(***************************************************************************)
EXTENDS InstructionSegments

None == <<0, 0, 0>>
All(s) == <<s, s, s>>
ByWidth == <<16, 32, 32>>
ByFullWidth == <<16, 32, 64>>

Plain ==
    [encoding |-> "LEGACY", modrm |-> FALSE, force_reg_form |-> FALSE,
     disp |-> None, imm0 |-> None, imm1 |-> None, operand_size_map |-> 0,
     address_size_map |-> 0, accepts |-> {}, rejects |-> {}]

Bare == {[Plain EXCEPT !.encoding = e] : e \in Encodings \ {"REX2"}}

WithModrm == [Plain EXCEPT !.modrm = TRUE]

(* Combinations of accepted prefixes in InstructionDefinitions.inc; left    *)
(* out are those that differ from one of these by SEGMENT alone, and {REP}  *)
(* and {BND}.                                                              *)
AcceptSets ==
    {{}, {"SEGMENT"}, {"BND", "BRANCH_HINTS"},
     {"SEGMENT", "LOCK", "XACQUIRE", "XRELEASE"},
     {"SEGMENT", "REP", "REPNE"}, {"SEGMENT", "REPE", "REPNE"},
     {"SEGMENT", "XRELEASE", "HLE_WITHOUT_LOCK"},
     {"SEGMENT", "BND", "NOTRACK"},
     {"SEGMENT", "LOCK", "XACQUIRE", "XRELEASE", "HLE_WITHOUT_LOCK"}}

(* Definitions without operands: what matters is which prefixes they take. *)
PrefixDefinitions ==
    {[Plain EXCEPT !.accepts = a] : a \in AcceptSets}
    \cup {[Plain EXCEPT !.encoding = "VEX", !.accepts = {"SEGMENT"}]}
    \cup Bare

(* F0 F2 F3 2E 3E 64 66 48 and, as opcodes and payloads, 90 C5 D5.         *)
PrefixBytes == {240, 242, 243, 46, 62, 100, 102, 72, 144, 197, 213}
PrefixModes == {{"APX", "MPX", "CET"}, {}}

(* Rows of InstructionEncodings.inc, each with a size map the tables       *)
(* use it with.                                                            *)
LayoutDefinitions ==
    {Plain,
     [Plain EXCEPT !.imm0 = All(8), !.operand_size_map = 4],
     [Plain EXCEPT !.imm0 = All(16), !.imm1 = All(8), !.operand_size_map = 4],
     [Plain EXCEPT !.imm0 = ByWidth, !.imm1 = All(16)],
     [Plain EXCEPT !.imm0 = ByFullWidth],
     [Plain EXCEPT !.imm0 = ByWidth, !.operand_size_map = 5],
     [Plain EXCEPT !.imm0 = All(64)],
     [Plain EXCEPT !.disp = ByFullWidth],
     [WithModrm EXCEPT !.operand_size_map = 7, !.address_size_map = 2,
                       !.rejects = {"requires_protected_mode"}],
     [WithModrm EXCEPT !.force_reg_form = TRUE, !.operand_size_map = 7],
     [WithModrm EXCEPT !.imm0 = All(8), !.imm1 = All(8)],
     [WithModrm EXCEPT !.encoding = "3DNOW"],
     [WithModrm EXCEPT !.encoding = "XOP", !.imm0 = All(32)],
     [WithModrm EXCEPT !.encoding = "VEX", !.imm0 = All(8)],
     [Plain EXCEPT !.encoding = "VEX", !.imm0 = ByWidth, !.operand_size_map = 5],
     [WithModrm EXCEPT !.encoding = "EVEX", !.imm0 = ByWidth],
     [WithModrm EXCEPT !.encoding = "MVEX", !.imm0 = All(8)]}

(* 66 as a prefix; 0F 38 C4 C5 62 8F D5 E8 as opcodes and payloads.  Each   *)
(* of XOP, VEX, EVEX and MVEX finds a payload with a valid map among them.  *)
LayoutBytes == {102, 15, 56, 196, 197, 98, 143, 213, 232}

(* ModRM: 04 05 06 44 84 C0; SIB with base 4 and base 5.                    *)
LayoutModrm == {4, 5, 6, 68, 132, 192}
LayoutSib == {4, 5}
LayoutModes == {{"APX"}, {"KNC", "MINIMAL"}}

(* F3 66, and 0F 90 C5 62 D5 as opcodes and payloads.                      *)
ShortBytes == {243, 102, 15, 144, 197, 98, 213}
ShortDefinitions == {[WithModrm EXCEPT !.accepts = {"REP", "REPNE"}]} \cup Bare
=============================================================================
