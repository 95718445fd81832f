--------------------------- MODULE MCEncoderCalls ---------------------------
(* Requests for the mnemonics of DefinitionRows, a family for each way in  *)
(* which an operand is encoded.                                            *)
EXTENDS EncoderCalls, DefinitionRows

Plain64 == {"LONG_64"}
Protected == {"LONG_64", "LEGACY_32", "LEGACY_16"}

RegOp(reg) == [type |-> "REGISTER", reg |-> reg, is4 |-> FALSE]
Is4(reg) == [type |-> "REGISTER", reg |-> reg, is4 |-> TRUE]
ImmOp(value) == [type |-> "IMMEDIATE", imm |-> value]
PtrOp(segment, offset) == [type |-> "POINTER", segment |-> segment, offset |-> offset]
MemOp(base, index, scale, displacement, size) ==
    [type |-> "MEMORY", base |-> base, index |-> index, scale |-> scale,
     displacement |-> displacement, size |-> size]
At0(base, size) == MemOp(base, NoRegister, 0, 0, size)

Request(mnemonic, mode, operands) ==
    [mnemonic |-> mnemonic, machine_mode |-> mode,
     allowed_encodings |-> {"LEGACY", "VEX", "XOP", "3DNOW"}, prefixes |-> {}, branch_type |-> "NONE",
     branch_width |-> 0, address_size_hint |-> 0, operand_size_hint |-> 0,
     operands |-> operands]
Encode(r) == [operation |-> "ENCODE", request |-> r, limit |-> 15, runtime |-> 0]

Regs(class, numbers) == {Reg(class, n) : n \in numbers}
G(width, numbers) == Regs(GprOfWidth(width), numbers)
Maybe(registers) == registers \cup {NoRegister}
Bytes == Regs("GPR8", {0, 4, 8, 12, 20, 35})
Wide(numbers) == G(16, numbers) \cup G(32, numbers) \cup G(64, numbers)

----------------------------------------------------------------------------
(* Addresses                                                               *)

\* values around the limits of 8, 16, 32 and 64 bits
Edges == {0, 1, 127, 128, -128, -129, 2^15, 2^16 - 1, -(2^15), 2^19 - 1, 2^19, -(2^19)}
Addresses64 ==
    UNION {{MemOp(b, NoRegister, 0, d, w \div 8) : b \in Maybe(G(w, {0, 4, 5, 12, 13, 20, 21})),
                                                   d \in Edges}
           \cup {MemOp(b, i, s, d, w \div 8) : b \in Maybe(G(w, {0, 5, 13, 21})),
                                               i \in G(w, {5, 4, 20}), s \in {1, 8},
                                               d \in {0, 127, 128}}
           \cup {MemOp(InstructionPointer(w), NoRegister, 0, d, w \div 8) : d \in Edges}
           \cup {MemOp(b, i, 2, 0, w \div 8) : b \in Wide({3, 12}), i \in Wide({6})} :
             w \in {32, 64}}
Addresses16_32 ==
    {MemOp(b, i, s, d, 4) : b \in Maybe(G(32, {0, 5})), i \in Maybe(G(32, {5, 4})),
                            s \in {0, 1, 8}, d \in {0, 127, -129, 2^16 - 1, 2^19}}
    \cup {MemOp(b, i, s, d, 2) : b \in Maybe(G(16, {3, 5, 0})), i \in Maybe(G(16, {6, 7})),
                                 s \in {0, 1},
                                 d \in {0, 127, 128, 2^15, 2^16 - 1, -(2^15), 2^16}}
    \cup {MemOp(b, NoRegister, 0, d, s) : b \in Maybe(G(16, {6, 5}) \cup G(32, {4, 13})),
                                          d \in Edges, s \in {2, 4}}
Lea ==
    {Request("lea", "LONG_64", <<RegOp(r), m>>) : r \in G(32, {0, 16}), m \in Addresses64}
    \cup {Request("lea", mode, <<RegOp(Reg("GPR16", 3)), m>>) :
            mode \in {"LEGACY_32", "REAL_16"}, m \in Addresses16_32}
    \cup {[Request("lea", mode, <<RegOp(Reg("GPR32", 3)), MemOp(NoRegister, NoRegister, 0, d, s)>>)
           EXCEPT !.address_size_hint = h] :
            mode \in Protected, d \in Edges \cup {2^20 - 1, 2^20}, s \in {2, 4, 8},
            h \in {0, 16, 32, 64}}

----------------------------------------------------------------------------
(* Data transfer                                                           *)

Mov ==
    {Request("mov", mode, <<RegOp(a), RegOp(b)>>) :
       mode \in {"LONG_64", "REAL_16"}, a \in Wide({0, 7, 8, 16, 31}), b \in Wide({3, 15, 20})}
    \cup {Request("mov", mode, <<RegOp(a), RegOp(b)>>) :
            mode \in {"LONG_64", "LEGACY_32"}, a \in Bytes, b \in Bytes}
    \cup {Request("mov", mode, <<RegOp(a), o>>) :
            mode \in {"LONG_64", "LEGACY_32"}, a \in Bytes,
            o \in {At0(b, 1) : b \in Wide({3, 5, 12, 20})}}
    \cup {Request("mov", mode, ops) :
            mode \in Protected,
            ops \in UNION {{<<RegOp(a), RegOp(b)>>, <<RegOp(b), RegOp(a)>>} :
                             a \in Wide({0, 8, 16}),
                             b \in Regs("SEGMENT", {0, 1, 5}) \cup Regs("CONTROL", {0, 1, 8})
                                   \cup Regs("DEBUG", {0, 7, 8})}}
    \cup {Request("mov", mode, <<o, ImmOp(v)>>) :
            mode \in Protected,
            o \in {RegOp(r) : r \in Regs("GPR8", {0, 4, 12}) \cup Wide({0, 9, 16})}
                  \cup {At0(Reg("GPR32", 3), s) : s \in {1, 2, 4, 8}},
            v \in Edges \cup {2^27 - 1}}
Moffs_ ==
    {[Request("mov", mode, IF load THEN <<RegOp(a), m>> ELSE <<m, RegOp(a)>>)
      EXCEPT !.address_size_hint = h, !.prefixes = p] :
       mode \in Protected, a \in {Reg("GPR8", 0)} \cup Wide({0}), load \in BOOLEAN,
       m \in {MemOp(NoRegister, NoRegister, 0, d, s) :
                d \in {-1, 2^15, 2^16 - 1, 2^19, 2^20}, s \in {1, 4}},
       h \in {0, 16, 32}, p \in {{"SEGMENT_FS"}}}
Push ==
    {[Request("push", mode, <<o>>) EXCEPT !.operand_size_hint = h] :
       mode \in Protected,
       o \in {RegOp(r) : r \in Wide({0, 8, 16}) \cup Regs("SEGMENT", {0, 4})}
             \cup {ImmOp(v) : v \in Edges} \cup {At0(Reg("GPR64", 21), s) : s \in {2, 4, 8}},
       h \in {0, 16, 32, 64}}
\* the accumulator with itself is NOP
Xchg ==
    {Request("xchg", mode, <<RegOp(a), RegOp(b)>>) :
       mode \in {"LONG_64", "LEGACY_32"}, a \in Wide({0, 9, 17}), b \in Wide({0, 2})}
    \cup {[Request("xchg", mode, <<At0(Reg("GPR32", 3), s), RegOp(a)>>) EXCEPT !.prefixes = p] :
            mode \in {"LONG_64", "LEGACY_32"}, a \in {Reg("GPR8", 4), Reg("GPR32", 1)}, s \in {1, 4},
            p \in {{}, {"LOCK"}, {"XACQUIRE"}, {"XRELEASE", "LOCK"}, {"SEGMENT_GS"}}}
IsNop(r) == /\ r.operands[1] = r.operands[2]
            /\ r.operands[1].reg.id = 0
            /\ r.operands[1].reg.class # "GPR32" \/ r.machine_mode # "LONG_64"

\* two and more sources of one size, or sizes that do not come from the operand
Others ==
    UNION {
      {Request("in", m, <<RegOp(a), o>>) :
         a \in {Reg("GPR8", 0), Reg("GPR16", 0), Reg("GPR32", 0), Reg("GPR64", 0)},
         o \in {RegOp(Reg("GPR16", 2)), ImmOp(255), ImmOp(-1), ImmOp(256)}, m \in Protected},
      {[Request("enter", m, <<ImmOp(a), ImmOp(b)>>) EXCEPT !.operand_size_hint = h] :
         a \in {0, 255, 2^16 - 1, 2^16}, b \in {0, 7, 256}, h \in {0, 16, 32, 64}, m \in Protected},
      {Request("bndldx", m, <<RegOp(a), MemOp(b, i, s, d, z)>>) :
         a \in Regs("BOUND", {0, 3}), b \in Maybe({InstructionPointer(64)} \cup Wide({13})),
         i \in Maybe(Wide({6})), s \in {0, 1}, d \in {128}, z \in {12, 24}, m \in Protected},
      {Request("movdir64b", m, <<RegOp(a), At0(b, 64)>>) :
         a \in Wide({0, 9}), b \in Wide({3, 5, 12}), m \in Protected},
      {Request("cvtsi2sd", m, <<RegOp(Reg("XMM", a)), o>>) :
         a \in {0, 9, 16}, m \in Protected,
         o \in {RegOp(r) : r \in Wide({0, 9, 17})} \cup {At0(Reg("GPR32", 3), s) : s \in {2, 4, 8}}},
      {Request("crc32", m, <<RegOp(a), o>>) :
         a \in Wide({0, 9}), m \in Protected,
         o \in {RegOp(r) : r \in Bytes \cup Wide({1, 8})}
               \cup {At0(Reg("GPR32", 3), s) : s \in {1, 2, 4, 8}}},
      {Request("movsxd", m, <<RegOp(a), o>>) :
         a \in Wide({0, 9}), m \in Protected,
         o \in {RegOp(r) : r \in Wide({1, 8})} \cup {At0(Reg("GPR32", 3), s) : s \in {2, 4, 8}}},
      {Request("jmpabs", m, <<ImmOp(v)>>) : v \in Edges \cup {2^27 - 1}, m \in Protected}}

\* fifteen bytes and sixteen
Long ==
    {[Request("add", m, <<MemOp(b, i, 4, 2^15, s), o>>) EXCEPT !.prefixes = p] :
       b \in G(32, {3, 19}), i \in G(32, {6, 20}), s \in {1, 2, 4},
       o \in {ImmOp(v) : v \in {1, -129, 2^15}} \cup {RegOp(Reg("GPR32", 1))},
       p \in {{}, {"LOCK", "SEGMENT_FS"}, {"LOCK", "XACQUIRE", "SEGMENT_GS"},
              {"XRELEASE"}}, m \in Protected}

Vector ==
    {Request("vpgatherdd", m, <<RegOp(Reg(c, 1)), MemOp(b, Reg(c, i), s, d, 4), RegOp(Reg(c, v))>>) :
       c \in {"XMM", "YMM"}, i \in {1, 4, 12, 17}, s \in {1, 8}, d \in {0, 128},
       b \in Maybe({InstructionPointer(64)} \cup Wide({5}) \cup G(64, {8, 16})), v \in {4, 9},
       m \in {"LONG_64", "LEGACY_32"}}
    \cup {Request("vblendvps", m, <<RegOp(Reg(c, 1)), RegOp(Reg(c, v)), o, f>>) :
            c \in {"XMM", "YMM"}, v \in {0, 15, 16}, m \in Protected,
            o \in {RegOp(Reg("XMM", 9)), RegOp(Reg("YMM", 3)), At0(Reg("GPR32", 5), 16),
                   At0(Reg("GPR64", 12), 32)},
            f \in {Is4(Reg("XMM", 12)), Is4(Reg("YMM", 7)), RegOp(Reg("XMM", 2))}}
    \cup {Request("vmovaps", m, ops) :
            m \in Protected,
            ops \in UNION {{<<RegOp(Reg(c, a)), RegOp(Reg(c, b))>>, <<RegOp(Reg(c, a)), o>>,
                            <<o, RegOp(Reg(c, b))>>} :
                             c \in {"XMM", "YMM"}, a \in {0, 8}, b \in {1, 9, 16},
                             o \in {At0(Reg("GPR32", 9), 16), At0(Reg("GPR32", 3), 32)}}}

\* XOP and 3DNow!
Amd ==
    {Request("vprotb", m, <<RegOp(Reg("XMM", 9))>> \o ops) :
       m \in Protected,
       ops \in UNION {{<<x, y>>, <<y, x>>, <<x, ImmOp(255)>>, <<x, ImmOp(-1)>>} :
                        x \in {RegOp(Reg("XMM", 1)), RegOp(Reg("XMM", 15)),
                               At0(Reg("GPR64", 13), 16), At0(Reg("GPR32", 20), 16)},
                        y \in {RegOp(Reg("XMM", 0)), RegOp(Reg("XMM", 16))}}}
    \cup {Request("vpcmov", m, <<RegOp(Reg(c, 1)), RegOp(Reg(c, v))>> \o ops) :
            m \in {"LONG_64", "LEGACY_32"}, c \in {"XMM", "YMM"}, v \in {7, 15},
            ops \in UNION {{<<x, Is4(f)>>, <<Is4(f), x>>} :
                             x \in {RegOp(Reg("XMM", 3)), RegOp(Reg("YMM", 9)),
                                    At0(Reg("GPR32", 5), 16), At0(Reg("GPR64", 12), 32)},
                             f \in {Reg("XMM", 12), Reg("YMM", 7)}}}
    \cup {[Request(n, m, <<RegOp(a), o>> \o ops) EXCEPT !.prefixes = p] :
            n \in {"blsfill", "bextr"}, m \in Protected \cup {"REAL_16"},
            a \in G(32, {0, 9}) \cup G(64, {7, 16}),
            o \in {RegOp(Reg("GPR32", 15)), RegOp(Reg("GPR64", 3)), At0(Reg("GPR32", 5), 4),
                   At0(Reg("GPR64", 12), 8), At0(InstructionPointer(64), 8)},
            ops \in {<<>>, <<RegOp(Reg("GPR32", 8))>>, <<RegOp(Reg("GPR64", 1))>>,
                     <<ImmOp(2^15)>>, <<ImmOp(-1)>>},
            p \in {{}, {"SEGMENT_FS"}, {"LOCK"}}}
    \cup {[Request("pfadd", m, <<RegOp(Reg("MMX", a)), o>>) EXCEPT !.prefixes = p] :
            m \in Protected, a \in {0, 7}, p \in {{}, {"SEGMENT_GS"}, {"REPNE"}},
            o \in {RegOp(Reg("MMX", 5)), RegOp(Reg("XMM", 5)), At0(Reg("GPR64", 13), 8),
                   At0(Reg("GPR32", 20), 8), At0(Reg("GPR16", 3), 8), At0(Reg("GPR32", 3), 4),
                   MemOp(Reg("GPR32", 4), Reg("GPR32", 5), 8, 128, 8)}}

----------------------------------------------------------------------------
(* Branches                                                                *)

Transfers == {"jmp", "call", "jz", "loop", "jrcxz", "jecxz", "jcxz", "xbegin"}
Targets == {ImmOp(v) : v \in {0, 127, -128, 128, -(2^15), 2^15, 2^19, -(2^19) - 1}}
           \cup {PtrOp(7, o) : o \in {0, 2^16 - 1, 2^16}}
           \cup {At0(Reg("GPR32", 3), s) : s \in {2, 4, 6, 8, 10}}
           \cup {RegOp(r) : r \in Wide({1, 17})}
Direct == {ImmOp(v) : v \in {0, 128}}
Branches ==
    {[Request(n, m, <<o>>) EXCEPT !.branch_type = t, !.branch_width = w] :
       n \in {"jmp", "jz"}, m \in Protected, o \in Targets,
       t \in {"NONE", "SHORT", "NEAR", "FAR"}, w \in {0, 8, 16, 32, 64}}
    \cup {[Request(n, m, <<o>>) EXCEPT !.prefixes = p] :
            n \in {"jmp", "call", "jz"}, m \in {"LONG_64", "LEGACY_32"}, o \in Targets,
            p \in {{"BND"}, {"NOTRACK"}, {"BRANCH_TAKEN"}, {"BRANCH_NOT_TAKEN", "BND"},
                   {"SEGMENT_FS"}, {"SEGMENT_DS"}}}
    \cup {[Request(n, m, <<o>>) EXCEPT !.address_size_hint = a, !.operand_size_hint = h] :
            n \in Transfers, m \in Protected, o \in Direct, a \in {0, 16, 32, 64},
            h \in {0, 16, 64}}

Absolute_(r, address) ==
    [operation |-> "ABSOLUTE", request |-> r, limit |-> 15, runtime |-> address]
Distances == {0, 129, 130, 134, -126, 2^15 + 3, -(2^15) + 5, 2^19 + 4, 2^19 + 6}
AbsoluteCalls ==
    {Absolute_([Request(n, m, <<ImmOp(Signed(at + d, 64))>>)
                EXCEPT !.branch_width = w, !.prefixes = p], at) :
       n \in {"jmp", "call", "jz"}, m \in Protected, d \in Distances, at \in {2^16 - 16, 2^28 - 3},
       w \in {0, 8, 16, 32}, p \in {{}, {"BND"}}}
    \cup {Absolute_([Request("jz", m, <<ImmOp(130)>>) EXCEPT !.prefixes = p], 0) :
            m \in Protected, p \in {{"BRANCH_TAKEN"}, {"BRANCH_NOT_TAKEN", "BND"}}}
    \cup {Absolute_([Request(n, m, <<ImmOp(Signed(at + d, 64))>>)
                     EXCEPT !.address_size_hint = a, !.operand_size_hint = h], at) :
            n \in Transfers, m \in Protected, d \in Distances, at \in {2^16 - 16, 2^28 - 3},
            a \in {0, 32}, h \in {0, 16, 64}}
    \cup {Absolute_([Request(r[1], "LONG_64", r[2]) EXCEPT !.prefixes = p], at) :
            r \in UNION {{<<"lea", <<RegOp(Reg("GPR32", 9)),
                                     MemOp(InstructionPointer(w), NoRegister, 0, d, w \div 8)>>>>,
                          <<"add", <<MemOp(InstructionPointer(w), NoRegister, 0, d, 4), ImmOp(2^15)>>>>,
                          <<"bextr", <<RegOp(Reg("GPR32", 9)),
                                       MemOp(InstructionPointer(w), NoRegister, 0, d, 4),
                                       ImmOp(2^15)>>>>,
                          <<"pfadd", <<RegOp(Reg("MMX", 1)),
                                       MemOp(InstructionPointer(w), NoRegister, 0, d, 8)>>>>,
                          <<"vblendvps", <<RegOp(Reg("XMM", 1)), RegOp(Reg("XMM", 15)),
                                           MemOp(InstructionPointer(w), NoRegister, 0, d, 16),
                                           Is4(Reg("XMM", 12))>>>>,
                          <<"vpcmov", <<RegOp(Reg("YMM", 1)), RegOp(Reg("YMM", 15)),
                                        Is4(Reg("YMM", 7)),
                                        MemOp(InstructionPointer(w), NoRegister, 0, d, 32)>>>>,
                          <<"jmp", <<MemOp(InstructionPointer(w), NoRegister, 0, d, 8)>>>>} :
                           w \in {32, 64}, d \in {0, 2^16, 2^20 - 1, -(2^19), 2^19 + 13}},
            p \in {{}, {"SEGMENT_FS"}}, at \in {0, 2^16, 2^28 - 8}}

----------------------------------------------------------------------------
(* Requests that are refused, and buffers that are short                   *)

Insane ==
    {[Request("add", m, <<MemOp(Reg("GPR32", 0), Reg("GPR32", 1), s, 0, 4), ImmOp(1)>>)
      EXCEPT !.prefixes = p, !.address_size_hint = a, !.allowed_encodings = e] :
       s \in {2, 3}, p \in {{}, {"SEGMENT_FS", "SEGMENT_GS"}, {"REP", "REPNE"},
                            {"XACQUIRE", "XRELEASE", "LOCK"}, {"SEGMENT_ES"}},
       a \in {0, 16, 64}, e \in {{"LEGACY"}, {"VEX"}}, m \in Protected}
    \cup {Request("invalid", m, <<>>) : m \in Protected}
ShortBuffers ==
    {[Encode(r) EXCEPT !.limit = n] :
       n \in {0, 3, 6, 14, 64},
       r \in {Request("mov", "LONG_64", <<RegOp(Reg("GPR64", 9)), ImmOp(2^19)>>),
              Request("push", "LEGACY_32", <<ImmOp(1)>>),
              [Request("add", "LONG_64",
                       <<MemOp(Reg("GPR32", 19), Reg("GPR32", 20), 4, 2^15, 4), ImmOp(2^15)>>)
               EXCEPT !.prefixes = {"LOCK", "XACQUIRE", "SEGMENT_FS"}]}}

SomeCalls ==
    {Encode(r) : r \in Lea} \cup {Encode(r) : r \in Mov} \cup {Encode(r) : r \in Moffs_}
    \cup {Encode(r) : r \in Push} \cup {Encode(r) : r \in {x \in Xchg : ~IsNop(x)}}
    \cup {Encode(r) : r \in Others} \cup {Encode(r) : r \in Long} \cup {Encode(r) : r \in Vector} \cup {Encode(r) : r \in Amd}
    \cup {Encode(r) : r \in Branches} \cup {Encode(r) : r \in Insane} \cup ShortBuffers
    \cup AbsoluteCalls
=============================================================================
