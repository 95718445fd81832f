-------------------------- MODULE MCVectorFeatures --------------------------
(***************************************************************************)
(* TLC instances of VectorFeatures.  The definitions are those the         *)
(* generated tables hold for the mnemonics named, in the order of the      *)
(* encoder's rows, one for each combination of fields the model reads.     *)
(***************************************************************************)
EXTENDS VectorFeatures

CONSTANTS
    PayloadFamilies, \* the families whose payloads a run starts with
    RequestFamilies  \* the families whose requests a run starts with

Families == PayloadFamilies \cup RequestFamilies

Reg(name, op, w) ==
    [encoding |-> "EVEX", mnemonic |-> name, opcode |-> op, operands |-> "xmm",
     memory |-> FALSE, w |-> w, b |-> ANY, ll |-> ANY, e |-> ANY, nd |-> ANY,
     nf |-> ANY, scc |-> ANY, long64 |-> FALSE, length |-> 1,
     rex_w |-> IF w = ANY THEN 0 ELSE w, functionality |-> "INVALID",
     tuple_type |-> NONE, element_size |-> 0, vector_length |-> 0,
     mask_policy |-> "ALLOWED", accepts_zero_mask |-> TRUE,
     mask_override |-> "DEFAULT", broadcast |-> NONE,
     has_element_granularity |-> FALSE, has_nf |-> FALSE, size |-> 0]

Mem(name, op, w, tuple, element) ==
    [Reg(name, op, w) EXCEPT !.memory = TRUE, !.tuple_type = tuple,
                             !.element_size = element]
Bcst(d) == [d EXCEPT !.functionality = "BC"]
NoB(d) == [d EXCEPT !.b = 0]

\* one definition for each vector length
Lengths(d) == [v \in 1 .. 3 |-> [d EXCEPT !.ll = v - 1, !.length = v,
                                          !.operands = <<"xmm", "ymm", "zmm">>[v]]]
Sized(sizes, rows) == [i \in DOMAIN rows |-> [rows[i] EXCEPT !.size = sizes[i]]]
Static(modes, rows) ==
    [i \in DOMAIN rows |-> [rows[i] EXCEPT !.broadcast = modes[i]]]
Change(rows, F(_)) == [i \in DOMAIN rows |-> F(rows[i])]

\* the 512-bit register form whose EVEX.b selects rounding or SAE
B1(name, op, w, function) ==
    <<[Reg(name, op, w) EXCEPT !.b = 1, !.length = 3, !.vector_length = 3,
                               !.operands = "zmm", !.functionality = function]>>
Arithmetic(name, op, w, function, tuple, element) ==
    B1(name, op, w, function) \o Lengths(NoB(Reg(name, op, w)))
    \o Lengths(Bcst(Mem(name, op, w, tuple, element)))
Compare(d) == [d EXCEPT !.accepts_zero_mask = FALSE, !.mask_override = "ZEROING"]
Blend(d) == [d EXCEPT !.mask_override = "CONTROL"]
NoZero(d) == [d EXCEPT !.accepts_zero_mask = FALSE]
Forbidden(d) == [d EXCEPT !.accepts_zero_mask = FALSE, !.mask_policy = "FORBIDDEN"]
Required(d) == [d EXCEPT !.accepts_zero_mask = FALSE, !.mask_policy = "REQUIRED"]
Scalar(d) == [d EXCEPT !.vector_length = 1]

Full == <<16, 32, 64>>
Narrowing(name, op, tuple, sizes) ==
    Lengths(NoB(Reg(name, op, 0)))
    \o Sized(sizes, Lengths(NoZero(NoB(Mem(name, op, 0, tuple, 8)))))

\* register forms by MVEX.E, then the memory form
Mvex(name, op, w) ==
    [Reg(name, op, w) EXCEPT !.encoding = "MVEX", !.operands = "zmm", !.length = 0,
                             !.accepts_zero_mask = FALSE]
MvexReg(name, op, w, e, function) ==
    <<[Mvex(name, op, w) EXCEPT !.e = e, !.functionality = function]>>
MvexMem(name, op, w, function) ==
    <<[Mvex(name, op, w) EXCEPT !.memory = TRUE, !.functionality = function]>>
MvexForms(name, op, w, e0, e1, memory) ==
    MvexReg(name, op, w, 0, e0) \o MvexReg(name, op, w, 1, e1)
    \o MvexMem(name, op, w, memory)
Store(rows) == Change(rows, LAMBDA d : [d EXCEPT !.operands = "store"])
StaticMem(name, op, w, function, broadcast) ==
    Static(<<broadcast>>, MvexMem(name, op, w, function))
Granular(name, op, w, function) ==
    Change(MvexMem(name, op, w, function),
           LAMBDA d : [d EXCEPT !.has_element_granularity = TRUE])

Apx(name, op) ==
    [Reg(name, op, ANY) EXCEPT !.ll = 0, !.long64 = TRUE, !.mask_policy = "INVALID",
        !.accepts_zero_mask = FALSE, !.operands = "gpr2"]
ApxAdd(d, nd, nf) ==
    [d EXCEPT !.nd = nd, !.nf = nf, !.has_nf = (nf = 1),
              !.operands = IF nd = 1 THEN "gpr3" ELSE "gpr2"]
ApxMem(d) == [d EXCEPT !.memory = TRUE, !.tuple_type = "NO_SCALE", !.size = 1]
ApxForms(d) == <<ApxAdd(d, 0, 0), ApxAdd(d, 0, 1), ApxAdd(d, 1, 0), ApxAdd(d, 1, 1)>>
Ccmp(name, scc) ==
    LET d == [Apx(name, 56) EXCEPT !.nd = 0, !.scc = scc]
    IN <<d, ApxMem(d)>>

AllRows ==
    [vaddps |->
       Arithmetic("vaddps", 88, 0, "RC", "FV", 32)
       \o MvexForms("vaddps", 88, 0, "SWIZZLE_32", "RC", "SF_32"),
     vaddpd |->
       Arithmetic("vaddpd", 88, 1, "RC", "FV", 64)
       \o MvexForms("vaddpd", 88, 1, "SWIZZLE_64", "RC", "SF_64"),
     vaddph |-> Arithmetic("vaddph", 88, 0, "RC", "FV", 16),
     vcvtps2pd |->
       Arithmetic("vcvtps2pd", 90, 0, "SAE", "HV", 32)
       \o MvexForms("vcvtps2pd", 90, 0, "SWIZZLE_32", "SAE", "SF_32_BCST"),
     vcvtdq2pd |->
       Arithmetic("vcvtdq2pd", 230, 0, "INVALID", "HV", 32)
       \o MvexForms("vcvtdq2pd", 230, 0, "SWIZZLE_32", "IGNORED", "SI_32_BCST"),
     vcvtph2dq |-> Arithmetic("vcvtph2dq", 91, 0, "RC", "HV", 16),
     vcvttph2qq |-> Arithmetic("vcvttph2qq", 122, 0, "SAE", "QUARTER", 16),
     vcmpps |->
       Change(Arithmetic("vcmpps", 194, 0, "SAE", "FV", 32), Compare)
       \o MvexForms("vcmpps", 194, 0, "SWIZZLE_64", "SAE", "SF_32"),
     vblendmps |->
       Change(Lengths(NoB(Reg("vblendmps", 101, 0)))
              \o Lengths(Bcst(Mem("vblendmps", 101, 0, "FV", 32))), Blend)
       \o MvexForms("vblendmps", 101, 0, "SWIZZLE_32", "RC", "SF_32"),
     vaddss |->
       LET d == Scalar(Reg("vaddss", 88, 0)) IN
       <<NoB(d), [d EXCEPT !.b = 1, !.functionality = "RC"],
         [Scalar(NoB(Mem("vaddss", 88, 0, "T1S", 32))) EXCEPT !.size = 4]>>,
     vmovdqu8 |->
       LET load == Mem("vmovdqu8", 111, 0, "FVM", 8)
           store == [Mem("vmovdqu8", 127, 0, "FVM", 8) EXCEPT
                       !.accepts_zero_mask = FALSE]
       IN Lengths(NoB(Reg("vmovdqu8", 111, 0))) \o Sized(Full, Lengths(NoB(load)))
          \o Lengths(NoB(Reg("vmovdqu8", 127, 0)))
          \o Store(Sized(Full, Lengths(NoB(store)))),
     vpsrld |->
       Lengths(NoB(Reg("vpsrld", 210, 0)))
       \o Sized(<<16, 16, 16>>, Lengths(NoB(Mem("vpsrld", 210, 0, "M128", 32)))),
     vmovntps |-> Sized(Full, Lengths(Forbidden(NoB(
                                        Mem("vmovntps", 43, 0, "FVM", 32))))),
     vpgatherdd |->
       Sized(<<4, 4, 4>>, Lengths(Required(NoB(
                                    Mem("vpgatherdd", 144, 0, "GSCAT", 32)))))
       \o StaticMem("vpgatherdd", 144, 0, "UI_32", "1_TO_16"),
     vbroadcastss |->
       Static(<<"1_TO_4", "1_TO_8", "1_TO_16">>,
              Lengths(NoB(Reg("vbroadcastss", 24, 0))))
       \o Static(<<"1_TO_4", "1_TO_8", "1_TO_16">>, Sized(<<4, 4, 4>>,
              Lengths(NoB(Mem("vbroadcastss", 24, 0, "T1F", 32)))))
       \o StaticMem("vbroadcastss", 24, 0, "UF_32", "1_TO_16"),
     vbroadcastf64x2 |->
       Static(<<"2_TO_4", "2_TO_8">>, Sized(<<16, 16>>, SubSeq(
              Lengths(NoB(Mem("vbroadcastf64x2", 26, 1, "T2", 64))), 2, 3))),
     vbroadcasti32x4 |->
       Static(<<"4_TO_8", "4_TO_16">>, Sized(<<16, 16>>, SubSeq(
              Lengths(NoB(Mem("vbroadcasti32x4", 90, 0, "T4", 32))), 2, 3)))
       \o StaticMem("vbroadcasti32x4", 90, 0, "UI_32", "4_TO_16"),
     vbroadcasti32x8 |->
       Static(<<"8_TO_16">>, Sized(<<32>>, SubSeq(
              Lengths(NoB(Mem("vbroadcasti32x8", 91, 0, "T8", 32))), 3, 3))),
     vpmovdb |-> Narrowing("vpmovdb", 49, "QVM", <<4, 8, 16>>),
     vpmovqb |-> Narrowing("vpmovqb", 50, "OVM", <<2, 4, 8>>),
     vpcompressb |-> Narrowing("vpcompressb", 99, "T1S", Full),
     vpmovsxbw |->
       Lengths(NoB(Reg("vpmovsxbw", 32, ANY)))
       \o Sized(<<8, 16, 32>>, Lengths(NoB(Mem("vpmovsxbw", 32, ANY, "HVM", 8)))),
     vmovddup |->
       Lengths(NoB(Reg("vmovddup", 18, 1)))
       \o Sized(<<8, 32, 64>>, Lengths(NoB(Mem("vmovddup", 18, 1, "DUP", 64)))),
     vp4dpwssd |->
       Sized(<<16>>, SubSeq(
              Lengths(NoB(Mem("vp4dpwssd", 82, 0, "T1_4X", 32))), 3, 3)),
     vpaddd |-> MvexForms("vpaddd", 254, 0, "SWIZZLE_32", "IGNORED", "SI_32"),
     vpadcd |-> MvexForms("vpadcd", 92, 0, "SWIZZLE_32", "INVALID", "SI_32"),
     vlog2ps |->
       MvexReg("vlog2ps", 201, 0, 0, "INVALID") \o MvexReg("vlog2ps", 201, 0, 1, "SAE")
       \o Sized(<<64>>, MvexMem("vlog2ps", 201, 0, "F_32")),
     vpshufd |->
       MvexReg("vpshufd", 112, 0, ANY, "INVALID")
       \o Sized(<<64>>, MvexMem("vpshufd", 112, 0, "F_64")),
     vfmadd233ps |->
       MvexForms("vfmadd233ps", 164, 0, "SWIZZLE_32", "RC", "SF_32_BCST_4TO16"),
     vmovaps |->
       MvexForms("vmovaps", 40, 0, "SWIZZLE_32", "INVALID", "UF_32")
       \o Store(MvexMem("vmovaps", 41, 0, "DF_32")),
     vmovdqa32 |->
       MvexForms("vmovdqa32", 111, 0, "SWIZZLE_32", "INVALID", "UI_32")
       \o Store(MvexMem("vmovdqa32", 127, 0, "DI_32")),
     vmovnr |->
       Change(MvexMem("vmovnraps", 41, 0, "DF_32"), LAMBDA d : [d EXCEPT !.e = 0])
       \o Change(MvexMem("vmovnrngoaps", 41, 0, "DF_32"),
                 LAMBDA d : [d EXCEPT !.e = 1]),
     vbroadcastf32x4 |-> StaticMem("vbroadcastf32x4", 26, 0, "UF_32", "4_TO_16"),
     vbroadcastsd |-> StaticMem("vbroadcastsd", 25, 1, "UF_64", "1_TO_8"),
     vbroadcastf64x4 |-> StaticMem("vbroadcastf64x4", 27, 1, "UF_64", "4_TO_8"),
     vscatterdps |-> StaticMem("vscatterdps", 162, 0, "DF_32", "1_TO_16"),
     vloadunpackld |-> Granular("vloadunpackld", 208, 0, "UI_32"),
     vpackstorelps |-> Granular("vpackstorelps", 209, 0, "DF_32"),
     vpackstorelq |-> Granular("vpackstorelq", 208, 1, "DI_64"),
     clevict0 |->
       Change(Sized(<<1>>, MvexMem("clevict0", 174, ANY, "F_64")),
              LAMBDA d : [d EXCEPT !.mask_policy = "INVALID"]),
     add |-> ApxForms(Apx("add", 0)) \o ApxForms(ApxMem(Apx("add", 0))),
     cfcmovb |->
       LET d == Apx("cfcmovb", 66) IN
       <<[d EXCEPT !.nd = 0, !.nf = 0], [d EXCEPT !.nd = 0, !.nf = 1],
         [d EXCEPT !.nd = 1, !.nf = 1, !.operands = "gpr3"]>>,
     ccmp |-> Ccmp("ccmpo", 0) \o Ccmp("ccmpno", 1)]

SomeRows == [f \in Families |-> AllRows[f]]

----------------------------------------------------------------------------
(* Payloads: every value of the bit fields the definitions test, no mask   *)
(* and one mask register; displacements at the edges of a byte, multiples  *)
(* of scales and not.                                                      *)

Displacements ==
    {[size |-> 0, value |-> 0, base |-> TRUE],
     [size |-> 32, value |-> 1024, base |-> FALSE]}
    \cup [size : {8}, value : {-128, 0, 1}, base : {TRUE}]
    \cup [size : {32}, value : {-8192, 96, 130}, base : {TRUE}]

Operands(memory) ==
    IF memory THEN Displacements ELSE {[size |-> 0, value |-> 0, base |-> TRUE]}

EvexPayloads(op, conditional) ==
    UNION {[encoding : {"EVEX"}, opcode : {op}, memory : {memory}, W : 0 .. 1,
            z : 0 .. 1, LL : 0 .. 3, b : 0 .. 1,
            V4 : IF conditional THEN 0 .. 1 ELSE {1},
            aaa : IF conditional THEN {0, 1, 4, 5} ELSE {0, 5},
            vvvv : IF conditional THEN {0, 5} ELSE {15}, E : {0}, SSS : {0},
            disp : Operands(memory)] : memory \in BOOLEAN}
MvexPayloads(op) ==
    UNION {[encoding : {"MVEX"}, opcode : {op}, memory : {memory}, W : 0 .. 1,
            z : {0}, LL : {0}, b : {0}, V4 : {1}, aaa : {0, 5}, vvvv : {15},
            E : 0 .. 1, SSS : 0 .. 7, disp : Operands(memory)] : memory \in BOOLEAN}

DefinitionsOf(f) == {AllRows[f][i] : i \in DOMAIN AllRows[f]}

PayloadsOf(f) ==
    UNION {IF o.encoding = "EVEX" THEN EvexPayloads(o.opcode, o.long64)
           ELSE MvexPayloads(o.opcode) :
             o \in {[encoding |-> d.encoding, opcode |-> d.opcode,
                     long64 |-> d.long64] : d \in DefinitionsOf(f)}}

----------------------------------------------------------------------------
(* Requests: every combination of EVEX features, every pair of MVEX        *)
(* features; sizes, displacements, masks and encodings that fit and do not. *)

EvexFeatures ==
    [broadcast : {NONE, "1_TO_4", "1_TO_8", "1_TO_16"}, rounding : {NONE, "RN", "RZ"},
     sae : BOOLEAN, zeroing_mask : BOOLEAN, no_flags : {FALSE}, default_flags : {0}]
ApxFeatures ==
    [broadcast : {NONE}, rounding : {NONE}, sae : {FALSE},
     zeroing_mask : BOOLEAN, no_flags : BOOLEAN, default_flags : {0, 5}]

MvexValues ==
    [broadcast |-> {"1_TO_8", "1_TO_16", "4_TO_8", "4_TO_16"},
     conversion |-> {"FLOAT16", "UINT8", "SINT8", "UINT16", "SINT16"},
     rounding |-> {"RN", "RU"}, swizzle |-> {"DCBA", "CDAB", "DDDD"},
     sae |-> {TRUE}, eviction_hint |-> {TRUE}]
MvexFeatures ==
    {NoMvex}
    \cup UNION {{[NoMvex EXCEPT ![f] = x, ![g] = y] :
                   x \in MvexValues[f], y \in MvexValues[g]} :
                 f, g \in DOMAIN MvexValues}

\* the operands of definitions, with sizes of memory operands
Shapes(definitions) ==
    UNION {[mnemonic : {d.mnemonic}, operands : {d.operands}, memory : {d.memory},
            mem_size : IF d.memory THEN {1, 4, 8, 16, 32, 64} ELSE {0},
            displacement : IF d.memory THEN {0, 8, 130, -8192} ELSE {0}] :
            d \in definitions}

Asking(shapes, bases, masks, encodings, e, m) ==
    UNION {[mnemonic : {s.mnemonic}, operands : {s.operands}, memory : {s.memory},
            mem_size : {s.mem_size}, displacement : {s.displacement}, base : bases,
            mask : masks, allowed_encodings : encodings, evex : e, mvex : m] : s \in shapes}

\* encodings of other definitions are excluded by features or by the request
RequestsOf(f) ==
    LET used == {d.encoding : d \in DefinitionsOf(f)}
        shapes(encodings) ==
          Shapes({d \in DefinitionsOf(f) : d.encoding \in encodings})
        apx == \E d \in DefinitionsOf(f) : d.long64
        evex == Asking(shapes({"EVEX"}), {TRUE}, IF apx THEN {ANY, 0} ELSE {ANY, 0, 5},
                       {{"EVEX"}}, IF apx THEN ApxFeatures ELSE EvexFeatures, {NoMvex})
        mvex == Asking(shapes({"MVEX"}), {TRUE}, {ANY, 5}, {{"MVEX"}}, {NoEvex}, MvexFeatures)
        free == Asking(shapes(used), BOOLEAN, {5}, {{}, {"EVEX"}, {"EVEX", "MVEX"}},
                       {NoEvex, [NoEvex EXCEPT !.zeroing_mask = TRUE]},
                       {NoMvex, [NoMvex EXCEPT !.eviction_hint = TRUE]})
    IN UNION {evex, mvex, IF used = {"EVEX", "MVEX"} THEN free ELSE {}}

SomePayloads ==
    [f \in Families |-> IF f \in PayloadFamilies THEN PayloadsOf(f) ELSE {}]
SomeRequests ==
    [f \in Families |-> IF f \in RequestFamilies THEN RequestsOf(f) ELSE {}]
AllFamilies == DOMAIN AllRows
VariedFamilies == {"vaddps", "vaddpd", "vcvtps2pd", "vcmpps", "vblendmps", "vaddss",
                   "vpgatherdd", "vbroadcastss", "vmovdqu8", "vmovaps", "vmovnr",
                   "vpadcd", "vfmadd233ps", "vloadunpackld", "add", "ccmp"}
====
