--------------------------- MODULE VectorFeatures ---------------------------
(***************************************************************************)
(* The EVEX and MVEX features of an instruction - masking, broadcast,      *)
(* rounding, SAE, swizzle, conversion, eviction hint, APX NF and SCC, the  *)
(* compressed displacement and the memory operand size - on their way      *)
(* through the decoder (src/Decoder.c), through                            *)
(* ZydisEncoderDecodedInstructionToEncoderRequest and through the encoder  *)
(* (src/Encoder.c).  The two files hold separate tables for the same bits. *)
(* A behaviour starts with a payload or with a request:                    *)
(*                                                                         *)
(*   payload -> decode -> request -> encode -> payload -> decode           *)
(*              request -> encode -> payload -> decode                     *)
(*                                                                         *)
(* Register numbers other than the mask register are left out, and so are  *)
(* immediates, legacy prefixes and the definitions of other encodings.     *)
(***************************************************************************)
EXTENDS Integers, Sequences

CONSTANTS
    Rows,      \* family of mnemonics -> its definitions, in the order of the
               \* encoder's rows
    Modes,     \* machine modes
    Payloads,  \* what follows 0x62 in the bytes a behaviour starts with
    Requests   \* the ZydisEncoderRequest structures a behaviour starts with

ANY == -1      \* no tree node tests this bit field above the definition
NONE == "NONE"
K0 == 0

VARIABLES
    family,    \* the mnemonics and opcodes the behaviour is about
    mode,      \* machine mode of the decoder and of the request
    step,      \* the next step of the call under way
    status,    \* SUCCESS, or what the last call returned
    payload,   \* the bytes given to, or emitted by, the last call
    mask,      \* context->vector_unified.mask
    row,       \* the definition the decoder reached, the row the encoder tries
    insn,      \* ZydisDecodedInstruction: avx, apx and the memory operand
    request,   \* ZydisEncoderRequest
    allowed,   \* the viable encodings
    match,     \* ZydisEncoderInstructionMatch: cd8_scale and disp_size
    sent,      \* the payload the behaviour started with
    asked,     \* the request the behaviour started with
    first      \* what the first decoding returned

vars == <<family, mode, step, status, payload, mask, row, insn, request,
          allowed, match, sent, asked, first>>

Nothing == [encoding |-> NONE]
NoMatch == [cd8_scale |-> 0, disp_size |-> 0]
Swizzles == <<"DCBA", "CDAB", "BADC", "DACB", "AAAA", "BBBB", "CCCC", "DDDD">>
Roundings == <<"RN", "RD", "RU", "RZ">>
\* the position of mode m in the enumeration s, counted from 0
Ordinal(s, m) == (CHOOSE i \in DOMAIN s : s[i] = m) - 1
Bit(condition) == IF condition THEN 1 ELSE 0

----------------------------------------------------------------------------
(* The prefix and the walk through the tree (src/Decoder.c).               *)

DecodeEVEX(p) ==
    CASE mode = "REAL_16" -> "DECODING_ERROR"
      [] mode # "REAL_16" /\ p.V4 = 0 /\ mode # "LONG_64" -> "MALFORMED_EVEX"
      [] mode # "REAL_16" /\ (p.V4 = 1 \/ mode = "LONG_64")
         /\ p.z = 1 /\ p.aaa = 0 -> "INVALID_MASK"
      [] OTHER -> IF p.b = 0 /\ p.LL = 3 THEN "MALFORMED_EVEX" ELSE "SUCCESS"

DecodeMVEX(p) == IF mode # "LONG_64" THEN "DECODING_ERROR" ELSE "SUCCESS"

Definitions(p) ==
    {d \in {Rows[family][i] : i \in DOMAIN Rows[family]} :
       /\ d.encoding = p.encoding /\ d.opcode = p.opcode /\ d.memory = p.memory
       /\ d.long64 => mode = "LONG_64"}
\* the definitions of set c that a node testing field f leaves for value v
Narrow(c, f, v) == {d \in c : d[f] \in {ANY, v}}
Tests(c, f) == \E d \in c : d[f] # ANY

(* The nodes in the order the tree has them.  Only VECTOR_LENGTH, NF and   *)
(* SCC can fail by themselves; NF and SCC also clear the mask.             *)
WalkEVEX(p) ==
    LET byB  == Narrow(Narrow(Definitions(p), "w", p.W), "b", p.b)
        byLL == Narrow(byB, "ll", p.LL)
        byND == Narrow(byLL, "nd", p.b)
        byNF == Narrow(byND, "nf", p.aaa \div 4)
        fail == \/ Tests(byB, "ll") /\ p.LL = 3
                \/ Tests(byND, "nf") /\ (p.z = 1 \/ p.LL # 0 \/ p.aaa % 4 # 0)
                \/ Tests(byNF, "scc") /\ (p.z = 1 \/ p.LL # 0)
    IN [found |-> IF fail THEN {} ELSE Narrow(byNF, "scc", p.V4 * 8 + p.aaa),
        mask  |-> IF Tests(byND, "nf") \/ Tests(byNF, "scc") THEN 0 ELSE p.aaa]

WalkMVEX(p) ==
    [found |-> Narrow(Narrow(Definitions(p), "w", p.W), "e", p.E),
     mask  |-> p.aaa]

Prefix ==
    /\ step = "PREFIX"
    /\ status' = IF payload.encoding = "EVEX" THEN DecodeEVEX(payload)
                 ELSE DecodeMVEX(payload)
    /\ mask' = payload.aaa
    /\ step' = IF status' = "SUCCESS" THEN "WALK" ELSE "DONE"
    /\ UNCHANGED <<family, mode, payload, row, insn, request, allowed, match,
                   sent, asked, first>>

Walk ==
    /\ step = "WALK"
    /\ LET w == IF payload.encoding = "EVEX" THEN WalkEVEX(payload)
                ELSE WalkMVEX(payload)
       IN /\ mask' = w.mask
          /\ IF w.found = {}
             THEN status' = "DECODING_ERROR" /\ step' = "DONE" /\ row' = row
             ELSE /\ row' \in w.found
                  /\ status' = status /\ step' = "CHECK"
    /\ UNCHANGED <<family, mode, payload, insn, request, allowed, match, sent,
                   asked, first>>

----------------------------------------------------------------------------
(* ZydisCheckErrorConditions.                                              *)

\* the values of MVEX.SSS a functionality defines
AcceptedSSS(function) ==
    CASE function \in {"IGNORED", "RC", "SAE", "SWIZZLE_32", "SWIZZLE_64"} -> 0 .. 7
      [] function \in {"INVALID", "F_32", "I_32", "F_64", "I_64", "UF_64",
                       "UI_64", "DF_64", "DI_64"} -> {0}
      [] function = "SF_32" -> (0 .. 7) \ {5}
      [] function = "SI_32" -> (0 .. 7) \ {3}
      [] function \in {"SF_32_BCST", "SI_32_BCST", "SF_64", "SI_64"} -> 0 .. 2
      [] function \in {"SF_32_BCST_4TO16", "SI_32_BCST_4TO16"} -> {0, 2}
      [] function \in {"UF_32", "DF_32"} -> {0} \cup (3 .. 7)
      [] function \in {"UI_32", "DI_32"} -> {0} \cup (4 .. 7)

CheckErrorConditions(d, p) ==
    IF d.encoding = "EVEX" /\ p.z = 1 /\ ~d.accepts_zero_mask THEN "INVALID_MASK"
    ELSE IF d.encoding = "MVEX" /\ p.SSS \notin AcceptedSSS(d.functionality) THEN
           "DECODING_ERROR"
    ELSE IF d.mask_policy = "REQUIRED" /\ mask = 0 THEN "INVALID_MASK"
    ELSE IF d.mask_policy = "FORBIDDEN" /\ mask # 0 THEN "INVALID_MASK"
    ELSE "SUCCESS"

Check ==
    /\ step = "CHECK"
    /\ status' = CheckErrorConditions(row, payload)
    /\ step' = IF status' = "SUCCESS" THEN "INFO" ELSE "DONE"
    /\ UNCHANGED <<family, mode, payload, mask, row, insn, request, allowed,
                   match, sent, asked, first>>

----------------------------------------------------------------------------
(* ZydisSetAVXInformation, EVEX: "v" is 1, 2 or 3 for 128, 256 or 512.     *)

VectorLength(d, p) == IF d.vector_length # 0 THEN d.vector_length ELSE p.LL + 1

\* 16, 32 and 64 bit elements
SizeIndex(d) == d.element_size \div 32 + 1

EvexScale(d, p, v) ==
    CASE d.tuple_type = "FV" ->
           IF p.b = 0 THEN <<16, 32, 64>>[v] ELSE <<2, 4, 8>>[SizeIndex(d)]
      [] d.tuple_type = "HV" ->
           IF p.b = 0 THEN <<8, 16, 32>>[v] ELSE <<2, 4>>[SizeIndex(d)]
      [] d.tuple_type = "QUARTER" -> IF p.b = 0 THEN <<4, 8, 16>>[v] ELSE 2
      [] d.tuple_type = "FVM" -> <<16, 32, 64>>[v]
      [] d.tuple_type \in {"GSCAT", "T1S"} ->
           [s \in {8, 16, 32, 64, 128} |->
              CASE s = 8 -> 1 [] s = 16 -> 2 [] s = 32 -> 4 [] s = 64 -> 8
                [] s = 128 -> 16][d.element_size]
      [] d.tuple_type = "T1F" -> <<2, 4, 8>>[SizeIndex(d)]
      [] d.tuple_type = "T1_4X" -> 16
      [] d.tuple_type = "T2" -> IF p.W = 0 THEN 8 ELSE 16
      [] d.tuple_type = "T4" -> IF p.W = 0 THEN 16 ELSE 32
      [] d.tuple_type = "T8" -> 32
      [] d.tuple_type = "HVM" -> <<8, 16, 32>>[v]
      [] d.tuple_type = "QVM" -> <<4, 8, 16>>[v]
      [] d.tuple_type = "OVM" -> <<2, 4, 8>>[v]
      [] d.tuple_type = "M128" -> 16
      [] d.tuple_type = "DUP" -> <<8, 32, 64>>[v]
      [] d.tuple_type \in {NONE, "NO_SCALE"} -> 0

EvexBroadcast(d, p, v) ==
    CASE d.broadcast # NONE -> d.broadcast
      [] d.broadcast = NONE /\ d.tuple_type = "FV" /\ p.b = 1 ->
           << <<"1_TO_8", "1_TO_16", "1_TO_32">>,
              <<"1_TO_4", "1_TO_8", "1_TO_16">>,
              <<"1_TO_2", "1_TO_4", "1_TO_8">> >>[SizeIndex(d)][v]
      [] d.broadcast = NONE /\ d.tuple_type = "HV" /\ p.b = 1 ->
           << <<"1_TO_4", "1_TO_8", "1_TO_16">>,
              <<"1_TO_2", "1_TO_4", "1_TO_8">> >>[SizeIndex(d)][v]
      [] d.broadcast = NONE /\ d.tuple_type = "QUARTER" /\ p.b = 1 ->
           <<"1_TO_2", "1_TO_4", "1_TO_8">>[v]
      [] OTHER -> NONE

EvexMaskMode(d, p) ==
    CASE mask = 0 -> "DISABLED"
      [] mask # 0 /\ d.mask_override = "DEFAULT" ->
           IF p.z = 1 THEN "ZEROING" ELSE "MERGING"
      [] mask # 0 /\ d.mask_override = "ZEROING" -> "ZEROING"
      [] mask # 0 /\ d.mask_override = "CONTROL" ->
           IF p.z = 1 THEN "CONTROL_ZEROING" ELSE "CONTROL"

EvexInformation(d, p) ==
    LET v == VectorLength(d, p) IN
    [cd8_scale |-> EvexScale(d, p, v), vector_length |-> v,
     is_static |-> d.broadcast # NONE, broadcast |-> EvexBroadcast(d, p, v),
     rounding |-> IF p.b = 1 /\ d.functionality = "RC" THEN Roundings[p.LL + 1]
                  ELSE NONE,
     has_sae |-> p.b = 1 /\ d.functionality \in {"RC", "SAE"},
     swizzle |-> NONE, conversion |-> NONE, has_eviction_hint |-> FALSE,
     mask |-> mask, mask_mode |-> EvexMaskMode(d, p), has_nf |-> d.has_nf,
     scc |-> d.scc, default_flags |-> IF d.scc = ANY THEN 0 ELSE p.vvvv]

(* ZydisSetAVXInformation, MVEX.                                           *)

MvexIndex(d) ==
    CASE d.has_element_granularity -> 2
      [] ~d.has_element_granularity /\ d.broadcast = NONE -> 1
      [] ~d.has_element_granularity /\ d.broadcast \in {"1_TO_8", "1_TO_16"} -> 2
      [] ~d.has_element_granularity /\ d.broadcast \in {"4_TO_8", "4_TO_16"} -> 3

MvexScale(d, p) ==
    CASE d.functionality \in {"IGNORED", "INVALID", "RC", "SAE", "SWIZZLE_32",
                              "SWIZZLE_64"} -> 0
      [] d.functionality \in {"F_32", "I_32", "F_64", "I_64"} -> 64
      [] d.functionality \in {"SF_32", "SF_32_BCST", "SF_32_BCST_4TO16", "UF_32"} ->
           << <<64, 4, 16, 32, 16, 16, 32, 32>>,
              << 4, 0,  0,  2,  1,  1,  2,  2>>,
              <<16, 0,  0,  8,  4,  4,  8,  8>> >>[MvexIndex(d)][p.SSS + 1]
      [] d.functionality \in {"SI_32", "SI_32_BCST", "SI_32_BCST_4TO16", "UI_32"} ->
           << <<64, 4, 16, 0, 16, 16, 32, 32>>,
              << 4, 0,  0, 0,  1,  1,  2,  2>>,
              <<16, 0,  0, 0,  4,  4,  8,  8>> >>[MvexIndex(d)][p.SSS + 1]
      [] d.functionality \in {"SF_64", "UF_64", "SI_64", "UI_64"} ->
           << <<64, 8, 32>>, <<8, 0, 0>>, <<32, 0, 0>> >>[MvexIndex(d)][p.SSS + 1]
      [] d.functionality \in {"DF_32", "DI_32"} ->
           << <<64, 0, 0, 32, 16, 16, 32, 32>>,
              << 4, 0, 0,  2,  1,  1,  2,  2>> >>[MvexIndex(d)][p.SSS + 1]
      [] d.functionality \in {"DF_64", "DI_64"} ->
           << <<64>>, <<8>> >>[MvexIndex(d)][p.SSS + 1]

MvexBroadcast(d, p) ==
    CASE d.functionality \in {"SF_32", "SF_32_BCST", "SF_32_BCST_4TO16", "SI_32",
                              "SI_32_BCST", "SI_32_BCST_4TO16"} /\ p.SSS \in {1, 2} ->
           <<"1_TO_16", "4_TO_16">>[p.SSS]
      [] d.functionality \in {"SF_64", "SI_64"} /\ p.SSS \in {1, 2} ->
           <<"1_TO_8", "4_TO_8">>[p.SSS]
      [] OTHER -> IF d.has_element_granularity THEN NONE ELSE d.broadcast

MvexConversion(d, p) ==
    IF /\ p.SSS >= 3
       /\ d.functionality \in {"SF_32", "SF_32_BCST", "SF_32_BCST_4TO16", "SI_32",
             "SI_32_BCST", "SI_32_BCST_4TO16", "UF_32", "DF_32", "UI_32", "DI_32"}
    THEN <<"FLOAT16", "UINT8", "SINT8", "UINT16", "SINT16">>[p.SSS - 2]
    ELSE NONE

MvexInformation(d, p) ==
    [cd8_scale |-> MvexScale(d, p), vector_length |-> 3,
     is_static |-> ~d.has_element_granularity /\ d.broadcast # NONE,
     broadcast |-> MvexBroadcast(d, p),
     rounding |-> IF d.functionality = "RC" THEN Roundings[(p.SSS % 4) + 1] ELSE NONE,
     has_sae |-> d.functionality \in {"RC", "SAE"} /\ p.SSS >= 4,
     swizzle |-> IF d.functionality \in {"SWIZZLE_32", "SWIZZLE_64"}
                 THEN Swizzles[p.SSS + 1] ELSE NONE,
     conversion |-> MvexConversion(d, p),
     has_eviction_hint |-> p.memory /\ p.E = 1,
     mask |-> IF d.mask_policy = "ALLOWED" THEN mask ELSE K0,
     mask_mode |-> IF d.mask_policy = "ALLOWED" THEN "MERGING" ELSE NONE,
     has_nf |-> FALSE, scc |-> ANY, default_flags |-> 0]

(* ZydisSetOperandSizeAndElementInfo: the size in bits of a memory operand. *)

ElementBits(function, conversion) ==
    CASE conversion \in {"FLOAT16", "UINT16", "SINT16"} -> 16
      [] conversion \in {"UINT8", "SINT8"} -> 8
      [] conversion = NONE ->
           IF function \in {"SF_64", "UF_64", "DF_64", "SI_64", "UI_64", "DI_64"}
           THEN 64 ELSE 32

\* mutant: the size of a broadcast operand is that of the whole vector
EvexMemorySizeWhole(d, a) ==
    IF d.element_size = 0 THEN 0
    ELSE <<128, 256, 512>>[a.vector_length] \div
         (CASE d.tuple_type = "FV" -> 1 [] d.tuple_type = "HV" -> 2
            [] d.tuple_type = "QUARTER" -> 4)

EvexMemorySize(d, a) ==
    LET part(n) == IF a.broadcast # NONE THEN d.element_size
                   ELSE <<128, 256, 512>>[a.vector_length] \div n
    IN CASE d.element_size = 0 -> 0
         [] d.element_size # 0 /\ d.tuple_type = "FV" -> part(1)
         [] d.element_size # 0 /\ d.tuple_type = "HV" -> part(2)
         [] d.element_size # 0 /\ d.tuple_type = "QUARTER" -> part(4)

MvexMemorySize(d, a) ==
    LET element == ElementBits(d.functionality, a.conversion)
    IN CASE a.broadcast \in {"1_TO_8", "1_TO_16"} -> element
         [] a.broadcast \in {"4_TO_8", "4_TO_16"} -> 4 * element
         [] a.broadcast = NONE /\ a.conversion # NONE -> 16 * element
         [] a.broadcast = NONE /\ a.conversion = NONE ->
              IF d.functionality \in {"SF_32_BCST", "SI_32_BCST"} THEN 256 ELSE 512

MemorySize(d, a) ==
    CASE ~d.memory -> 0
      [] d.memory /\ d.size # 0 -> 8 * d.size
      [] d.memory /\ d.size = 0 /\ d.encoding = "EVEX" -> EvexMemorySize(d, a)
      [] d.memory /\ d.size = 0 /\ d.encoding = "MVEX" -> MvexMemorySize(d, a)

\* compressed 8-bit displacements are multiplied when the operands are decoded
Displacement(d, a, disp) ==
    IF disp.size = 8 /\ d.tuple_type # "NO_SCALE"
    THEN disp.value * a.cd8_scale ELSE disp.value

Instruction(d, p, a) ==
    [encoding |-> d.encoding, mnemonic |-> d.mnemonic, operands |-> d.operands,
     has_mask_operand |-> d.mask_policy \in {"ALLOWED", "REQUIRED"}, z |-> p.z,
     avx |-> a, memory |-> d.memory, size |-> MemorySize(d, a),
     disp_size |-> p.disp.size, displacement |-> Displacement(d, a, p.disp),
     base |-> p.disp.base]

(* A behaviour that has no request yet goes on to make one.                *)
Info ==
    /\ step = "INFO"
    /\ insn' = Instruction(row, payload, IF row.encoding = "EVEX"
                                         THEN EvexInformation(row, payload)
                                         ELSE MvexInformation(row, payload))
    /\ IF request = Nothing THEN step' = "REQUEST" /\ first' = insn'
       ELSE step' = "DONE" /\ first' = first
    /\ UNCHANGED <<family, mode, status, payload, mask, row, request, allowed,
                   match, sent, asked>>

----------------------------------------------------------------------------
(* ZydisEncoderDecodedInstructionToEncoderRequest.                         *)

NoEvex == [broadcast |-> NONE, rounding |-> NONE, sae |-> FALSE,
           zeroing_mask |-> FALSE, no_flags |-> FALSE, default_flags |-> 0]
NoMvex == [broadcast |-> NONE, conversion |-> NONE, rounding |-> NONE,
           swizzle |-> NONE, sae |-> FALSE, eviction_hint |-> FALSE]

\* mutant: a broadcast the definition implies is requested as well
RequestedBroadcastStatic(a) == a.broadcast

RequestedBroadcast(a) == IF a.is_static THEN NONE ELSE a.broadcast

EvexRequest(i) ==
    [broadcast |-> RequestedBroadcast(i.avx), rounding |-> i.avx.rounding,
     sae |-> i.avx.has_sae,
     zeroing_mask |-> i.avx.mask_mode \in {"ZEROING", "CONTROL_ZEROING"} /\ i.z = 1,
     no_flags |-> i.avx.has_nf,
     default_flags |-> IF i.avx.scc = ANY THEN 0 ELSE i.avx.default_flags]

MvexRequest(i) ==
    [broadcast |-> RequestedBroadcast(i.avx), conversion |-> i.avx.conversion,
     rounding |-> i.avx.rounding, swizzle |-> i.avx.swizzle, sae |-> i.avx.has_sae,
     eviction_hint |-> i.avx.has_eviction_hint]

\* mask: the mask register among the operands, ANY when there is none
DecodedInstructionToEncoderRequest(i) ==
    [mnemonic |-> i.mnemonic, operands |-> i.operands, memory |-> i.memory,
     mem_size |-> i.size \div 8,
     displacement |-> IF i.disp_size = 0 THEN 0 ELSE i.displacement,
     base |-> i.base, mask |-> IF i.has_mask_operand THEN i.avx.mask ELSE ANY,
     allowed_encodings |-> {i.encoding},
     evex |-> IF i.encoding = "EVEX" THEN EvexRequest(i) ELSE NoEvex,
     mvex |-> IF i.encoding = "MVEX" THEN MvexRequest(i) ELSE NoMvex]

ToRequest ==
    /\ step = "REQUEST"
    /\ request' = DecodedInstructionToEncoderRequest(insn)
    /\ step' = "VIABLE"
    /\ UNCHANGED <<family, mode, status, payload, mask, row, insn, allowed, match,
                   sent, asked, first>>

----------------------------------------------------------------------------
(* ZydisEncoderCheckRequestSanity and ZydisGetViableEncodings; the empty   *)
(* set of allowed encodings is ZYDIS_ENCODABLE_ENCODING_DEFAULT.           *)

Contradictory(q) == {"EVEX", "MVEX"} \subseteq q.allowed_encodings

ViableEncodings(q) ==
    LET needed == {e \in {"EVEX", "MVEX"} : \/ e = "EVEX" /\ q.evex # NoEvex
                                            \/ e = "MVEX" /\ q.mvex # NoMvex}
        asked_for == IF q.allowed_encodings = {} THEN {"EVEX", "MVEX"}
                     ELSE q.allowed_encodings
    IN CASE needed = {} -> asked_for
         [] needed = {"EVEX", "MVEX"} -> {}
         [] needed \in {{"EVEX"}, {"MVEX"}} -> asked_for \cap needed

Viable ==
    /\ step = "VIABLE"
    /\ allowed' = IF Contradictory(request) THEN {} ELSE ViableEncodings(request)
    /\ status' = CASE Contradictory(request) -> "INVALID_ARGUMENT"
                   [] ~Contradictory(request) /\ allowed' = {} ->
                        "IMPOSSIBLE_INSTRUCTION"
                   [] OTHER -> status
    /\ step' = IF allowed' = {} THEN "DONE" ELSE "FIND"
    /\ UNCHANGED <<family, mode, payload, mask, row, insn, request, match, sent,
                   asked, first>>

----------------------------------------------------------------------------
(* The requested features against a definition.                            *)

\* bytes left for the elements of a vector of r's length
BroadcastFits(r, broadcast) ==
    LET bytes == <<16, 32, 64>>[r.length] \div
                 (CASE r.tuple_type = "FV" -> 1 [] r.tuple_type = "HV" -> 2
                    [] r.tuple_type = "QUARTER" -> 4)
        count == bytes \div (r.element_size \div 8)
    IN broadcast = [n \in {2, 4, 8, 16, 32} |->
                      CASE n = 2 -> "1_TO_2" [] n = 4 -> "1_TO_4" [] n = 8 -> "1_TO_8"
                        [] n = 16 -> "1_TO_16" [] n = 32 -> "1_TO_32"][count]

EvexFeaturesFit(r, e) ==
    /\ IF r.scc = ANY THEN e.no_flags = r.has_nf ELSE ~e.no_flags
    /\ e.zeroing_mask => r.accepts_zero_mask \/ r.mask_override = "ZEROING"
    /\ r.functionality \in {"INVALID", "BC"} => ~e.sae
    /\ r.functionality \in {"INVALID", "BC", "SAE"} => e.rounding = NONE
    /\ r.functionality = "RC" => ((e.rounding # NONE) <=> e.sae)
    /\ e.broadcast # NONE =>
         r.functionality = "BC" /\ BroadcastFits(r, e.broadcast)

MvexBroadcasts(function) ==
    CASE function \in {"SF_32", "SI_32", "SF_32_BCST", "SI_32_BCST"} ->
           {"1_TO_16", "4_TO_16"}
      [] function \in {"SF_32_BCST_4TO16", "SI_32_BCST_4TO16"} -> {"4_TO_16"}
      [] function \in {"SF_64", "SI_64"} -> {"1_TO_8", "4_TO_8"}
      [] OTHER -> {}

MvexConversions(function) ==
    CASE function = "SF_32" -> {"FLOAT16", "UINT8", "UINT16", "SINT16"}
      [] function \in {"SI_32", "UI_32", "DI_32"} ->
           {"UINT8", "SINT8", "UINT16", "SINT16"}
      [] function \in {"UF_32", "DF_32"} ->
           {"FLOAT16", "UINT8", "SINT8", "UINT16", "SINT16"}
      [] OTHER -> {}

MvexFeaturesFit(r, m) ==
    /\ m.eviction_hint => r.memory /\ r.functionality \notin {"RC", "SAE"}
    /\ m.rounding # NONE => r.functionality = "RC"
    /\ m.sae => r.functionality \in {"RC", "SAE"}
    /\ m.swizzle # NONE => r.functionality \in {"SWIZZLE_32", "SWIZZLE_64"}
    /\ m.broadcast \in {NONE} \cup MvexBroadcasts(r.functionality)
    /\ m.conversion \in {NONE} \cup MvexConversions(r.functionality)
    /\ m.broadcast = NONE \/ m.conversion = NONE

\* mutant: k0 is accepted with a zeroing mask
MaskFitsZeroing(r, q) ==
    /\ (q.mask # ANY) <=> (r.mask_policy \in {"ALLOWED", "REQUIRED"})
    /\ r.encoding = "EVEX" /\ q.mask = K0 => r.mask_policy # "REQUIRED"

(* ZydisIsRegisterOperandCompatible for an operand encoded in EVEX.aaa;    *)
(* whether there is one is part of the request's operand mask.             *)
MaskFits(r, q) ==
    /\ (q.mask # ANY) <=> (r.mask_policy \in {"ALLOWED", "REQUIRED"})
    /\ r.encoding = "EVEX" /\ q.mask = K0 =>
         /\ r.mask_policy # "REQUIRED"
         /\ r.mask_policy = "ALLOWED" => ~q.evex.zeroing_mask

(* ZydisCheckVectorMemorySize, in bytes.                                   *)

EvexAllowedSize(r, q) ==
    LET vector == <<16, 32, 64>>[r.length] IN
    CASE q.evex.broadcast # NONE \/ r.broadcast # NONE -> r.element_size \div 8
      [] OTHER -> CASE r.tuple_type = "NO_SCALE" -> 0
                    [] r.tuple_type = "FV" -> vector
                    [] r.tuple_type = "HV" -> vector \div 2
                    [] r.tuple_type = "QUARTER" -> vector \div 4

MvexAllowedSize(r, q) ==
    LET element == CASE q.mvex.conversion \in {"UINT8", "SINT8"} -> 1
                     [] q.mvex.conversion \in {"FLOAT16", "UINT16", "SINT16"} -> 2
                     [] OTHER -> IF r.functionality \in {"SF_64", "UF_64", "DF_64",
                                        "SI_64", "UI_64", "DI_64"} THEN 8 ELSE 4
        modes == {r.broadcast, q.mvex.broadcast}
    IN IF modes \cap {"1_TO_8", "1_TO_16"} # {} THEN element
       ELSE IF modes \cap {"4_TO_8", "4_TO_16"} # {} THEN 4 * element
       ELSE IF r.functionality \in {"SF_32_BCST", "SI_32_BCST"} THEN 32
       ELSE <<16, 32, 0, 64, 0, 0, 0, 64>>[element]

MemorySizeFits(r, q) ==
    r.memory => q.mem_size = CASE r.size # 0 -> r.size
                               [] r.size = 0 /\ r.encoding = "EVEX" ->
                                    EvexAllowedSize(r, q)
                               [] r.size = 0 /\ r.encoding = "MVEX" ->
                                    MvexAllowedSize(r, q)

----------------------------------------------------------------------------
(* ZydisGetCompDispScale: the logarithm of the scale of a compressed       *)
(* displacement; "v" is 1, 2 or 3 for 128, 256 or 512.                     *)

CompDispScaleEvex(r, e) ==
    LET v == r.length
        broadcast == e.broadcast # NONE
        \* of 16, 32 and 64 bit elements
        element == <<1, 2, 3>>[SizeIndex(r)]
    IN CASE r.tuple_type = "NO_SCALE" -> 0
         [] r.tuple_type = "FV" -> IF broadcast THEN element ELSE <<4, 5, 6>>[v]
         [] r.tuple_type = "HV" -> IF broadcast THEN element ELSE <<3, 4, 5>>[v]
         [] r.tuple_type = "QUARTER" -> IF broadcast THEN 1 ELSE <<2, 3, 4>>[v]
         [] r.tuple_type = "FVM" -> <<4, 5, 6>>[v]
         [] r.tuple_type \in {"GSCAT", "T1S"} ->
              CHOOSE n \in 0 .. 4 : 8 * 2^n = r.element_size
         [] r.tuple_type = "T1F" -> element
         [] r.tuple_type = "T1_4X" -> 4
         [] r.tuple_type = "T2" -> IF r.rex_w = 1 THEN 4 ELSE 3
         [] r.tuple_type = "T4" -> IF r.rex_w = 1 THEN 5 ELSE 4
         [] r.tuple_type = "T8" -> 5
         [] r.tuple_type = "HVM" -> <<3, 4, 5>>[v]
         [] r.tuple_type = "QVM" -> <<2, 3, 4>>[v]
         [] r.tuple_type = "OVM" -> <<1, 2, 3>>[v]
         [] r.tuple_type = "M128" -> 4
         [] r.tuple_type = "DUP" -> <<3, 5, 6>>[v]

\* MVEX.SSS of a broadcast and of a conversion, one of which is NONE
EncodeMvexBroadcastMode(broadcast) ==
    CASE broadcast = NONE -> 0
      [] broadcast \in {"1_TO_8", "1_TO_16"} -> 1
      [] broadcast \in {"4_TO_8", "4_TO_16"} -> 2
EncodeMvexConversionMode(conversion) ==
    IF conversion = NONE THEN 0
    ELSE 3 + Ordinal(<<"FLOAT16", "UINT8", "SINT8", "UINT16", "SINT16">>, conversion)

CompDispScaleMvex(r, m) ==
    LET function == r.functionality
        sss == 1 + EncodeMvexBroadcastMode(m.broadcast)
                 + EncodeMvexConversionMode(m.conversion)
    IN CASE function \in {"IGNORED", "INVALID", "RC", "SAE", "SWIZZLE_32",
                          "SWIZZLE_64"} -> 0
         [] function \in {"F_32", "I_32", "F_64", "I_64"} -> 6
         [] function \in {"SF_32", "SF_32_BCST", "SF_32_BCST_4TO16", "UF_32"} ->
              << <<6, 2, 4, 5, 4, 4, 5, 5>>, <<2, 0, 0, 1, 0, 0, 1, 1>>,
                 <<4, 0, 0, 3, 2, 2, 3, 3>> >>[MvexIndex(r)][sss]
         [] function \in {"SI_32", "SI_32_BCST", "SI_32_BCST_4TO16", "UI_32"} ->
              << <<6, 2, 4, 0, 4, 4, 5, 5>>, <<2, 0, 0, 0, 0, 0, 1, 1>>,
                 <<4, 0, 0, 0, 2, 2, 3, 3>> >>[MvexIndex(r)][sss]
         [] function \in {"SF_64", "UF_64", "SI_64", "UI_64"} ->
              << <<6, 3, 5>>, <<3, 0, 0>>, <<5, 0, 0>> >>[MvexIndex(r)][sss]
         [] function \in {"DF_32", "DI_32"} ->
              << <<6, 0, 0, 5, 4, 4, 5, 5>>,
                 <<2, 0, 0, 1, 0, 0, 1, 1>> >>[MvexIndex(r)][sss]
         [] function \in {"DF_64", "DI_64"} -> <<6, 3>>[MvexIndex(r)]

CompDispScale(r, q) == IF r.encoding = "EVEX" THEN CompDispScaleEvex(r, q.evex)
                       ELSE CompDispScaleMvex(r, q.mvex)

SignedImmSize(imm) == CASE imm \in -128 .. 127 -> 8
                        [] imm \notin -128 .. 127 /\ imm \in -32768 .. 32767 -> 16
                        [] imm \notin -32768 .. 32767 -> 32

(* The displacement in ZydisIsMemoryOperandCompatible.                     *)
MatchDisplacement(r, q) ==
    LET scale == CompDispScale(r, q)
        size == SignedImmSize(q.displacement)
    IN IF q.displacement = 0 THEN NoMatch
       ELSE [cd8_scale |-> scale, disp_size |->
               CASE scale = 0 -> size
                 [] scale # 0 /\ q.displacement % 2^scale = 0 ->
                      IF SignedImmSize(q.displacement \div 2^scale) = 8 THEN 8
                      ELSE size
                 [] scale # 0 /\ q.displacement % 2^scale # 0 ->
                      IF size = 8 THEN 16 ELSE size]

(* ZydisFindMatchingDefinition: the first definition that fits, among      *)
(* those of the mnemonic.                                                  *)

DefinitionFits(r, q) ==
    /\ r.mnemonic = q.mnemonic /\ r.operands = q.operands /\ r.memory = q.memory
    /\ r.encoding \in allowed
    /\ mode # "REAL_16"
    /\ r.encoding = "MVEX" \/ r.long64 => mode = "LONG_64"
    /\ IF r.encoding = "EVEX" THEN EvexFeaturesFit(r, q.evex)
       ELSE MvexFeaturesFit(r, q.mvex)
    /\ MaskFits(r, q)
    /\ MemorySizeFits(r, q)

Find ==
    /\ step = "FIND"
    /\ LET fits == {i \in DOMAIN Rows[family] :
                      DefinitionFits(Rows[family][i], request)}
       IN IF fits = {}
          THEN /\ status' = "IMPOSSIBLE_INSTRUCTION" /\ step' = "DONE"
               /\ UNCHANGED <<row, match>>
          ELSE /\ row' = Rows[family][CHOOSE i \in fits : \A j \in fits : i <= j]
               /\ match' = IF row'.memory THEN MatchDisplacement(row', request)
                           ELSE NoMatch
               /\ step' = "EMIT" /\ status' = status
    /\ UNCHANGED <<family, mode, payload, mask, insn, request, allowed, sent,
                   asked, first>>

----------------------------------------------------------------------------
(* ZydisBuildInstruction, ZydisEmitEvex and ZydisEmitMvex.                 *)

\* ZydisBuildMemoryOperand
BuildDisplacement(q, m) ==
    LET size == CASE ~q.base -> 32
                  [] q.base -> IF m.disp_size = 16 THEN 32 ELSE m.disp_size
    IN [size |-> size, base |-> q.base,
        value |-> IF size = 8 THEN q.displacement \div 2^m.cd8_scale
                  ELSE q.displacement]

MaskField(q) == IF q.mask = ANY THEN 0 ELSE q.mask

EmitEvex(r, q, m) ==
    LET e == q.evex
        conditional == r.scc # ANY
        length == IF e.rounding # NONE THEN Ordinal(Roundings, e.rounding)
                  ELSE <<0, 0, 1, 2>>[r.length + 1]
    IN [encoding |-> "EVEX", opcode |-> r.opcode, memory |-> r.memory, W |-> r.rex_w,
        z |-> Bit(~conditional /\ e.zeroing_mask /\ r.mask_override # "ZEROING"),
        LL |-> IF conditional THEN 0 ELSE length,
        b |-> Bit(~conditional /\ (\/ e.sae \/ e.broadcast # NONE
                                   \/ e.rounding # NONE \/ r.nd = 1)),
        V4 |-> IF conditional THEN r.scc \div 8 ELSE 1,
        aaa |-> IF conditional THEN r.scc % 8
                ELSE MaskField(q) + 4 * Bit(r.nf = 1),
        vvvv |-> IF conditional THEN e.default_flags ELSE 15,
        E |-> 0, SSS |-> 0, disp |-> BuildDisplacement(q, m)]

EvictionHint(q) ==
    CASE q.mnemonic \in {"vmovnrapd", "vmovnraps"} -> FALSE
      [] q.mnemonic \in {"vmovnrngoapd", "vmovnrngoaps"} -> TRUE
      [] OTHER -> q.mvex.sae \/ q.mvex.eviction_hint \/ q.mvex.rounding # NONE

EmitMvex(r, q, m) ==
    LET x == q.mvex IN
    [encoding |-> "MVEX", opcode |-> r.opcode, memory |-> r.memory, W |-> r.rex_w,
     z |-> 0, LL |-> 0, b |-> 0, V4 |-> 1, aaa |-> MaskField(q), vvvv |-> 15,
     E |-> Bit(EvictionHint(q)),
     SSS |-> EncodeMvexBroadcastMode(x.broadcast)
             + EncodeMvexConversionMode(x.conversion)
             + (IF x.rounding = NONE THEN 0 ELSE Ordinal(Roundings, x.rounding))
             + (IF x.swizzle = NONE THEN 0 ELSE Ordinal(Swizzles, x.swizzle))
             + 4 * Bit(x.sae),
     disp |-> BuildDisplacement(q, m)]

Emit ==
    /\ step = "EMIT"
    /\ payload' = IF row.encoding = "EVEX" THEN EmitEvex(row, request, match)
                  ELSE EmitMvex(row, request, match)
    /\ step' = "PREFIX"
    /\ UNCHANGED <<family, mode, status, mask, row, insn, request, allowed, match,
                   sent, asked, first>>

----------------------------------------------------------------------------
Fresh ==
    /\ mode \in Modes /\ status = "SUCCESS" /\ mask = 0
    /\ row = Nothing /\ insn = Nothing /\ first = Nothing
    /\ allowed = {} /\ match = NoMatch

FromPayload ==
    /\ step = "PREFIX" /\ payload \in Payloads[family] /\ sent = payload
    /\ request = Nothing /\ asked = Nothing

FromRequest ==
    /\ step = "VIABLE" /\ request \in Requests[family] /\ asked = request
    /\ payload = Nothing /\ sent = Nothing

Init == family \in DOMAIN Rows /\ Fresh /\ (FromPayload \/ FromRequest)

Done == step = "DONE" /\ UNCHANGED vars

Next == \/ Prefix \/ Walk \/ Check \/ Info
        \/ ToRequest \/ Viable \/ Find \/ Emit \/ Done

Spec == Init /\ [][Next]_vars

----------------------------------------------------------------------------
(* Properties.                                                             *)

\* what ZydisValidateInstructionIdentity compares, and the APX features
Identity(i) ==
    [mnemonic |-> i.mnemonic, operands |-> i.operands, memory |-> i.memory,
     size |-> i.size, mask |-> <<i.avx.mask, i.avx.mask_mode>>,
     broadcast |-> <<i.avx.is_static, i.avx.broadcast>>,
     displacement |-> IF i.disp_size = 0 THEN 0 ELSE i.displacement,
     conversion |-> i.avx.conversion, rounding |-> i.avx.rounding,
     sae |-> i.avx.has_sae, eviction |-> i.avx.has_eviction_hint,
     swizzle |-> IF i.avx.swizzle = "DCBA" THEN NONE ELSE i.avx.swizzle,
     apx |-> <<i.avx.has_nf, i.avx.scc, i.avx.default_flags>>]

ReEncoded == step = "DONE" /\ sent # Nothing /\ first # Nothing

(* Whatever the decoder accepts, the encoder encodes from the request made  *)
(* of it, and the result decodes to the same mask, broadcast, conversion,   *)
(* rounding, swizzle, eviction hint, flags, memory size and displacement    *)
(* (ZydisReEncodeInstruction in tools/ZydisFuzzShared.c).  Nor does it grow: *)
(* the encoder compresses every displacement that was compressed, so its    *)
(* scale tables give what the decoder's give ("Suboptimal output size").    *)
RoundTrip ==
    ReEncoded => /\ status = "SUCCESS"
                 /\ Identity(insn) = Identity(first)
                 /\ payload.disp.size <= sent.disp.size

(* The scale of a compressed displacement is the size of the memory operand *)
(* for every tuple type whose operand is not a number of elements known     *)
(* only at run time (ZydisSetAVXInformation and                             *)
(* ZydisSetOperandSizeAndElementInfo compute the two from separate tables). *)
ScaleIsMemorySize ==
    insn # Nothing /\ insn.encoding = "EVEX" /\ insn.memory
    /\ insn.avx.cd8_scale # 0 /\ step # "INFO"
      => insn.size % (8 * insn.avx.cd8_scale) = 0
         /\ (row.tuple_type # "T1S" => insn.size = 8 * insn.avx.cd8_scale)

(* Anything the encoder accepts decodes, and to what was asked for.  The    *)
(* encoder fills in what the request leaves open: SAE alone is rounding to  *)
(* nearest in MVEX, no swizzle is DCBA, a static broadcast and a zeroing    *)
(* mask that the definition has anyway need not be asked for, and flags are *)
(* for conditional instructions only (ZydisEncoderEncodeInstruction).       *)
Accepted == step = "DONE" /\ asked # Nothing /\ payload # Nothing

FeaturesHonoured(a, e, m) ==
    LET evex == row.encoding = "EVEX" IN
    /\ a.has_sae = (e.sae \/ m.sae)
    /\ a.rounding = (IF evex THEN e.rounding
                     ELSE IF row.functionality = "RC" /\ m.rounding = NONE THEN "RN"
                     ELSE m.rounding)
    /\ ~a.is_static => a.broadcast = IF evex THEN e.broadcast ELSE m.broadcast
    /\ a.is_static => e.broadcast = NONE /\ m.broadcast = NONE
    /\ a.conversion = m.conversion
    /\ a.swizzle = m.swizzle \/ (a.swizzle = "DCBA" /\ m.swizzle = NONE)
    /\ (a.mask_mode \in {"ZEROING", "CONTROL_ZEROING"}) =
         (e.zeroing_mask \/ (row.mask_override = "ZEROING" /\ a.mask # K0))
    /\ a.has_nf = e.no_flags
    /\ a.scc # ANY => a.default_flags = e.default_flags

RequestHonoured ==
    Accepted =>
      /\ status = "SUCCESS"
      /\ insn.mnemonic = asked.mnemonic /\ insn.operands = asked.operands
      /\ insn.memory = asked.memory /\ insn.size = 8 * asked.mem_size
      /\ (IF insn.disp_size = 0 THEN 0 ELSE insn.displacement) = asked.displacement
      /\ insn.avx.mask = IF asked.mask = ANY THEN K0 ELSE asked.mask
      /\ FeaturesHonoured(insn.avx, asked.evex, asked.mvex)

====
