------------------------------ MODULE MCFormatter ------------------------------
(* Instructions as the decoder returns them, one of each form that some     *)
(* function of the formatter treats in its own way.                         *)
EXTENDS Formatter

Op == [id |-> 0, type |-> "REGISTER", encoding |-> "OTHER", size |-> 32, implicit |-> FALSE,
       reg |-> "REG", mem |-> "MEM", base |-> "NONE", index |-> "NONE", scale |-> 0,
       segment |-> "DS", disp |-> "NONE", address |-> "NONE"]
Insn == [encoding |-> "LEGACY", operands |-> <<>>, operand_width |-> 32, attributes |-> {},
         prefixes |-> <<>>, branch |-> "NONE", mask |-> "K0", zeroing |-> FALSE,
         broadcast |-> "NONE", rounding |-> FALSE, sae |-> FALSE, swizzle |-> FALSE,
         conversion |-> FALSE, evictionHint |-> FALSE, nf |-> FALSE, scc |-> FALSE]

Reg(width) == [Op EXCEPT !.size = width]
Rm(width) == [Op EXCEPT !.size = width, !.encoding = "MODRM_RM"]
Mask(reg) == [Op EXCEPT !.size = 64, !.encoding = "MASK", !.reg = reg]
Imm(width) == [Op EXCEPT !.type = "IMMEDIATE", !.size = width]
Target(width, address) == [Imm(width) EXCEPT !.address = address]
Mem(width) == [Op EXCEPT !.type = "MEMORY", !.encoding = "MODRM_RM", !.size = width, !.base = "REG"]
Indexed(width, scale, disp) ==
  [Mem(width) EXCEPT !.index = "REG", !.scale = scale, !.disp = disp]
Absolute(width, segment) ==
  [Mem(width) EXCEPT !.base = "NONE", !.disp = "POSITIVE", !.segment = segment]

\* operands with their ids
Of(operands) ==
  [Insn EXCEPT !.operands = [k \in DOMAIN operands |-> [operands[k] EXCEPT !.id = k - 1]]]
Evex(operands, reg) == [Of(operands) EXCEPT !.encoding = "EVEX", !.mask = reg]
Mvex(operands, reg) == [Of(operands) EXCEPT !.encoding = "MVEX", !.mask = reg]
Prefixed(insn0, attributes, prefixes) ==
  [insn0 EXCEPT !.attributes = attributes, !.prefixes = prefixes]
P(value, type) == [value |-> value, type |-> type]

MovLoad == Of(<<Reg(64), Indexed(64, 4, "NEGATIVE")>>)
AddByte == Of(<<Mem(8), Imm(8)>>)
ShiftByCL == Of(<<Mem(8), [Reg(8) EXCEPT !.implicit = TRUE, !.reg = "CL"]>>)
CallRip == [Of(<<[Mem(64) EXCEPT !.base = "RIP", !.disp = "POSITIVE"]>>)
             EXCEPT !.branch = "NEAR"]
JumpFar == [Of(<<[Op EXCEPT !.type = "POINTER", !.size = 48]>>) EXCEPT !.branch = "FAR"]
CallFar == [Of(<<Mem(48)>>) EXCEPT !.branch = "FAR"]
BranchShort == [Of(<<Target(8, "RELATIVE")>>) EXCEPT !.branch = "SHORT"]
MovAbsolute == Prefixed(Of(<<Reg(8), Absolute(8, "FS")>>), {}, <<P("FS", "EFFECTIVE")>>)
SegmentDs == Prefixed(Of(<<Reg(32), [Mem(32) EXCEPT !.disp = "ZERO"]>>),
                      {"DS"}, <<P("DS", "EFFECTIVE")>>)
XacquireLock == Prefixed(Of(<<Mem(32), Reg(32)>>), {"LOCK", "XACQUIRE"},
                         <<P("F2", "EFFECTIVE"), P("LOCK", "EFFECTIVE")>>)
LockTwice == Prefixed(Of(<<Mem(32), Reg(32)>>), {"LOCK"},
                      <<P("LOCK", "IGNORED"), P("LOCK", "EFFECTIVE")>>)
XreleaseMov == Prefixed(Of(<<Mem(32), Reg(32)>>), {"XRELEASE"}, <<P("F3", "EFFECTIVE")>>)
RepMovs == Prefixed(Of(<<>>), {"REP"}, <<P("F3", "MANDATORY")>>)
RepneScas == Prefixed(Of(<<>>), {"REPNE"}, <<P("F2", "MANDATORY")>>)
RepeCmps == Prefixed(Of(<<>>), {"REPE"}, <<P("F3", "MANDATORY")>>)
Ignored == Prefixed(Of(<<>>), {}, <<P("SS", "IGNORED"), P("REX", "IGNORED"), P("OSZ", "EFFECTIVE")>>)
Notrack == Prefixed([Of(<<Rm(64)>>) EXCEPT !.branch = "NEAR"], {"NOTRACK"},
                    <<P("DS", "EFFECTIVE")>>)
BndJump == Prefixed([Of(<<Target(32, "RELATIVE")>>) EXCEPT !.branch = "NEAR"], {"BND"},
                    <<P("F2", "EFFECTIVE")>>)
MovZx == Of(<<Reg(32), Mem(8)>>)
MulImm == Of(<<Reg(32), Mem(32), Imm(8)>>)
Lea == Of(<<Reg(64), [Mem(64) EXCEPT !.mem = "AGEN", !.disp = "NEGATIVE"]>>)
Bndstx == Of(<<[Indexed(192, 1, "NONE") EXCEPT !.mem = "MIB"], Reg(128)>>)
JmpAbs == [Of(<<Target(64, "ABSOLUTE")>>) EXCEPT !.branch = "ABSOLUTE"]

MaskBroadcast == [Evex(<<Reg(512), Mask("K1"), Reg(512), Mem(32)>>, "K1")
                   EXCEPT !.zeroing = TRUE, !.broadcast = "DYNAMIC"]
ClassBroadcast == [Evex(<<Reg(64), Mask("K0"), Mem(32), Imm(8)>>, "K0")
                    EXCEPT !.broadcast = "DYNAMIC"]
Rounding == [Evex(<<Reg(512), Mask("K1"), Reg(512), Rm(512)>>, "K1")
              EXCEPT !.rounding = TRUE, !.sae = TRUE]
CompareSae == [Evex(<<Reg(64), Mask("K1"), Reg(512), Rm(512), Imm(8)>>, "K1")
                EXCEPT !.sae = TRUE]
ConvertSae == [Evex(<<Reg(32), Rm(128)>>, "K0") EXCEPT !.sae = TRUE]
Scatter == Evex(<<[Indexed(32, 4, "NONE") EXCEPT !.mem = "VSIB"], Mask("K1"), Reg(512)>>, "K1")
KncSwizzle == [Mvex(<<Reg(512), Mask("K1"), Reg(512), Rm(512)>>, "K1") EXCEPT !.swizzle = TRUE]
KncRounding == [Mvex(<<Reg(512), Mask("K1"), Reg(512), Rm(512)>>, "K1") EXCEPT !.rounding = TRUE]
KncConvert == [Mvex(<<Reg(512), Mask("K0"), Reg(512), Mem(256)>>, "K0")
                EXCEPT !.conversion = TRUE, !.evictionHint = TRUE]
KncBroadcast == [Mvex(<<Reg(512), Mask("K0"), Reg(512), Mem(32)>>, "K0")
                  EXCEPT !.broadcast = "DYNAMIC"]
ApxNf == [Evex(<<Rm(64), Reg(64)>>, "K0") EXCEPT !.nf = TRUE]
ApxCcmp == [Evex(<<Rm(64), Reg(64)>>, "K0") EXCEPT !.scc = TRUE]

Plain == {MovLoad, AddByte, ShiftByCL, CallRip, JumpFar, CallFar, BranchShort, MovAbsolute,
          SegmentDs, XacquireLock, LockTwice, XreleaseMov, RepMovs, RepneScas, RepeCmps, Ignored,
          Notrack, BndJump, MovZx, MulImm, Lea, Bndstx, JmpAbs}
Vector == {MaskBroadcast, ClassBroadcast, Rounding, CompareSae, ConvertSae, Scatter, KncSwizzle,
           KncRounding, KncConvert, KncBroadcast, ApxNf, ApxCcmp}
MCInstructions == Plain \cup Vector

\* A handful, for every way the loop can be left.

StaticNames ==
  <<"ADD", "SUB", "MUL", "DELIM_MEMORY", "DELIM_SEGMENT", "DELIM_MNEMONIC", "DELIM_OPERAND",
    "MEMORY_BEGIN", "MEMORY_END", "REGISTER", "IMMEDIATE", "ADDR_RELATIVE", "SIZE", "SIZE_BCST",
    "DECO_BEGIN", "DECO_END", "DECO_ZERO", "DECO_BC", "DECO_RC", "DECO_RC_SAE", "DECO_SAE",
    "DECO_SWIZZLE", "DECO_CONVERSION", "DECO_EH", "DECO_NF", "DECO_DFV", "LOCK", "XACQUIRE",
    "XRELEASE", "REP", "REPE", "REPNE", "BND", "NOTRACK", "REX", "CS", "SS", "DS", "ES", "FS", "GS">>
\* A segment register shares the glyph of its prefix, the size suffix of the
\* mnemonic that of the typecast.
MCGlyphs ==
  StaticNames \o <<"NAME", "REG", "CL", "K0", "K1", "RIP", "NUMBER", "ADDRESS", "PLUS", "SPACE",
                   "SHORT", "NEAR", "FAR", "NF">>
MCChars == 1 .. Len(MCGlyphs)
MCPredefined == {Block(name) : name \in {StaticNames[k] : k \in DOMAIN StaticNames}}

MCSettings ==
  {<<property, TRUE>> : property \in DOMAIN BooleanField}
    \cup {<<"FORCE_SCALE_ONE", FALSE>>, <<"DISP_SIGNEDNESS", "UNSIGNED">>,
          <<"ADDR_SIGNEDNESS", "UNSIGNED">>, <<"DECO_APX_NF_USE_SUFFIX", TRUE>>}
MCForceSize == {<<"FORCE_SIZE", value>> : value \in BOOLEAN}
MCDetailed == {<<"DETAILED_PREFIXES", TRUE>>}
MCHooks == {"PRE_INSTRUCTION", "PRE_OPERAND", "FORMAT_OPERAND", "POST_OPERAND",
            "POST_INSTRUCTION"}

=============================================================================
