------------------------------- MODULE Formatter -------------------------------
(****************************************************************************)
(* The formatter at work: the entry points of src/src/Formatter.c and the  *)
(* loops over the operands of FormatterIntel.c and FormatterATT.c, calling  *)
(* the functions of FormatterFunctions on the buffer of FormatterBuffer.    *)
(*                                                                          *)
(* The buffer of Init is a plain string for ZydisFormatterFormatInstruction *)
(* and FormatOperand, a token list for the two Tokenize functions.  The     *)
(* client may set properties and hooks first; a hook of an operand returns  *)
(* what it likes.  One step is one call on the buffer, or one decision of   *)
(* the loop.                                                                *)
(****************************************************************************)
EXTENDS FormatterBuffer, FormatterFunctions, FiniteSets

CONSTANTS
  Instructions,  \* decoded instructions
  Styles,        \* formatter styles
  Settings,      \* <<property, value>> the client may set
  Hookable,      \* hooks the client may install
  Verdicts,      \* what a hook returns
  MaxSettings,   \* bound: calls of SetProperty and SetHook
  MaxSkips,      \* bound: operands skipped
  Glyphs         \* all names, numbers and fixed strings, as a sequence

ASSUME HookAssumption ==
  /\ Hookable \subseteq {"PRE_INSTRUCTION", "PRE_OPERAND", "FORMAT_OPERAND", "POST_OPERAND",
                       "POST_INSTRUCTION"}
  /\ Verdicts \subseteq {"SUCCESS", "SKIP_TOKEN", "FAILED"}

VARIABLES
  f,              \* the ZydisFormatter
  hooks,          \* hooks installed
  settings,       \* SetProperty and SetHook calls so far
  insn, known,    \* context->instruction, runtime_address is given
  whole,          \* an instruction, or one operand
  at,             \* the operand of the loop, from 1
  phase,          \* where the entry point is
  todo,           \* calls the running function still makes
  state_mnemonic, buffer_state,
  result,         \* what the last entry point returned
  kept,           \* history: glyphs printed and not taken back
  bufferKept,     \* history: kept when the operand was begun
  skipped         \* history: operands that were skipped

client == <<f, hooks, settings>>
request == <<insn, known, whole>>
history == <<kept, bufferKept, skipped>>
formatterVars ==
  <<vars, client, request, at, phase, todo, state_mnemonic, buffer_state, result, history>>

-----------------------------------------------------------------------------
(* The fixed strings *)

TokenType == [
  WHITESPACE |-> 1, DELIMITER |-> 2, PARENTHESIS_OPEN |-> 3, PARENTHESIS_CLOSE |-> 4,
  PREFIX |-> 5, MNEMONIC |-> 6, REGISTER |-> 7, ADDRESS_ABS |-> 8, ADDRESS_REL |-> 9,
  DISPLACEMENT |-> 10, IMMEDIATE |-> 11, TYPECAST |-> 12, DECORATOR |-> 13]

\* Token types of a fixed string; each token has one glyph.
StaticTypes(name) ==
  CASE name \in {"ADD", "SUB", "MUL", "DELIM_MEMORY", "DELIM_SEGMENT"} -> <<"DELIMITER">>
    [] name = "DELIM_MNEMONIC" -> <<"WHITESPACE">>
    [] name = "DELIM_OPERAND"  -> <<"DELIMITER", "WHITESPACE">>
    [] name = "MEMORY_BEGIN"   -> <<"PARENTHESIS_OPEN">>
    [] name \in {"MEMORY_END", "DECO_END"} -> <<"PARENTHESIS_CLOSE">>
    [] name \in {"REGISTER", "IMMEDIATE"} -> <<name>>
    [] name = "ADDR_RELATIVE"  -> <<"ADDRESS_REL">>
    [] name \in {"SIZE", "SIZE_BCST"} -> <<"TYPECAST", "WHITESPACE">>
    [] name = "DECO_BEGIN"     -> <<"WHITESPACE", "PARENTHESIS_OPEN">>
    [] name = "DECO_NF" -> <<"PARENTHESIS_OPEN", "DECORATOR", "PARENTHESIS_CLOSE", "WHITESPACE">>
    [] name \in {"DECO_ZERO", "DECO_BC", "DECO_RC", "DECO_RC_SAE", "DECO_SAE", "DECO_SWIZZLE",
                 "DECO_CONVERSION", "DECO_EH", "DECO_DFV"} ->
         <<"WHITESPACE", "PARENTHESIS_OPEN", "DECORATOR", "PARENTHESIS_CLOSE">>
    [] OTHER -> <<"PREFIX", "WHITESPACE">>

FixedStrings ==
  {"ADD", "SUB", "MUL", "DELIM_MEMORY", "DELIM_SEGMENT", "DELIM_MNEMONIC", "DELIM_OPERAND",
   "MEMORY_BEGIN", "MEMORY_END", "REGISTER", "IMMEDIATE", "ADDR_RELATIVE", "SIZE", "SIZE_BCST",
   "DECO_BEGIN", "DECO_END", "DECO_ZERO", "DECO_BC", "DECO_RC", "DECO_RC_SAE", "DECO_SAE",
   "DECO_SWIZZLE", "DECO_CONVERSION", "DECO_EH", "DECO_NF", "DECO_DFV", "LOCK", "XACQUIRE",
   "XRELEASE", "REP", "REPE", "REPNE", "BND", "NOTRACK", "REX", "CS", "SS", "DS", "ES", "FS", "GS"}
FixedWords == {"NAME", "NUMBER", "ADDRESS", "PLUS", "SPACE", "SIZE", "SHORT", "NEAR", "FAR", "NF"}
GlyphSet == {Glyphs[k] : k \in DOMAIN Glyphs}

\* The byte a glyph is written as.
Code == [g \in GlyphSet |-> CHOOSE k \in DOMAIN Glyphs : Glyphs[k] = g]

ASSUME GlyphAssumption ==
  /\ Glyphs \in Seq(GlyphSet) /\ Len(Glyphs) <= U8Max
  /\ FixedStrings \cup FixedWords \subseteq GlyphSet

\* What the decoder says of an operand: a far pointer has 16 or 32 bits, an
\* address without registers has a displacement, the memory operand of a
\* broadcast is one element.
OperandFits(i, op) ==
  /\ op.type \in {"REGISTER", "MEMORY", "POINTER", "IMMEDIATE"}
  /\ op.type = "REGISTER" => op.reg \in GlyphSet
  /\ op.type = "MEMORY" => /\ {op.base, op.index} \subseteq GlyphSet \cup {"NONE"}
                           /\ Bare(op) => op.disp # "NONE"
                           /\ DynamicBroadcast(i) => op.size \in {16, 32, 64}
  /\ op.type = "POINTER" => i.operand_width \in {16, 32}
  /\ op.type = "IMMEDIATE" => op.address \in {"NONE", "RELATIVE", "ABSOLUTE"}
ElementsOf(s) == {s[k] : k \in DOMAIN s}
ASSUME InstructionAssumption ==
  \A i \in Instructions :
    /\ i.operands \in Seq(ElementsOf(i.operands)) /\ i.prefixes \in Seq(ElementsOf(i.prefixes))
    /\ \A op \in ElementsOf(i.operands) : OperandFits(i, op)
    /\ i.mask \in GlyphSet \cup {"K0"}

PrefixStrings == {"LOCK", "XACQUIRE", "XRELEASE", "REP", "REPE", "REPNE", "BND", "NOTRACK"}
DecoratorStrings ==
  {"DECO_BEGIN", "DECO_ZERO", "DECO_BC", "DECO_RC", "DECO_RC_SAE", "DECO_SAE", "DECO_SWIZZLE",
   "DECO_CONVERSION", "DECO_EH", "DECO_NF", "DECO_DFV"}
Modifiers == PrefixStrings \cup DecoratorStrings

Single(S) == \E k \in S : S = {k}

\* What the decoder says of prefixes: no two of the REP group have an effect,
\* and what F2 or F3 means is said by one byte.
PrefixesFit(i) ==
  LET Effective(value) == {k \in DOMAIN i.prefixes : /\ i.prefixes[k].type = "EFFECTIVE"
                                                     /\ i.prefixes[k].value = value}
  IN
  /\ \A name, other \in {"REP", "REPE", "REPNE"} \cap i.attributes : name = other
  /\ {"XACQUIRE", "BND"} \cap i.attributes # {} => Single(Effective("F2"))
  /\ "XRELEASE" \in i.attributes => Single(Effective("F3"))

\* What it says of vector features: a mask is the second operand, and there is
\* one operand that the others are printed behind.
FeaturesFit(i) ==
  LET vector == i.encoding \in {"EVEX", "MVEX"}
      knc == i.encoding = "MVEX"
      memory == {k \in DOMAIN i.operands : i.operands[k].type = "MEMORY"}
      decorated == {k \in DOMAIN i.operands \ memory :
                      Decorated(i, k) /\ ~(k = 2 /\ IsMask(i.operands[2]))}
  IN
  /\ i.mask # "K0" => vector /\ Len(i.operands) > 1 /\ IsMask(i.operands[2])
  /\ i.zeroing => i.mask # "K0"
  /\ i.broadcast = "DYNAMIC" => vector /\ Single(memory)
  /\ i.conversion \/ i.evictionHint => knc /\ Single(memory)
  /\ i.rounding \/ i.sae => vector /\ Single(decorated)
  /\ i.swizzle => knc /\ Single(decorated)

\* No register is called like a prefix or a decorator.
NamesFit(i) ==
  /\ i.mask \notin Modifiers
  /\ \A op \in ElementsOf(i.operands) : {op.reg, op.base, op.index} \cap Modifiers = {}

ASSUME ModifierAssumption ==
  \A i \in Instructions : PrefixesFit(i) /\ FeaturesFit(i) /\ NamesFit(i)

\* The predefined token list of a fixed string (FormatterStrings.inc).
Block(name) ==
  LET types == StaticTypes(name)
      last == Len(types)
  IN
  [size |-> 4 * last, next |-> (4 * last) - 2,
   data |-> [i \in 0 .. (4 * last) - 1 |->
               LET k == (i \div 4) + 1 IN
               CASE i % 4 = 0 -> TokenType[types[k]]
                 [] i % 4 = 1 -> IF k = last THEN 0 ELSE 2
                 [] i % 4 = 2 -> Code[name]
                 [] i % 4 = 3 -> Nul]]

-----------------------------------------------------------------------------
(* Calls on the buffer *)

ContextOf(op) ==
  [f |-> f, insn |-> insn, whole |-> whole,
   \* ZydisFormatterIntelFormatInstructionMASM sets the address to 0
   known |-> known \/ (whole /\ f.style = "MASM"), op |-> op]
Context == ContextOf(IF at \in DOMAIN insn.operands THEN insn.operands[at] ELSE <<>>)

Printed(call) ==
  CASE call.do = "static" -> [k \in DOMAIN StaticTypes(call.arg) |-> call.arg]
    [] call.do = "text"   -> <<call.arg>>
    [] OTHER              -> <<>>

\* One of the buffer macros, or a failing check.
Perform(call) ==
  \/ call.do = "token" /\ Append_(TokenType[call.arg])
  \/ call.do = "static" /\ isTokenList /\ AppendPredefined(Block(call.arg))
  \/ call.do = "static" /\ ~isTokenList
       /\ AppendText(Len(StaticTypes(call.arg)), Code[call.arg])
  \/ call.do = "text" /\ AppendText(1, Code[call.arg])
  \/ call.do = "fail" /\ Fails(call.arg)

Return(value) ==
  /\ result' = value
  /\ phase' = "Done"
  /\ todo' = <<>>

\* mutant: ZYAN_CHECK is missing
StepUnchecked ==
  LET call == Head(todo) IN
  /\ phase # "Idle" /\ todo # <<>>
  /\ Perform(call)
  /\ todo' = Tail(todo)
  /\ kept' = IF status' = "SUCCESS" THEN kept \o Printed(call) ELSE kept
  /\ UNCHANGED <<client, request, at, phase, result, state_mnemonic, buffer_state,
                 bufferKept, skipped>>

\* The next call of the running function, under ZYAN_CHECK.
Step ==
  LET call == Head(todo) IN
  /\ phase # "Idle" /\ todo # <<>>
  /\ Perform(call)
  /\ IF status' = "SUCCESS"
     THEN /\ todo' = Tail(todo)
          /\ kept' = kept \o Printed(call)
          /\ UNCHANGED <<phase, result>>
     ELSE Return(status') /\ UNCHANGED kept
  /\ UNCHANGED <<client, request, at, state_mnemonic, buffer_state, bufferKept, skipped>>

-----------------------------------------------------------------------------
(* The client *)

\* A setting is made before the entry point is called.
Configure ==
  /\ phase = "Idle" /\ settings < MaxSettings
  /\ settings' = settings + 1
  /\ UNCHANGED <<vars, request, at, phase, todo, state_mnemonic, buffer_state, history>>

\* ZydisFormatterSetProperty
SetProperty(property, value) ==
  /\ Configure
  /\ UNCHANGED hooks
  /\ IF Settable(property, value)
     THEN f' = WithProperty(f, property, value) /\ result' = "SUCCESS"
     ELSE result' = "INVALID_ARGUMENT" /\ UNCHANGED f

\* ZydisFormatterSetHook with a callback
SetHook(hook) ==
  /\ Configure
  /\ hooks' = hooks \cup {hook}
  /\ UNCHANGED <<f, result>>

\* What an installed hook returns; none is like one that succeeds.
Verdict(hook) == IF hook \in hooks THEN Verdicts ELSE {"SUCCESS"}

\* The argument checks of ZydisFormatterFormatInstruction and
\* ZydisFormatterTokenizeInstruction, and pre_instruction.
FormatInstruction(operand_count) ==
  /\ phase = "Idle" /\ whole
  /\ IF operand_count < Len(insn.operands)
     THEN /\ phase' = "Rejected" /\ result' = "INVALID_ARGUMENT"
          /\ UNCHANGED todo
     ELSE \E v \in Verdict("PRE_INSTRUCTION") :
            IF v = "FAILED" THEN Return(v)
            ELSE phase' = "Head" /\ todo' = FormatHead(Context) /\ UNCHANGED result
  /\ UNCHANGED <<vars, client, request, at, state_mnemonic, buffer_state, history>>

\* ZydisFormatterFormatOperand and ZydisFormatterTokenizeOperand
FormatOneOperand(n) ==
  /\ phase = "Idle" /\ ~whole
  /\ at' = n
  /\ phase' = "PreOperand"
  /\ UNCHANGED <<vars, client, request, todo, state_mnemonic, buffer_state, result, history>>

-----------------------------------------------------------------------------
(* ZydisFormatterIntelFormatInstruction, ZydisFormatterATTFormatInstruction *)

Ready(here) == phase = here /\ todo = <<>>

First == IF f.style = "ATT" THEN Len(insn.operands) ELSE 1

After(n) == IF f.style = "ATT" THEN n - 1 ELSE n + 1

RememberMnemonic ==
  /\ Ready("Head")
  /\ Remember
  /\ state_mnemonic' = Snapshot
  /\ todo' = FormatDfv(Context)
  /\ at' = First
  /\ phase' = "Operands"
  /\ UNCHANGED <<client, request, buffer_state, result, history>>

\* The embedded mask is printed as a decorator.
PassMask ==
  /\ Ready("Operands") /\ at \in DOMAIN insn.operands
  /\ at = 2 /\ IsMask(insn.operands[at])
  /\ at' = After(at)
  /\ UNCHANGED <<vars, client, request, phase, todo, state_mnemonic, buffer_state, result, history>>

\* mutant: the delimiter depends on the index of the operand
BeginOperandByIndex ==
  /\ Ready("Operands") /\ at \in DOMAIN insn.operands
  /\ ~(at = 2 /\ IsMask(insn.operands[at]))
  /\ Remember
  /\ buffer_state' = Snapshot
  /\ todo' = Static(IF at # First THEN "DELIM_OPERAND" ELSE "DELIM_MNEMONIC")
  /\ phase' = "PreOperand"
  /\ bufferKept' = kept
  /\ UNCHANGED <<client, request, at, state_mnemonic, result, kept, skipped>>

\* Remembers the buffer, then prints the delimiter.
BeginOperand ==
  /\ Ready("Operands") /\ at \in DOMAIN insn.operands
  /\ ~(at = 2 /\ IsMask(insn.operands[at]))
  /\ Remember
  /\ buffer_state' = Snapshot
  /\ todo' = Static(IF Snapshot # state_mnemonic THEN "DELIM_OPERAND" ELSE "DELIM_MNEMONIC")
  /\ phase' = "PreOperand"
  /\ bufferKept' = kept
  /\ UNCHANGED <<client, request, at, state_mnemonic, result, kept, skipped>>

\* mutant: the buffer is not restored
SkipOperandUnrestored ==
  /\ Cardinality(skipped) < MaxSkips
  /\ at' = After(at)
  /\ phase' = "Operands"
  /\ kept' = bufferKept
  /\ skipped' = skipped \cup {at}
  /\ UNCHANGED <<vars, client, request, todo, state_mnemonic, buffer_state, result, bufferKept>>

\* ZYDIS_STATUS_SKIP_TOKEN: the buffer is restored, the loop continues.
SkipOperand ==
  /\ Cardinality(skipped) < MaxSkips
  /\ Restore(buffer_state)
  /\ at' = After(at)
  /\ phase' = "Operands"
  /\ kept' = bufferKept
  /\ skipped' = skipped \cup {at}
  /\ UNCHANGED <<client, request, todo, state_mnemonic, buffer_state, result, bufferKept>>

\* A hook of the operand returned v, or succeeded with next to do.
\* ZYDIS_STATUS_SKIP_TOKEN is no error where one operand is formatted.
Proceed(v, there, next) ==
  \/ v = "SKIP_TOKEN" /\ whole /\ SkipOperand
  \/ /\ v = "FAILED" /\ Return(v)
     /\ UNCHANGED <<vars, client, request, at, state_mnemonic, buffer_state, history>>
  \/ /\ v = "SUCCESS" \/ (v = "SKIP_TOKEN" /\ ~whole)
     /\ phase' = there /\ todo' = next
     /\ UNCHANGED <<vars, client, request, at, state_mnemonic, buffer_state, result, history>>

PreOperand ==
  /\ Ready("PreOperand")
  /\ \E v \in Verdict("PRE_OPERAND") : Proceed(v, "Format", <<>>)

\* A hook that succeeds has called the function it replaced.
FormatTheOperand ==
  /\ Ready("Format")
  /\ \E v \in Verdict("FORMAT_OPERAND") :
       Proceed(v, "PostOperand", Maybe(v = "SUCCESS", FormatOperand(Context)))

PostOperand ==
  /\ Ready("PostOperand")
  /\ \E v \in Verdict("POST_OPERAND") :
       IF whole THEN Proceed(v, "Decorators", FormatDecorators(Context, at))
       ELSE /\ Return(IF v = "FAILED" THEN v ELSE "SUCCESS")
            /\ UNCHANGED <<vars, client, request, at, state_mnemonic, buffer_state, history>>

EndOperand ==
  /\ Ready("Decorators")
  /\ at' = After(at)
  /\ phase' = "Operands"
  /\ UNCHANGED <<vars, client, request, todo, state_mnemonic, buffer_state, result, history>>

\* The loop is over; post_instruction.
EndInstruction ==
  /\ Ready("Operands") /\ at \notin DOMAIN insn.operands
  /\ \E v \in Verdict("POST_INSTRUCTION") : Return(IF v = "FAILED" THEN v ELSE "SUCCESS")
  /\ UNCHANGED <<vars, client, request, at, state_mnemonic, buffer_state, history>>

\* The entry point has returned.
Returned == phase \in {"Done", "Rejected"} /\ UNCHANGED formatterVars

-----------------------------------------------------------------------------

\* ZydisFormatterInit, and the arguments of the call to come.
FormatterInit ==
  /\ Init
  /\ \E style \in Styles : f = Preset(style)
  /\ hooks = {} /\ settings = 0
  /\ insn \in Instructions /\ known \in BOOLEAN
  /\ whole \in BOOLEAN /\ (insn.operands = <<>> => whole)
  /\ at = 0
  /\ phase = "Idle"
  /\ todo = <<>>
  /\ state_mnemonic = 0 /\ buffer_state = 0
  /\ result = "SUCCESS"
  /\ kept = <<>> /\ bufferKept = <<>>
  /\ skipped = {}

FormatterNext ==
  \/ \E setting \in Settings : SetProperty(setting[1], setting[2])
  \/ \E hook \in Hookable : SetHook(hook)
  \/ \E count \in {Len(insn.operands) - 1, Len(insn.operands)} : FormatInstruction(count)
  \/ \E n \in DOMAIN insn.operands : FormatOneOperand(n)
  \/ RememberMnemonic \/ PassMask \/ BeginOperand
  \/ PreOperand \/ FormatTheOperand \/ PostOperand
  \/ EndOperand \/ EndInstruction
  \/ Step
  \/ Returned

FormatterSpec == FormatterInit /\ [][FormatterNext]_formatterVars

-----------------------------------------------------------------------------
(* What is meant to be printed *)

Spell(calls) == InTurn([n \in DOMAIN calls |-> Printed(calls[n])], Len(calls))

\* Prefixes and mnemonic, and the flags that come before all operands.
Mnemonic == Spell(FormatHead(ContextOf(<<>>)))
Flags == Spell(FormatDfv(ContextOf(<<>>)))

\* The operand that is the n-th in the order of the style.
Nth(n) == IF f.style = "ATT" THEN Len(insn.operands) + 1 - n ELSE n

\* It is printed: the mask and those skipped are not.
Wanted(n) == Nth(n) \notin skipped /\ ~(Nth(n) = 2 /\ IsMask(insn.operands[2]))

\* An operand with all that belongs to it.
Phrase(k) ==
  LET c == ContextOf(insn.operands[k])
  IN  Spell(FormatOperand(c)) \o Maybe(whole, Spell(FormatDecorators(c, k)))

Delimiter(n) ==
  LET first == Flags = <<>> /\ \A i \in 1 .. n - 1 : ~Wanted(i)
  IN  Spell(Static(IF first THEN "DELIM_MNEMONIC" ELSE "DELIM_OPERAND"))

Clauses ==
  [n \in DOMAIN insn.operands |-> Maybe(Wanted(n), Delimiter(n) \o Phrase(Nth(n)))]

\* Prefixes and mnemonic, then the operands, separated from the mnemonic by
\* one delimiter and from each other by another.
Sentence ==
  IF whole THEN Mnemonic \o Flags \o InTurn(Clauses, Len(insn.operands)) ELSE Phrase(at)

KeptBytes == [k \in DOMAIN kept |-> Code[kept[k]]]
Succeeded == phase = "Done" /\ result = "SUCCESS"

\* How often a fixed string was printed, as its glyphs.
Times(name) ==
  LET glyphs == {k \in DOMAIN kept : kept[k] = name}
  IN  Cardinality(glyphs) \div Len(StaticTypes(name))

\* The token list as ZydisFormatterTokenNext walks it from the token that the
\* entry point returns.
TextAt(a) ==
  LET end == CHOOSE e \in a .. Length : mem[e] = Nul /\ \A i \in a .. e - 1 : mem[i] # Nul
  IN  [k \in 1 .. end - a |-> mem[a + k - 1]]
NextText(a) == a + NextAt(a) + Header
Spelled ==
  LET From[a \in Header .. Length - 1] ==
        IF NextAt(a) = 0 \/ NextText(a) >= Length THEN TextAt(a)
        ELSE TextAt(a) \o From[NextText(a)]
  IN  From[IF NextAt(Header) # 0 THEN NextText(Header) ELSE Header]

-----------------------------------------------------------------------------

(* The string in the caller's memory is what was printed and not taken back *)
(* at every moment, after a skipped operand and after an error too          *)
(* (FormatterIntel.c:104, FormatterATT.c:108).                              *)
StringIsKept ==
  ~isTokenList => [k \in 1 .. size - 1 |-> mem[k - 1]] = KeptBytes

(* The token list, read with ZydisFormatterTokenNext, spells the string that *)
(* a plain pass prints (Formatter.c:561, FormatterBase.h:255).               *)
TokensAreKept ==
  isTokenList /\ Succeeded /\ skipped = {} => Spelled = KeptBytes

(* Skipping an operand in a token list leaves the tokens of all others:     *)
(* "Returning ZYDIS_STATUS_SKIP_TOKEN ... will instruct the formatter to     *)
(* omit the whole operand" (Formatter.h:729).                               *)
OmitsOnlyTheOperand ==
  isTokenList /\ Succeeded /\ skipped # {} => Spelled = KeptBytes

\* a successful call has printed the whole sentence
WholeSentence ==
  Succeeded /\ (whole \/ "FORMAT_OPERAND" \notin hooks) => kept = Sentence

\* whatever happens - no room, a hook that fails, a check that fails - what has
\* been printed is its beginning: nothing is printed behind something that is
\* missing (ZYAN_CHECK throughout)
StopsAtTheError ==
  phase = "Done" /\ (whole \/ "FORMAT_OPERAND" \notin hooks) =>
    Len(kept) <= Len(Sentence) /\ kept = SubSeq(Sentence, 1, Len(kept))

(* A call prints the sentence: every operand that was not skipped once, in  *)
(* the order of the style, with its decorators, the first behind the        *)
(* mnemonic's delimiter and the others behind the operand's; and a call     *)
(* that ends in an error has printed a beginning of it                      *)
(* (FormatterIntel.c:90, FormatterATT.c:94).                                *)
PrintsTheSentence == WholeSentence /\ StopsAtTheError

\* How often a prefix is printed: once if it has an effect, however often it is
\* there; with detailed prefixes, every LOCK byte.
Expected(name) ==
  IF f.detailed_prefixes /\ name = "LOCK"
  THEN Cardinality({k \in DOMAIN insn.prefixes : insn.prefixes[k].value = "LOCK"})
  ELSE IF name \in insn.attributes THEN 1 ELSE 0

PrefixesPrinted(names) == Succeeded /\ whole => \A name \in names : Times(name) = Expected(name)

\* A REP prefix that the opcode map asks for is printed by its byte, if all
\* bytes are.
PrefixesShown ==
  PrefixesPrinted(IF f.detailed_prefixes THEN {"LOCK", "XACQUIRE", "XRELEASE", "BND"}
                                         ELSE PrefixStrings)

Decorators == [
  DECO_BEGIN      |-> insn.mask # "K0",
  DECO_ZERO       |-> insn.zeroing,
  DECO_BC         |-> insn.broadcast = "DYNAMIC"
                        /\ ~(f.style = "MASM" /\ insn.encoding = "EVEX"),
  DECO_RC         |-> insn.rounding /\ ~insn.sae,
  DECO_RC_SAE     |-> insn.rounding /\ insn.sae,
  DECO_SAE        |-> insn.sae /\ ~insn.rounding,
  DECO_SWIZZLE    |-> insn.swizzle,
  DECO_CONVERSION |-> insn.conversion,
  DECO_EH         |-> insn.evictionHint,
  DECO_NF         |-> insn.nf /\ ~f.deco_apx_nf_use_suffix,
  DECO_DFV        |-> insn.scc /\ ~f.deco_apx_dfv_use_immediate]

DecoratedOnce ==
  Succeeded /\ whole /\ skipped = {} =>
    \A name \in DecoratorStrings : Times(name) = (IF Decorators[name] THEN 1 ELSE 0)

(* Whatever modifies an instruction is shown, once, and nothing else: the   *)
(* prefixes that have an effect, in both ways of printing prefixes, and the *)
(* decorators, which are found while walking over the operands, each at the *)
(* place its condition names (FormatterBase.c:434, FormatterIntel.c:161,    *)
(* FormatterATT.c:165).                                                     *)
ModifiersShown == PrefixesShown /\ DecoratedOnce

(* "Controls the printing of instruction prefixes ... ZYAN_TRUE to print    *)
(* all instruction-prefixes (even ignored or duplicate ones)"               *)
(* (Formatter.h:158): with the raw bytes, NOTRACK is among them.            *)
DetailedShowsAll == PrefixesPrinted({"LOCK", "XACQUIRE", "XRELEASE", "BND", "NOTRACK"})

(* What a setting or an address needs is there whenever the formatter asks  *)
(* for it: no decoded instruction is refused (the checks behind             *)
(* FormatterBase.c:230 and FormatterIntel.c:463, :510).                     *)
NeverRefused == phase = "Done" => result # "INVALID_ARGUMENT"

(* "Pass ... ZYAN_FALSE to only print it if needed" (Formatter.h:111): an   *)
(* instruction can be formatted without forced sizes.                       *)
SizeIsOptional == ~f.force_memory_size => NeverRefused

=============================================================================
