# Zydis in TLA+

Zydis is an x86/x86-64 disassembler and encoder library. It is sequential code: no threads,
no heap, no files, no callbacks except the formatter's hooks. What makes it hard is not
concurrency but long sequences of small legal steps over shared records: prefix bytes in any
order, a table walk that backtracks, byte arrays with several limits at once, buffers that are
cut back to a remembered place. These specifications model those parts; TLC checks them on
small instances and TLAPS proves the invariants that matter for every instance.

Line numbers refer to the repository; `PROJECT.json` (`map`) ties every definition to its lines.

## 1. The system

| Component | State it keeps | Operations | What makes it correct |
|---|---|---|---|
| Decoder: prefixes (`src/Decoder.c` 3168-3288) | `ZydisDecoderState.prefixes`, `raw.prefixes[15]`, the read position | `ZydisCollectOptionalPrefixes`, `ZydisInputPeek/Skip` | the prefix closest to the opcode wins its group; REX counts only directly before the opcode; indices stay below 15 |
| Decoder: tree walk (5055-5338, handlers 3637-4720) | current node, the pending fallback `temp`, `encoding`, `opcode_map`, `raw.*` | one handler per node type, the definition case, `ZydisSetAttributes` | consumed prefixes are accounted for, the parts tile the instruction, marks and attributes agree, the walk ends |
| Decoder: vector attributes (2372-3157, 4207-4440, 4791-4890) | `vector_unified`, `cd8_scale`, `evex`, `avx`, `apx` | `ZydisDecodeEVEX/MVEX`, the nodes that test vector bits, `ZydisSetAVXInformation` | the tables for scale, broadcast and operand size agree with each other and with the encoder's |
| Decoder: operands (1664-2055, 5490) | `ZydisDecoderContext`, the operand array | `ZydisDecodeOperands`, `ZydisPopulateRegisterIds` | register ids fit the encoding; the context belongs to the instruction |
| Decoder set-up (5346-5420) | `ZydisDecoder` | `ZydisDecoderInit`, `ZydisDecoderEnableMode` | only legal mode/stack combinations |
| Formatter buffer (`src/FormatterBuffer.c`) | the caller's bytes, the current string, `capacity` | `Append`, `AppendPredefined`, text appends, `Remember`, `Restore` | never outside the buffer; the linked list read back is the list of tokens written |
| Formatter driver and styles (`Formatter.c`, `FormatterIntel.c`, `FormatterATT.c`, `FormatterBase.c`) | the formatter's hooks and properties, a `ZydisFormatterContext` | `FormatInstruction`, `TokenizeInstruction`, `FormatOperand`, `TokenizeOperand`, `SetHook`, `SetProperty` | every accepted operand is printed once, in order; a skipped one leaves no trace |
| String primitives (`String.c`, `Internal/String.h`) | a `ZyanString` | append, decimal and hexadecimal conversion | inside the capacity, NUL-terminated |
| Encoder (`Encoder.c`) | `ZydisEncoderInstructionMatch`, `ZydisEncoderBuffer` | match, build, emit, absolute fix-up, NOP fill | what it emits decodes to what was asked for; size guesses agree with the size emitted |
| Addresses (`Utils.c`) | none | `ZydisCalcAbsoluteAddress`, `...Ex` | an address wraps at the width of the instruction; the encoder undoes the same wrap |
| Segments (`Segment.c`) | none | `ZydisGetInstructionSegments` | the segments tile the instruction, prefixes and REX are told apart as the attributes say |
| Registers (`Register.c`) | none | class, number, width, largest enclosing register | inverse lookups agree, in both directions of a round trip |
| Meta information, mnemonics, version | none | table lookups | - |
| Disassembler (`Disassembler.c`) | none | decode, then format | composition |
| Generated tables (`src/Generated`) | constant data | - | contracts with the walk (section 6) |
| zycore (a submodule) | - | `ZyanString`, `ZyanStatus` | external |

How they interact: a client calls the decoder, which fills `ZydisDecodedInstruction` and a
`ZydisDecoderContext`; the operand decoder reads both. The formatter reads the instruction and
operands and prints into the formatter buffer, calling hooks that may print, remember and
restore. The encoder reads a request built from scratch or from a decoded instruction.
All calls are synchronous; the only shared state between calls is what the client passes on.

Hard behaviours, each listed with its line under `hazards` in `PROJECT.json`: order and
repetition of prefixes, one byte with several meanings (3E; C4, C5, 62, 8F, D5), the fallback
of the tree walk (partial failure and undo), two limits on each read, lengths stored in a byte,
buffers restored to a snapshot, marks and attributes derived in different phases.

## 2. Modules

| Module | Models | Checked by | Proved in |
|---|---|---|---|
| `FormatterBuffer` | `FormatterBuffer.c`, the initialisers of `Formatter.c`, `ZydisFormatterBufferAppendPredefined`, `ZydisStringAppend` | `MCFormatterBuffer` | `FormatterBufferProofs` |
| `TokenStream` | the abstract promise: a list of tokens, growing at its end, cut back to a mark | - | - |
| `FormatterBufferRefinement` | the mapping from the bytes in memory to `TokenStream` | `MCFormatterBuffer` | `FormatterStreamProofs` |
| `DecoderPrefixes` | `ZydisCollectOptionalPrefixes` and its input functions | `MCDecoderPrefixes` | `DecoderPrefixesProofs` |
| `Decoder` (extends `DecoderPrefixes`) | one whole call of `ZydisDecoderDecodeInstruction` | `MCDecoder` | `DecoderProofs`, `DecoderMeaningProofs` |
| `FormatterFunctions` | what each function of `FormatterBase.c`, `FormatterIntel.c` and `FormatterATT.c` prints, as a sequence of calls on the buffer | through `Formatter` | - |
| `Formatter` (extends `FormatterBuffer`, `FormatterFunctions`) | the entry points of `Formatter.c` and both loops over the operands | `MCFormatter` | `FormatterProofs` |
| `InstructionSegments` (extends `Decoder`) | `ZydisGetInstructionSegments` on whatever a call has decoded | `MCDecoder` | `InstructionSegmentsProofs` |
| `Registers` | `Register.c`, and machine integers | through `EncoderCalls` | - |
| `EncoderMatching` | `ZydisFindMatchingDefinition` and everything it calls: operands, sizes, hints, swapping | through `EncoderCalls` | - |
| `EncoderEmission` | `ZydisBuildInstruction`, `ZydisEmitInstruction`, `ZydisEncoderEncodeInstructionInternal` | through `EncoderCalls` | - |
| `OperandDecoder` | the nodes that choose a definition, `ZydisPopulateRegisterIds`, the effective widths, `ZydisDecodeOperands`, `ZydisEncoderDecodedInstructionToEncoderRequest` | through `EncoderCalls` | - |
| `AbsoluteAddresses` | `ZydisCalcAbsoluteAddress`, the rewriting and patching of `ZydisEncoderEncodeInstructionAbsolute` | through `EncoderCalls` | - |
| `EncoderCalls` (extends the four above) | calls of the encoder and what a client does with the result | `MCEncoderCalls` | `EncoderCallsProofs` |
| `DefinitionRows` | table rows of 29 mnemonics | `MCEncoderCalls` | - |
| `VectorFeatures` | the EVEX and MVEX features through decoder, `ZydisEncoderDecodedInstructionToEncoderRequest` and encoder | `MCVectorFeatures` | - |

`FormatterBuffer`. Addresses are offsets into the caller's memory. `mem` is a function whose
domain grows when a step writes outside the buffer, so that `NoWriteOutside` can see it. A byte
has the values `0 .. U8Max`; the code has 255, the run 8, so that the two limits of a token
(bytes left, length in a byte) bite in a small buffer. Each operation is split into the action
that succeeds and the one that reports an insufficient buffer. `Restore` takes any snapshot the
client still holds that is not younger than the current place (`saved`): the header says that a
state becomes invalid when the buffer is overwritten.

`DecoderPrefixes`. One action per case of the `switch` in the loop. The byte at the read position
is chosen by the action, which keeps the input nondeterministic without an input string; the
byte that ends the loop stays in `ahead`, since it is peeked and not skipped. `rex = 0` is the
C code's own encoding of "no REX". The variable `prefixCount` doubles as the loop's `offset`.

`Decoder`. `node` is the kind of tree node the walk stands on; every handler is an action, and
where it goes next is any kind of node the generated tables put below (`Below`). A handler
whose index merely selects a branch and changes nothing is left out. Register numbers,
displacement and immediate values, and the payload bits of VEX, XOP, EVEX and MVEX beyond map
and W are left out; what depends on them (`BAD_REGISTER`, `INVALID_MASK`, malformed prefixes)
may happen or not. A definition is a record with the fields the code below the definition
case reads; the model's `def` is a set of at most one. After a failed call only the status is
compared: Zydis does not promise anything about the rest.

`FormatterFunctions` and `Formatter`. A function of the formatter is the sequence of calls it
makes: open a token, append a fixed string, append text, or fail a check. `Formatter` runs such a
sequence one call per step on the buffer of `FormatterBuffer`, under `ZYAN_CHECK`: the first call
that fails ends everything. Between the sequences lie the decisions of the loops: remember, choose
the delimiter, ask the hooks, restore, print the decorators, go on in the direction of the style.
The three styles share one loop because the two loops of the code differ only in direction and in
the functions they call. A fixed string is a list of token types of one glyph each; a name, a
number or an address is one glyph. Whether an operand has an address and which typecast it needs
are decided as in the code. The client may set the properties that decide what is printed and hooks
around the instruction and the operands before the call; a hook succeeds, skips or fails, and is
assumed to call the function it replaced when it succeeds. Hooks on the elemental print functions,
number formats, letter case and padding are left out. `kept` is a history variable: the glyphs
printed and not taken back. `Sentence` is what a reader expects, stated without the loop: the
operands by their position in the order of the style, each in the context the functions see it in.

`InstructionSegments`. An operator over the final state of `Decoder`. What the C function reads
from `instruction->raw` is what the model recorded while it walked; the sizes it takes for granted
(2 for REX2, 4 for EVEX, 1 to 3 for the opcode of a map) are its own and not the walk's.

`EncoderCalls` and the modules below it. One behaviour is a sequence of rounds: a request is
checked (`Check`, `Absolute`), compared with the definitions of its mnemonic (`Compare`, one step per
definition; `match` survives from one to the next as in the code), built and emitted (`Emit`,
`Patch`), decoded, and then the client goes on as the library's own clients do: it makes
a request of the decoded instruction and encodes it again, repeats the request the call has written back,
or calculates the absolute addresses and encodes them with the absolute function. A
match is a record threaded through the comparisons of the operands, as the C code threads
`ZydisEncoderInstructionMatch`; "ok" is the function's result. The emitted bytes are a record of
their fields in the order they are emitted; integers of 8 and 16 bits have their width, those
of 32 and 64 bits are shortened to 20 and 28 bits, which TLC can hold (`Bits`), and every conversion is
modulo. A register is its class and its number. Rows of the tables are records of what the encoder's
and the decoder's tables say of them, the nodes on the way to the definition included; the decoder
chooses among all rows of the mnemonic, so that an encoding that decodes to another definition is seen.
The payload of EVEX and MVEX is that of `VectorFeatures` and not repeated; legacy, 3DNow!, XOP and VEX definitions go
through the whole chain (the opcode of 3DNow! stands behind the immediate, where `Patched` must count it).
All first calls of the run were also made with the compiled library: status, length, prefixes, operands,
segments, widths, branch type, the use of extended registers and the request written back agree.

`VectorFeatures`. One behaviour is one chain of calls: decode a payload, make a request of it,
encode it, decode the result; or encode a request and decode what was emitted. An action is a
phase of a call (`Prefix`, `Walk`, `Check`, `Info` of the decoder; `ToRequest`; `Viable`,
`Find`, `Emit` of the encoder). A payload is the record of the bit fields after the byte 62; a
definition is a record of what the decoder's definition and the encoder's row say of it,
including the bits the tree tests on the way to it (`ANY` when no node does); `family` groups
the definitions of a few mnemonics that share opcodes. The two halves are translated from
different tables of the code, the scales as factors in `Decoder.c` and as logarithms in
`Encoder.c`, which is what makes comparing them worthwhile. Register numbers other than
the mask register, immediates, legacy prefixes, 16-bit addressing, other encodings of the same
mnemonic and the operand sizes of APX instructions (one fixed size) are left out; operands
are a kind (`xmm`, `zmm`, `store`...), equal where the operand types are.

## 3. Runs

| Run | Instance | Asks |
|---|---|---|
| `FormatterBuffer` | 14 bytes, byte values 0..8, two token types, one one-token and one two-token static list, texts of up to 2 characters | memory safety, accounting, and refinement of `TokenStream` |
| `Prefixes` | all prefix bytes and two others, up to 5 bytes, buffers of 2 and 6 bytes, 64-bit and 32-bit mode | which prefix wins |
| `DecoderPrefixUse` | instructions of up to 4 bytes over F0 F2 F3 2E 3E 64 66 48, 90, C5, D5; two modes; with and without APX, MPX, CET; every combination of accepted prefixes the definitions have, up to SEGMENT | what becomes of the prefixes, the segments that name them included; with fairness: the call returns |
| `DecoderLayout` | the real limit of 15 bytes, buffers of 5 and 16 bytes, every row of instruction parts that differs in kind, 16- and 64-bit mode, APX or KNC | where the parts lie, and that the segments cover them |
| `DecoderOverwritten` | up to 6 bytes over F3 66 0F 90 C5 62 D5, 64-bit mode | violated: an overwritten 66 is IGNORED |
| `FormatterSentence` | 35 instructions, three styles, text and tokens, address known or not, up to two properties; 200 bytes | everything once, at its place |
| `FormatterShort` | the same in 40 bytes, up to two hooks, up to two skipped operands | errors and skipped operands |
| `FormatterSkip` | 200 bytes, one hook, one skipped operand | violated: the token list holds all operands but the skipped one |
| `FormatterForceSize` | FORCE_SIZE may be cleared | violated: a size is only printed if needed |
| `FormatterDetailed` | DETAILED_PREFIXES may be set | violated: all effective prefixes are shown |
| `VectorFeatures` | payloads: the rows of some 50 mnemonics, one for each combination of tuple type, element size, functionality, mask policy and override, static broadcast and APX node; every value of z, LL, b, W, SSS, E; mask k0 or k5; 10 displacements. Requests: 16 of these families; all EVEX features together, MVEX features in pairs; six sizes, four displacements; allowed encodings none, one or both. 64-bit, 32-bit and real mode | whatever decodes is re-encoded to the same; what is accepted is what was asked for |
| `EncoderCalls` | 19238 first calls for 29 mnemonics, one for every way in which an operand is encoded; every addressing form, displacements and immediates around the limits of each width, size, branch and hint fields in combination, buffers of 0 to 64 bytes, runtime addresses near both ends, RIP-relative displacements before an immediate, before an IS4 register and before the opcode of 3DNow!; up to three rounds | what is encoded decodes to what was asked for, encoding it again changes nothing, and absolute addresses arrive |

Why the bounds are enough. `VectorFeatures`: every table is indexed by fields of which all values
occur with each row that reads them; the displacements are the ends of a signed byte, the ends of a
byte times 64, a multiple of every scale but none of the byte range, and one that is no multiple.
`EncoderCalls`: a number is cut at 8, 16, 32 and 64 bits and
compared with the limits of a signed and of an unsigned field; the values are those limits and their
neighbours. Register numbers are the first of each group the code tells apart (4 and 5 mod 8, which
need SIB or a displacement, 8, 16, SPL, AH). Two rounds show that the second encoding is that of the first, the
third that it stays so (`MaxRounds`); a shorter or a different encoding in the second round is possible and
happens. `Formatter`: an instruction is a row of operands with the fields the functions test, and the 35
rows hold every kind of operand, address and decorator and their combinations at the first, a
middle and the last place; each is the shape of an instruction the decoder produces, and the types
of the tokens printed were compared with the library's own output for all of them, in every style.
In 200 bytes every one of them fits, with 40 bytes most calls end early, at every call of the
sequence. Two hooks and two skips cover a skip followed by a skip, by an error and by success; two
properties cover pairs that meet in one function. `FormatterBuffer`: 14 bytes hold four headers
with text, so that a snapshot can be taken, three tokens be added and the snapshot be restored and
the space used again; with `U8Max = 8` the limit of a length byte is met before the buffer is full,
and the buffer is also filled to its last byte. `Prefixes`: a property here relates at most three
prefixes (two of a group and one between them), five positions leave room for all orders and for
one that follows, and the limit of `MaxLength` is met. `DecoderPrefixUse` needs two prefixes of one
group, one of another and an opcode. `DecoderLayout` has no prefixes but 66: what a prefix does to
the layout is its length; with MaxLength 15 and the parts up to 8 bytes both limits of every read
are met. Operand-size attributes depend on the 66 alone. Deadlock is checked in the runs of
`Formatter`, `VectorFeatures` and `EncoderCalls`, where a finished call is a step of its own;
the other specifications simply stop when the call has returned.

Fairness. Only `DecoderPrefixUse` uses it: weak fairness of `Next`, that is, the thread that
made the call keeps running. The code waits for nothing, so there is nothing else to assume.
The property is a property of the fallback: without `temp = ZYAN_NULL` the walk could go round
between the MANDATORY_PREFIX node's fallback and an empty entry for ever.

### Properties

Formatter buffer: `NoWriteOutside` (no byte outside the buffer is ever written), `Accounting`
(`capacity` is what lies between the current text and the end), `LengthFitsByte` (a stored
length is never truncated), `NulTerminated`, `ImplementsStream` (the list read back by
`ZydisFormatterTokenNext` is the abstract list after every call).

Prefixes: `LastOfGroupWins`, `MandatoryChoice` (last F2/F3, else first 66), `SegmentChoice`
(in 64-bit mode only FS and GS), `RexIsLast`, `NotrackChoice` (64-bit: the last 3E not preceded
or followed by FS/GS; elsewhere only if it is the last of group 2), `CollectedMarks`.

Decoder: `ConsumptionAccounted` (between collection and attributes at most the candidate is
consumed, and HAS_OPERANDSIZE is missing exactly while a 66 is), `FallbackRestores`,
`NoPrefixDropped`, `MarksMatchAttributes`, `OneMeaningPerPrefix`, `PartsTileInstruction`,
`FullWindowSuffices` (a caller with 15 bytes never gets NO_MORE_DATA), `NeverUnreachable` (no
`ZYAN_UNREACHABLE` of a switch handler is met), `Terminates`.

Segments: `SegmentsTileInstruction` (in order, no gap, no overlap, up to the length, never more than
the array holds), `SegmentsNamePrefixes` (a REX segment holds the effective REX, the prefix
segment everything else).

Formatter: `PrintsTheSentence` (a call that succeeds has printed every operand not skipped, in
the order of the style, each with its decorators and the right delimiter; a call that fails has printed
a beginning of that), `ModifiersShown` (each prefix that has an effect and each decorator is there exactly once, wherever the loop
finds it; with detailed prefixes every LOCK byte is, so `f0 f0 01 08` prints `lock lock add`),
`TokensAreKept` (the token list, walked with `ZydisFormatterTokenNext`, spells the text of a plain
pass), `StringIsKept` (the string in memory is what was printed and not taken back, at every step),
`NeverRefused` (no decoded instruction fails a check with the presets or any other setting but
FORCE_SIZE).

Vector features: `RoundTrip` (what the decoder accepts, the encoder accepts and gives back, and a
displacement compressed once is compressed again), `ScaleIsMemorySize`, `RequestHonoured` (what the
encoder accepts decodes, to the features, mask, size and displacement of the request).

Encoder: `Delivered` (what the encoder accepts decodes to the operands, prefixes and branch of the request,
to the same addresses modulo the address size, to the sizes of its memory operands except where section 5
says otherwise, and to the operand or address size of a hint the definition takes),
`CandidatesIndependent` (what a refused definition left in the match does not change what a later one makes
of the request), `ReEncodes` (a decoded instruction is accepted again, is not longer, and the third encoding
equals the second), `EgprReported` (the instruction is said to use an extended register exactly if an
operand has one), `TargetReached` (an absolute request decodes to the absolute address it had),
`AbsoluteRoundTrip` (the request an absolute call has rewritten gives the same bytes to a plain call, and
addresses calculated from the decoded instruction and encoded with the absolute function do too).

## 4. Proofs

A theorem holds for every value of the constants that satisfies the named assumptions; the run that
checks the same property shows it on one instance.

| Theorem | Property | Assumed of the constants |
|---|---|---|
| `TypeCorrect`, `WritesInside`, `BookKeeping`, `LengthFits`, `Terminated` | `TypeOK`, `NoWriteOutside`, `Accounting`, `LengthFitsByte`, `NulTerminated` of `FormatterBuffer` | a buffer longer than a header (`LengthAssumption`), a byte larger than a header (`ByteAssumption`), well-formed static lists (`PredefinedAssumption`) |
| `ImplementsTheStream` | `ImplementsStream` | the same, and that the tokens of a static list are linked (`LinkAssumption`) |
| `FormatterUsesTheBuffer`, `StringTellsAll` | the buffer's properties under `FormatterSpec`, `StringIsKept` | the first two |
| `PrintsTheSentenceAlways`, `TokensAreKeptAlways` | `PrintsTheSentence`, `TokensAreKept` of `Formatter` | the first two; every glyph has a byte of its own and the fixed strings are glyphs (`GlyphAssumption`); what the decoder says of operands (`InstructionAssumption`) |
| `RefusesOnlyUnsizedBroadcasts`, `NeverRefusedWithSizes` | `NeverRefused`, and with it `SizeIsOptional` except for the broadcasts of section 5 | the same; for the second, that no setting clears FORCE_SIZE (`SizesKept`) |
| `ModifiersShownAlways` | `ModifiersShown` | the same as `PrintsTheSentenceAlways`, and what the decoder says of prefixes and vector features (`ModifierAssumption`) |
| `PrefixTypeCorrect`, `LastWins`, `MandatoryChosen`, `SegmentChosen`, `RexAdjacent`, `NotrackChosen`, `MarksCollected` | the properties of `DecoderPrefixes` | a length limit, bytes, mode and buffer sizes |
| `NoUnreachable`, `FullWindow`, `PartsTile`, `DecoderTypes` | `NeverUnreachable`, `FullWindowSuffices`, `PartsTileInstruction`, `TypeOK` of `Decoder` | that, and what a definition's record says (`DefinitionAssumption`, `HintAssumption`) |
| `ConsumptionIsAccounted`, `FallbackRestoresAll`, `NothingDropped`, `MarksMatch`, `OneMeaning` | `ConsumptionAccounted`, `FallbackRestores`, `NoPrefixDropped`, `MarksMatchAttributes`, `OneMeaningPerPrefix` | the same |
| `SegmentsCover`, `SegmentsAreNamed` | `SegmentsTileInstruction`, `SegmentsNamePrefixes` | the same |
| `MatchesAreIndependent` | `CandidatesIndependent` of `EncoderCalls` | rows are lists of definitions with an operand count (`RowsAssumption`) |

### The formatter buffer

None of the five properties is inductive alone. The invariant `IInv` adds to the typing and the
accounting that every held snapshot lies between the first text and the current one and leaves room
for its own terminator (`SavedInRange`), and that a token list whose first token is still the
placeholder holds no text (`Placeholder`): the code's initial capacity is not capped at 255, and
only because `ZydisFormatterBufferGetString` refuses the placeholder does the first length fit a
byte. `Sound` is the part of it that does not look at the bytes written. One lemma per operation
shows that both are preserved.

The first part of `FormatterProofs` rests on `Sound` alone: what the functions print, which hooks run and where a call
stops does not matter, and a fixed string is a well-formed list whatever its tokens (`BlockFits`). Hence
`FormatterSound`, and `FormatterUsesTheBuffer` without a second proof of the buffer. For
`StringTellsAll` two things are added: the bytes in memory are the glyphs of `kept` (`Written`), and
while an operand is formatted the remembered place is the end of what was printed before it, which is
still the beginning of what has been printed since (`Begun`). Without `Begun`, a skip after a successful
delimiter could cut the string anywhere.

Its second part is about what is printed, and so about the functions. Each of them is shown to return a
sequence of calls (`Call`), for every operand `OperandFits` allows and every setting; under `Sized` none of
these calls is a failing check (`PlainCall`). `PrintsTheSentence` speaks of the end of a call only. The
invariant `Telling` says of every phase what will have been printed when the calls in `todo` are made:
`kept` followed by what they spell is `Goal`, the mnemonic in the head, the first clauses of the
sentence between two operands (`Front`), these with the delimiter and the operand inside of one. Three
things keep this inductive. A skip takes back what the operand has printed, so that the place it
returns to must be the end of the clauses before (`bufferKept`). The delimiter is chosen by comparing
the length of the string with the one remembered behind the mnemonic: `Grown` says that this length has
changed exactly if something was printed since (the flags, or an operand not skipped), `Separated`
that the calls waiting in front of an operand begin with the delimiter that follows from it. And an
operand already passed by cannot be skipped any more (`Passed`), so the clauses printed stay those
of the sentence while `skipped` grows. A call that fails stops where `kept` is a `Beginning` of what
it was to become; that `Goal` is itself a beginning of the sentence makes that `StopsAtTheError`.

`RefusesOnlyUnsizedBroadcasts`: the two checks left (a size the MASM style must know, an address it
must have) are not met by a call whose broadcasts are sized, `Willing`. With FORCE_SIZE cleared
this is the finding of section 5, which the theorem therefore delimits: nothing else is refused. No other
setting touches `SizeGiven`, which is `NeverRefusedWithSizes`.

The third part is the token list. `Listed` above places the tokens, but the walk of `TokensAreKept`
also reads their texts. `Thread` is a list of places, each linked to the next, with the part of `kept` each
token says (`Tells`); `Goes` adds that the last token is the open one, whose text ends at the current
place. A call on the buffer lets it say more (text), adds a token (`ThreadJoins`) or the tokens of a
fixed string (`BlockThread`); closing the list changes no text. `Told` claims this only while nothing has
been skipped: `Restore` leaves the link behind the last place, the finding of `FormatterSkip`.
`SpelledWalks` shows that the recursive walk exists, `ThreadReads` by `SetInduction` over the places,
from the last to the first, that it returns what the thread says.

The last part counts. `PrintsTheSentence` has reduced `ModifiersShown` to the sentence: `Often` is how often a glyph
occurs in it, and adds up over what is joined (`OftenConcat`, `OftenInTurn`). Operands, mnemonic and delimiters print
no prefix and no decorator (`Ordinary`). `Decorating(s, S)` says that calls print no prefix and exactly the decorators of
S; the functions build such sets up (`DecoratorsSay`), and `OneBears` finds the single operand, not the mask, at which the
condition of a decorator meets its place in the loop. The prefixes come from the attributes (`SaysNamedPrefixes`) or from the bytes
(`SaysRawPrefixes`), and that both say the same needs what the decoder guarantees. That is `ModifierAssumption`:
at most one of REP, REPE and REPNE, one effective F2 or F3 behind XACQUIRE, BND and XRELEASE (`PrefixesFit`); a mask
is the second operand, a broadcast, conversion or eviction hint has one memory operand, rounding, SAE and swizzle
one operand behind which they are printed (`FeaturesFit`). Nothing is assumed of LOCK, which is why only its bytes are counted
with detailed prefixes. Instructions decoded at random with the library satisfy all of it.

`FormatterStreamProofs` proves the refinement `Spec => Stream!TSSpec`. The mapping walks the links as a consumer
does, by a recursive function. The proof replaces the walk by the sequence of the places where
the texts start (`Chain`): each lies behind the one before it by a header and the length stored there, the
first is the first header, the last is the current text. `ListOfTokens` says that the function returns
exactly the tokens at these places, `Listed` that memory always holds such a chain and that every held
snapshot is one of its places; that is what makes `Restore` cut the abstract list at a mark. A step
of the buffer then keeps the chain (text, `Remember`), prolongs it by one place
(`Append`), by the shifted chain of a static list (`AppendPredefined`; what `LinkAssumption` is for) or cuts
it (`Restore`, which leaves a stale link behind the last place that the mapping must not follow). The lemma for
each operation concludes with the action of `TokenStream`; `StreamStep` collects them.

Induction is needed for the walk. The library's induction theorems take an operator as a parameter,
which the provers cannot instantiate; `SetInduction` states the principle for a set of numbers and
is proved from the well-foundedness of `<`. A recursive function exists only if its body
is defined on the whole domain; that is why `ListFrom` ends the walk at a link that misses the last token
(no such link exists, as `Listed` shows).

### The decoder

`DecoderPrefixesProofs`: the invariant says in addition that the recorded offsets lie below
`prefixCount`, that the recorded bytes are what the flags say, and that nothing of the same group
follows them; each action either records a byte of the group (then it is the last) or of another (then
the old one still is). `NotrackChosen` and `MarksCollected` speak of what the end of the collection makes of
these records, so they need a second invariant, `EndInv`: while the loop runs, no mark is
set and the attributes are those of the records (`AttributesAgree`), and the no-track candidate is the
last 3E since the last FS or GS (`NotrackSoFar`).

`DecoderProofs`: `Control` says which encodings, maps and opcodes the walk can have
where it stands: a switch is reached by a legacy encoding or by its own prefix, a vector node
only by a modern encoding, a fallback is pending only below a legacy table. `Sized` types the
numbers. `Layout` says, at every node, how the bytes consumed so far divide: `OpcodeRead` is the
number of opcode bytes at that node (C4, C5, 62, 8F and D5 count as one until their payload turns
them into the encoding prefix), `Unread` the parts not yet read. It needs `Control`: without the
maps an encoding may have, the number of opcode bytes behind a map is not determined. All steps that
end a call with an error are one case (`Failing`, `Refused`).

`DecoderMeaningProofs`: what a prefix of a finished instruction means is decided in three places, the
collection, the walk and `ZydisSetAttributes`. `MeaningInductive` proves one invariant, `Meaning`, for the
whole call: to the three above it adds
- `Found`: the choices of the collection survive the walk, which never writes the records they rest on;
- `Pathed`: a MANDATORY_PREFIX node is met at most once on a path, and a pending fallback has met it.
  This is the contract of section 6, and without it a fallback could give a prefix back that another node
  had consumed;
- `Marked`: while the walk goes on, at most the candidate is consumed and only behind that node, all other
  marks are those of the collection, and HAS_OPERANDSIZE is missing exactly while a 66 is consumed;
- `Encoded`: the encoding attribute is that of the encoding, and VEX-like encodings were only entered
  without candidate, lock and adjacent REX. It has to be said already at the VECTOR_PREFIX node, where these are refused
  and the encoding is not yet set.

`ConsumptionIsAccounted` is `Marked` at the right moments. For `FallbackRestoresAll` a step that clears
`temp` is shown to be the fallback or an end of the call, and `Marked` behind it gives the marks back.

Its second half, the end of a call: `ZydisSetAttributes` starts from `Marked` and adds attributes by group (`Added`);
`Names(a, i)` is what an attribute says of the prefix in slot `i`, without the attributes that are
set. `MarksMatch` shows that whatever is added names a prefix that is there and is marked by the same branch of the code
(`Marking`); `OneMeaning` that two attributes that name the same slot are the same; `NothingDropped` follows from
`Encoded` and from a definition that lets an F0 through. `DecoderTypes` is `TypeOK`; it is the last and not the first, since that a SIB
byte is not the byte peeked needs to know that the ModRM byte has been skipped (`ModrmSkipped`), and the bounds of the
marks need `Marked`.

`InstructionSegmentsProofs`: the C function takes lengths for granted. `EscapeSized` and `RexMarks` show that
the walk has really read 2 bytes of REX2, 4 of EVEX, 2 or 3 of VEX and that a REX is effective exactly where
HAS_REX says so. Then the list is built up from left to right: `Tiles(s, a, b)` says that the segments of `s` lie
end to end from `a` to `b`, `TilesJoin` that two such lists can be joined. `PartsTile` gives the places.
`Explained` is the same for the meaning of the prefix segments.

### The encoder

`EncoderCallsProofs`: the loop of `ZydisFindMatchingDefinition` reuses one structure for all candidates and assigns nine
of its fields before each comparison (`Reset`). That nothing of a refused candidate is left needs two things:
that these nine are all the fields there are, whatever the comparison before has done
(`IsMatch`, kept by each of the functions that take a match: one lemma per function, `SetInduction`
over the operands), and that a structure with these fields is determined by what is assigned
(`ResetForgets`). The request is rewritten between calls and by the absolute functions, but never between
two candidates. With a field not reset (the mutant of this property) `ResetForgets` fails.

### What is only model-checked

* `Terminates`: liveness.
* `VectorFeatures`: the properties compare tables of the decoder with tables of the encoder for rows
  that are data; for arbitrary rows they do not hold, and an assumption strong enough would
  be the tables themselves.
* `Delivered`, `ReEncodes`, `EgprReported`, `TargetReached`, `AbsoluteRoundTrip` of `EncoderCalls`: likewise
  properties of the rows of the tables.

## 5. What the code does that its documentation does not say

* Of two 66 prefixes the first, overwritten one is marked MANDATORY, and the second one stays
  EFFECTIVE although HAS_OPERANDSIZE is cleared (`DecoderOverwritten`).
* `ZydisFormatterBufferRestore` leaves the link of the token it returns to, so a hook that skips the
  last operand of a token list leaves delimiter and operand reachable (`FormatterSkip`). The link
  is overwritten as soon as another token is added, and a string is cut back as it should be.
* Without FORCE_SIZE the MASM style returns INVALID_ARGUMENT for an EVEX instruction with a broadcast
  whenever the size of the operand is not printed: when one operand is formatted alone
  (`ZydisFormatterFormatOperand`, the trace of `FormatterForceSize`), or its neighbour tells the size.
* With DETAILED_PREFIXES an effective NOTRACK prefix is not printed at all (`FormatterDetailed`).
* Seen while modelling, without a run:
  - a prefix marked MANDATORY still yields HAS_REP, HAS_REPE or HAS_REPNE where the definition
    accepts it (Decoder.c:2190; DecoderTypes.h:835 says that it has no further effect);
  - in `cvtsi2sd xmm, mem` a memory size of 2 is accepted and encoded with 8 bytes, because REX.W decides
    the size without a comparison (Encoder.c:1905; Encoder.h:232 calls the field the size of the operand in
    bytes); `Delivered` compares no sizes of such definitions;
  - SEGMENT_DS before an indirect branch is encoded as 3E and decodes as NOTRACK (`Said`);
  - when the absolute function fails after it has rewritten the request, the request stays
    rewritten; a RIP-relative operand out of reach is found after the bytes and `*length` have been
    written (Encoder.h:416 speaks of a successful return);
  - `ZydisDecoderDecodeOperands` takes the smaller of the two counts where Decoder.h:314 says that it
    fails, and accepts the context of a decode that failed behind the definition (Decoder.c:5251).
* Seen while modelling the formatter and the vector features, without a run: `ZydisFormatterSetProperty` has no case for the two
  documented APX properties (NF suffix, DFV immediate) and returns INVALID_ARGUMENT, as
  `Settable` has it; VMOVNRNGOAPD and VMOVNRNGOAPS are decoded with an eviction hint, although
  their MVEX.EH bit is, in the encoder's words, not treated as one (re-encoding works all the
  same, the encoder accepts the hint and sets the bit by mnemonic).
* Seen while reading, without a run: line 5304 tests for the empty entry 0 of a REX_2 node, but in
  the tables only entry 1 is ever empty, so ILLEGAL_REX2 is never returned there; the branch
  that marks a REX before REX2 as not used (3922) is never taken, since a REX that survives the
  collection is always adjacent (`RexIsLast`); no definition sets `no_compat_mode`.

## 6. What the models take from the tables

The generated tables are data. `Decoder` assumes of them, and the tables satisfy: at most one
MANDATORY_PREFIX node on a path, also behind a fallback; a fallback only in the primary and the
0F table; below a consumed 66 only definitions that accept nothing but a segment override,
below a consumed F2 or F3 only definitions that accept in addition REP, REPE, REPNE; the entries of
C4, C5, 62, 8F and D5 are the switch nodes; the combinations of accepted prefixes and the rows
of instruction parts in `MCDecoder` occur in `InstructionDefinitions.inc` and
`InstructionEncodings.inc`. The rows in `MCVectorFeatures` are those of the tables, in the encoder's
order; two definitions that differ only in what the model leaves out are one row. `DefinitionRows` holds all
rows of its 29 mnemonics but those of EVEX and MVEX, generated from the tables, in the encoder's order.

## 7. Not modelled, and what is left

* The registers of EVEX and MVEX together with the operand matching: the features of these encodings
  are in `VectorFeatures`, the rest of the encoder in `EncoderCalls`, but no definition goes through both. `ZydisEncoderNopFill` is not modelled (a loop over a table of nine).
* Implicit memory operands, operand actions and element types of a decoded instruction: copies from the
  tables; the CPU and FPU flags likewise.
* The calls `ZydisDecoderInit` and `ZydisDecoderEnableMode` (what they leave is the initial state of
  `Decoder`), `Disassembler.c` (decode, then format).
* Decimal and hexadecimal conversion (`String.c`): a number is one glyph. Letter case, padding and
  number formats with it.

Left out for good: the wording of the output, the tools and examples, the contents of the
generated tables, version and feature queries, configuration macros that compile parts out.
