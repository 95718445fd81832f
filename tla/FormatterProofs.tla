---------------------------- MODULE FormatterProofs ----------------------------
(****************************************************************************)
(* The formatter at work on its buffer, for every instruction, style,       *)
(* setting and set of hooks and every size of the buffer.                   *)
(*                                                                          *)
(* First what holds whatever the functions print: nothing is written        *)
(* outside the caller's memory, and the string is what was printed and not  *)
(* taken back.  Then what they print: the calls an entry point makes are    *)
(* spelled out, an invariant says at every phase how much of the sentence   *)
(* is printed and which calls are left, and the sentence comes out whole or *)
(* not at all beyond an error.  Then the token list: its tokens form a      *)
(* thread that says what was printed.  Last, the prefixes and decorators in *)
(* the sentence are counted.                                                *)
(****************************************************************************)
EXTENDS Formatter, FormatterBufferProofs, SequenceTheorems, WellFoundedInduction,
        FiniteSetTheorems

USE DEF Header, Invalid, Nul

-----------------------------------------------------------------------------
(* The fixed strings *)

LEMMA StaticTypesLength == \A name : Len(StaticTypes(name)) \in 1 .. 4
BY DEF StaticTypes

\* Every fixed string is a static list with the shape its copy relies on.
LEMMA BlockFits == \A name : Fits(Block(name))
<1> SUFFICES ASSUME NEW name PROVE Fits(Block(name))
  OBVIOUS
<1> DEFINE types == StaticTypes(name)
           last == Len(types)
           bytes == [i \in 0 .. (4 * last) - 1 |->
                       LET k == (i \div 4) + 1 IN
                       CASE i % 4 = 0 -> TokenType[types[k]]
                         [] i % 4 = 1 -> IF k = last THEN 0 ELSE 2
                         [] i % 4 = 2 -> Code[name]
                         [] i % 4 = 3 -> Nul]
<1>1. /\ Block(name).size = 4 * last /\ Block(name).next = (4 * last) - 2
      /\ Block(name).data = bytes
  BY DEF Block
<1>2. last \in 1 .. 4
  BY StaticTypesLength
<1> HIDE DEF last, types
<1>3. (4 * last) - 1 \in 0 .. (4 * last) - 1 /\ ((4 * last) - 1) % 4 = 3
  <2>1. \A n \in 1 .. 4 : (4 * n) - 1 \in 0 .. (4 * n) - 1 /\ ((4 * n) - 1) % 4 = 3
    OBVIOUS
  <2> QED BY <1>2, <2>1
<1>4. bytes[(4 * last) - 1] = 0
  BY <1>3
<1> HIDE DEF bytes
<1>5. \A n \in 1 .. 4 : /\ 4 * n \in Nat /\ (4 * n) - 2 \in Nat
                        /\ 2 <= (4 * n) - 2 /\ (4 * n) - 2 < 4 * n
                        /\ 4 * n - ((4 * n) - 2) = 2
  OBVIOUS
<1>6. 2 <= U8Max
  BY ByteAssumption
<1> QED BY <1>1, <1>2, <1>4, <1>5, <1>6 DEF Fits

-----------------------------------------------------------------------------
(* The buffer stays sound under the formatter.                              *)

LEMMA PerformSound ==
  ASSUME Sound, NEW call, Perform(call)
  PROVE  Sound'
<1>1. ASSUME NEW type, Append_(type) PROVE Sound'
  BY <1>1, AppendNewSound, FailsSound DEF Append_, AppendSame, AppendFull
<1>2. ASSUME AppendPredefined(Block(call.arg)) PROVE Sound'
  BY <1>2, BlockFits, PredefinedNewSound, FailsSound
     DEF AppendPredefined, PredefinedFull
<1>3. ASSUME NEW n \in Nat \ {0}, NEW c, AppendText(n, c) PROVE Sound'
  BY <1>3, TextNewSound, FailsSound DEF AppendText, TextFull
<1>4. Len(StaticTypes(call.arg)) \in Nat \ {0} /\ 1 \in Nat \ {0}
  <2>1. \A n \in 1 .. 4 : n \in Nat \ {0}
    OBVIOUS
  <2> QED BY <2>1, StaticTypesLength
<1> QED BY <1>1, <1>2, <1>3, <1>4, FailsSound DEF Perform

LEMMA StepSound == Sound /\ [FormatterNext]_formatterVars => Sound'
<1> SUFFICES ASSUME Sound, [FormatterNext]_formatterVars PROVE Sound'
  OBVIOUS
<1>1. CASE UNCHANGED vars
  BY <1>1, FailsSound
<1>2. CASE RememberMnemonic \/ BeginOperand
  BY <1>2, RememberSound DEF RememberMnemonic, BeginOperand
<1>3. CASE SkipOperand
  BY <1>3, RestoreSound DEF SkipOperand, Restore
<1>4. CASE Step
  BY <1>4, PerformSound DEF Step
<1>5. CASE PreOperand \/ FormatTheOperand \/ PostOperand
  <2>1. SkipOperand \/ UNCHANGED vars
    BY <1>5 DEF PreOperand, FormatTheOperand, PostOperand, Proceed
  <2> QED BY <1>1, <1>3, <2>1
<1>6. ASSUME NEW setting \in Settings, SetProperty(setting[1], setting[2])
      PROVE  UNCHANGED vars
  BY <1>6 DEF SetProperty, Configure
<1>7. ASSUME NEW hook \in Hookable, SetHook(hook) PROVE UNCHANGED vars
  BY <1>7 DEF SetHook, Configure
<1>8. ASSUME NEW count, FormatInstruction(count) PROVE UNCHANGED vars
  BY <1>8 DEF FormatInstruction
<1>9. ASSUME NEW n, FormatOneOperand(n) PROVE UNCHANGED vars
  BY <1>9 DEF FormatOneOperand
<1>10. CASE PassMask \/ EndOperand \/ EndInstruction \/ Returned
            \/ UNCHANGED formatterVars
  BY <1>1, <1>10 DEF PassMask, EndOperand, EndInstruction, Returned, formatterVars
<1> QED BY <1>1, <1>2, <1>4, <1>5, <1>6, <1>7, <1>8, <1>9, <1>10 DEF FormatterNext

(* Every step of the formatter is a call of the buffer or leaves it alone,  *)
(* so that the buffer's invariant holds while the formatter uses it.        *)
THEOREM FormatterSound == FormatterSpec => []Sound
<1>1. FormatterInit => Sound
  BY InitInv DEF FormatterInit, IInv
<1> QED BY <1>1, StepSound, PTL DEF FormatterSpec

(* Whatever the formatter functions print, whatever the hooks return and    *)
(* wherever a call stops, the formatter writes inside the caller's memory,  *)
(* keeps the buffer's books, lets no token outgrow the byte that links it   *)
(* and leaves the current string terminated: the buffer's guarantees do not *)
(* depend on how the formatter uses it.                                     *)
THEOREM FormatterUsesTheBuffer ==
  FormatterSpec => [](NoWriteOutside /\ Accounting /\ LengthFitsByte /\ NulTerminated)
<1>1. Sound => NoWriteOutside /\ Accounting /\ LengthFitsByte /\ NulTerminated
  BY FitsByte DEF Sound, Placed, NoWriteOutside
<1> QED BY <1>1, FormatterSound, PTL

-----------------------------------------------------------------------------
(* The string                                                               *)

IsSequence(s) == \E S : s \in Seq(S)

LEMMA Joined ==
  ASSUME NEW s, NEW t, IsSequence(s), IsSequence(t)
  PROVE  /\ IsSequence(s \o t) /\ Len(s \o t) = Len(s) + Len(t)
         /\ \A k \in 1 .. Len(s) + Len(t) :
              (s \o t)[k] = IF k <= Len(s) THEN s[k] ELSE t[k - Len(s)]
<1>1. PICK S : s \in Seq(S)
  BY DEF IsSequence
<1>2. PICK T : t \in Seq(T)
  BY DEF IsSequence
<1> DEFINE U == S \cup T
<1>3. s \in Seq(U) /\ t \in Seq(U)
  BY <1>1, <1>2
<1> HIDE DEF U
<1> QED BY <1>3, ConcatProperties DEF IsSequence

LEMMA IsSequenceLength == \A s : IsSequence(s) => Len(s) \in Nat /\ DOMAIN s = 1 .. Len(s)
BY DEF IsSequence

\* The string is as long as what was printed, and says it.
Written ==
  /\ IsSequence(kept)
  /\ ~isTokenList => /\ size = Len(kept) + 1
                     /\ \A k \in 1 .. Len(kept) : mem[k - 1] = Code[kept[k]]

\* While an operand is formatted, the remembered state is what was printed
\* before it, and that is still the beginning of what is printed now.
Begun ==
  phase \in {"PreOperand", "Format", "PostOperand"} /\ whole =>
    /\ IsSequence(bufferKept) /\ Len(bufferKept) <= Len(kept)
    /\ \A k \in 1 .. Len(bufferKept) : bufferKept[k] = kept[k]
    /\ ~isTokenList => buffer_state = Len(bufferKept) + 1

StringInv == Sound /\ Written /\ Begun

LEMMA StaticTypesSequence ==
  \A name : DOMAIN StaticTypes(name) = 1 .. Len(StaticTypes(name))
<1> SUFFICES ASSUME NEW name
             PROVE  DOMAIN StaticTypes(name) = 1 .. Len(StaticTypes(name))
  OBVIOUS
<1>1. \A a : DOMAIN <<a>> = 1 .. Len(<<a>>)
  OBVIOUS
<1>2. \A a, b : DOMAIN <<a, b>> = 1 .. Len(<<a, b>>)
  OBVIOUS
<1>3. \A a, b, c, d : DOMAIN <<a, b, c, d>> = 1 .. Len(<<a, b, c, d>>)
  OBVIOUS
<1>4. \/ \E a : StaticTypes(name) = <<a>>
      \/ \E a, b : StaticTypes(name) = <<a, b>>
      \/ \E a, b, c, d : StaticTypes(name) = <<a, b, c, d>>
  BY Zenon DEF StaticTypes
<1> QED BY <1>1, <1>2, <1>3, <1>4

LEMMA PrintedSequence == \A call : IsSequence(Printed(call))
<1> SUFFICES ASSUME NEW call PROVE IsSequence(Printed(call))
  OBVIOUS
<1>1. CASE call.do = "static"
  <2> DEFINE n == Len(StaticTypes(call.arg))
  <2>1. n \in 1 .. 4 /\ DOMAIN StaticTypes(call.arg) = 1 .. n
    BY StaticTypesLength, StaticTypesSequence
  <2>2. Printed(call) = [k \in 1 .. n |-> call.arg]
    BY <1>1, <2>1 DEF Printed
  <2> HIDE DEF n
  <2>3. [k \in 1 .. n |-> call.arg] \in Seq({call.arg})
    BY <2>1
  <2> QED BY <2>2, <2>3 DEF IsSequence
<1>2. CASE call.do = "text"
  <2>1. <<call.arg>> \in Seq({call.arg})
    OBVIOUS
  <2> QED BY <1>2, <2>1 DEF Printed, IsSequence
<1>3. CASE call.do \notin {"static", "text"}
  BY <1>3 DEF Printed, IsSequence
<1> QED BY <1>1, <1>2, <1>3

\* A text that was appended is the end of the string.
LEMMA TextWritten ==
  ASSUME Sound, Written, ~isTokenList, NEW n, n \in 1 .. 4, NEW g, TextNew(n, Code[g]),
         NEW t, IsSequence(t), Len(t) = n, \A k \in 1 .. n : t[k] = g
  PROVE  /\ size' = Len(kept \o t) + 1
         /\ \A k \in 1 .. Len(kept \o t) : mem'[k - 1] = Code[(kept \o t)[k]]
<1> DEFINE end == data + size + n - 1
           W == (data + size - 1) .. end
           w == [i \in W |-> IF i = end THEN 0 ELSE Code[g]]
<1>1. size + n <= limit /\ size' = size + n /\ mem' = Poke(mem, w)
  BY DEF TextNew
<1>2. /\ data = 0 /\ limit = Length /\ size \in Nat /\ size >= 1
      /\ DOMAIN mem = Offsets /\ Length \in Nat
  BY LengthAssumption DEF Sound, Placed, Accounting
<1>3. /\ Len(kept) \in Nat /\ size = Len(kept) + 1
      /\ Len(kept \o t) = Len(kept) + n
      /\ \A k \in 1 .. Len(kept) + n :
           (kept \o t)[k] = IF k <= Len(kept) THEN kept[k] ELSE t[k - Len(kept)]
  BY Joined, IsSequenceLength DEF Written
<1>4. size' = Len(kept \o t) + 1
  BY <1>1, <1>2, <1>3
<1>5. W = Len(kept) .. Len(kept) + n /\ end = Len(kept) + n
  BY <1>2, <1>3
<1>6. W \subseteq Offsets
  BY <1>1, <1>2, <1>3, <1>5 DEF Offsets
<1>7. DOMAIN w = W /\ \A i \in W : w[i] = IF i = Len(kept) + n THEN 0 ELSE Code[g]
  BY <1>5
<1> HIDE DEF w, W
<1>8. /\ \A i \in W : Poke(mem, w)[i] = w[i]
      /\ \A i \in Offsets \ W : Poke(mem, w)[i] = mem[i]
  BY <1>2, <1>6, <1>7, PokeInside
<1>9. ASSUME NEW k \in 1 .. Len(kept \o t)
      PROVE  mem'[k - 1] = Code[(kept \o t)[k]]
  <2>1. CASE k <= Len(kept)
    <3>1. k - 1 \in Offsets \ W
      BY <1>1, <1>2, <1>3, <1>5, <2>1 DEF Offsets
    <3>2. k \in 1 .. Len(kept) /\ (kept \o t)[k] = kept[k]
      BY <1>3, <2>1
    <3> QED BY <1>1, <1>8, <3>1, <3>2 DEF Written
  <2>2. CASE ~(k <= Len(kept))
    <3>1. /\ k - 1 \in W /\ k - 1 # Len(kept) + n
          /\ k - Len(kept) \in 1 .. n /\ k \in 1 .. Len(kept) + n
      BY <1>3, <1>5, <2>2
    <3>2. (kept \o t)[k] = g
      BY <1>3, <2>2, <3>1
    <3> QED BY <1>1, <1>7, <1>8, <3>1, <3>2
  <2> QED BY <2>1, <2>2
<1> QED BY <1>4, <1>9

LEMMA PerformWritten ==
  ASSUME Sound, Written, ~isTokenList, NEW call, Perform(call), status' = "SUCCESS"
  PROVE  /\ size' = Len(kept \o Printed(call)) + 1
         /\ \A k \in 1 .. Len(kept \o Printed(call)) :
              mem'[k - 1] = Code[(kept \o Printed(call))[k]]
<1>1. CASE call.do = "static"
  <2>0. PICK n : n = Len(StaticTypes(call.arg))
    OBVIOUS
  <2>1. n \in 1 .. 4 /\ DOMAIN StaticTypes(call.arg) = 1 .. n
    BY <2>0, StaticTypesLength, StaticTypesSequence
  <2>2. AppendText(n, Code[call.arg])
    BY <1>1, <2>0 DEF Perform
  <2>3. TextNew(n, Code[call.arg])
    BY <2>2 DEF AppendText, TextFull, Fails
  <2>4. Printed(call) = [k \in 1 .. n |-> call.arg]
    BY <1>1, <2>1 DEF Printed
  <2>5. /\ IsSequence(Printed(call)) /\ Len(Printed(call)) = n
        /\ \A k \in 1 .. n : Printed(call)[k] = call.arg
    BY <2>1, <2>4, PrintedSequence
  <2> QED BY SMTT(30), <2>1, <2>3, <2>5, TextWritten
<1>2. CASE call.do = "text"
  <2>0. PICK n : n = 1
    OBVIOUS
  <2>1. n \in 1 .. 4 /\ TextNew(n, Code[call.arg])
    BY <1>2, <2>0 DEF Perform, AppendText, TextFull, Fails
  <2>2. Printed(call) = <<call.arg>>
    BY <1>2 DEF Printed
  <2>3. /\ IsSequence(Printed(call)) /\ Len(Printed(call)) = n
        /\ \A k \in 1 .. n : Printed(call)[k] = call.arg
    BY <2>0, <2>2, PrintedSequence
  <2> QED BY <2>1, <2>3, TextWritten
<1>3. CASE call.do \in {"token", "fail"}
  <2>1. size' = size /\ mem' = mem
    BY <1>3 DEF Perform, Append_, AppendSame, AppendFull, AppendNew, Fails
  <2>2. Printed(call) = <<>>
    BY <1>3 DEF Printed
  <2>3. kept \o <<>> = kept
    BY DEF Written, IsSequence
  <2> QED BY <2>1, <2>2, <2>3 DEF Written
<1> QED BY <1>1, <1>2, <1>3 DEF Perform

LEMMA StepWritten == StringInv /\ Step => Written' /\ Begun'
<1> SUFFICES ASSUME StringInv, Step PROVE Written' /\ Begun'
  OBVIOUS
<1> DEFINE call == Head(todo)
<1>1. /\ Perform(call)
      /\ IF status' = "SUCCESS" THEN kept' = kept \o Printed(call) /\ phase' = phase
                                ELSE kept' = kept /\ phase' = "Done"
      /\ whole' = whole /\ buffer_state' = buffer_state /\ bufferKept' = bufferKept
  BY DEF Step, Return, request
<1>2. isTokenList' = isTokenList
  BY <1>1 DEF Perform, Append_, AppendSame, AppendFull, AppendNew, AppendPredefined,
     PredefinedFull, PredefinedNew, AppendText, TextFull, TextNew, Fails
<1> HIDE DEF call
<1>3. CASE status' = "SUCCESS"
  <2>1. kept' = kept \o Printed(call)
    BY <1>1, <1>3
  <2>2. /\ IsSequence(kept') /\ Len(kept) \in Nat /\ Len(Printed(call)) \in Nat
        /\ Len(kept') = Len(kept) + Len(Printed(call))
        /\ \A k \in 1 .. Len(kept) + Len(Printed(call)) :
             kept'[k] = IF k <= Len(kept) THEN kept[k] ELSE Printed(call)[k - Len(kept)]
    BY <2>1, PrintedSequence, Joined, IsSequenceLength DEF StringInv, Written
  <2>3. Written'
    <3>1. CASE isTokenList
      BY <1>2, <2>2, <3>1 DEF Written
    <3>2. CASE ~isTokenList
      BY <1>1, <1>3, <2>1, <2>2, <3>2, PerformWritten DEF Written, StringInv
    <3> QED BY <3>1, <3>2
  <2>4. Begun'
    <3> SUFFICES ASSUME phase \in {"PreOperand", "Format", "PostOperand"}, whole
                 PROVE  Begun'
      BY <1>1, <1>3 DEF Begun
    <3>1. /\ IsSequence(bufferKept) /\ Len(bufferKept) \in Nat
          /\ Len(bufferKept) <= Len(kept)
          /\ \A k \in 1 .. Len(bufferKept) : bufferKept[k] = kept[k]
          /\ ~isTokenList => buffer_state = Len(bufferKept) + 1
      BY IsSequenceLength DEF StringInv, Begun
    <3>2. \A k \in 1 .. Len(bufferKept) : kept'[k] = kept[k]
      BY <2>2, <3>1
    <3>3. Len(bufferKept) <= Len(kept')
      BY <2>2, <3>1
    <3> QED BY <1>1, <1>2, <3>1, <3>2, <3>3 DEF Begun
  <2> QED BY <2>3, <2>4
<1>4. CASE status' # "SUCCESS"
  <2>1. size' = size /\ mem' = mem /\ kept' = kept /\ phase' = "Done"
    BY <1>1, <1>4 DEF Perform, Append_, AppendSame, AppendFull, AppendNew,
       AppendPredefined, PredefinedFull, PredefinedNew, AppendText, TextFull, TextNew, Fails
  <2> QED BY <1>2, <2>1 DEF StringInv, Written, Begun
<1> QED BY <1>3, <1>4

LEMMA SkipWritten ==
  ASSUME StringInv, phase \in {"PreOperand", "Format", "PostOperand"}, whole, SkipOperand
  PROVE  Written' /\ Begun'
<1>1. /\ Restore(buffer_state) /\ kept' = bufferKept /\ phase' = "Operands"
      /\ isTokenList' = isTokenList
  BY DEF SkipOperand, Restore
<1>2. /\ IsSequence(bufferKept) /\ Len(bufferKept) \in Nat
      /\ Len(bufferKept) <= Len(kept)
      /\ \A k \in 1 .. Len(bufferKept) : bufferKept[k] = kept[k]
      /\ ~isTokenList => buffer_state = Len(bufferKept) + 1
  BY IsSequenceLength DEF StringInv, Begun
<1>3. ASSUME ~isTokenList
      PROVE  /\ size' = Len(bufferKept) + 1
             /\ \A k \in 1 .. Len(bufferKept) : mem'[k - 1] = Code[bufferKept[k]]
  <2> DEFINE w == [i \in {Len(bufferKept)} |-> 0]
  <2>1. /\ data = 0 /\ Len(kept) \in Nat /\ size = Len(kept) + 1
        /\ size <= Length /\ Length \in Nat /\ DOMAIN mem = Offsets
        /\ \A k \in 1 .. Len(kept) : mem[k - 1] = Code[kept[k]]
    BY <1>3, LengthAssumption, IsSequenceLength
       DEF StringInv, Sound, Placed, Accounting, Written
  <2>2. data + buffer_state - 1 = Len(bufferKept)
    BY <1>2, <1>3, <2>1
  <2>3. size' = buffer_state /\ mem' = Poke(mem, w)
    BY <1>1, <1>3, <2>2 DEF Restore, RestoreTokens, RestoreString
  <2>4. Len(bufferKept) \in Offsets
    BY <1>2, <2>1 DEF Offsets
  <2>5. DOMAIN w = {Len(bufferKept)}
    OBVIOUS
  <2> HIDE DEF w
  <2>6. \A i \in Offsets \ {Len(bufferKept)} : mem'[i] = mem[i]
    BY <2>1, <2>3, <2>4, <2>5, PokeInside
  <2>7. \A k \in 1 .. Len(bufferKept) :
          k - 1 \in Offsets \ {Len(bufferKept)} /\ k \in 1 .. Len(kept)
    BY <1>2, <2>1 DEF Offsets
  <2> QED BY <1>2, <1>3, <2>1, <2>3, <2>6, <2>7
<1> QED BY <1>1, <1>2, <1>3 DEF Written, Begun

\* A step that leaves string and history alone.
LEMMA QuietWritten ==
  ASSUME StringInv, UNCHANGED <<isTokenList, size, mem, kept, whole>>,
         \/ UNCHANGED <<phase, bufferKept, buffer_state>>
         \/ phase' \notin {"PreOperand", "Format", "PostOperand"}
         \/ phase' \in {"PreOperand", "Format", "PostOperand"} /\ ~whole
         \/ /\ phase \in {"PreOperand", "Format", "PostOperand"}
            /\ UNCHANGED <<bufferKept, buffer_state>>
         \/ bufferKept' = kept /\ (~isTokenList => buffer_state' = size)
  PROVE  Written' /\ Begun'
<1>1. Written'
  BY DEF StringInv, Written
<1>2. Len(kept) \in Nat /\ IsSequence(kept)
  BY IsSequenceLength DEF StringInv, Written
<1>3. CASE bufferKept' = kept /\ (~isTokenList => buffer_state' = size)
  BY <1>1, <1>2, <1>3 DEF StringInv, Written, Begun
<1>4. CASE phase' \notin {"PreOperand", "Format", "PostOperand"} \/ ~whole
  BY <1>1, <1>4 DEF Begun
<1>5. CASE /\ phase \in {"PreOperand", "Format", "PostOperand"} \/ phase' = phase
           /\ UNCHANGED <<bufferKept, buffer_state>>
  BY <1>1, <1>5 DEF StringInv, Begun
<1> QED BY <1>1, <1>3, <1>4, <1>5

LEMMA ProceedWritten ==
  ASSUME StringInv, phase \in {"PreOperand", "Format", "PostOperand"},
         NEW v, NEW there, NEW next, Proceed(v, there, next)
  PROVE  Written' /\ Begun'
<1>1. CASE v = "SKIP_TOKEN" /\ whole /\ SkipOperand
  BY <1>1, SkipWritten
<1>2. CASE UNCHANGED <<isTokenList, size, mem, kept, whole, bufferKept, buffer_state>>
  BY <1>2, QuietWritten
<1> QED BY <1>1, <1>2 DEF Proceed, vars, request, history

LEMMA StringStep == StringInv /\ [FormatterNext]_formatterVars => StringInv'
<1> SUFFICES ASSUME StringInv, [FormatterNext]_formatterVars PROVE Written' /\ Begun'
  BY StepSound DEF StringInv
<1>1. CASE Step
  BY <1>1, StepWritten
<1>2. CASE PreOperand
  <2>1. PICK v \in Verdict("PRE_OPERAND") : Proceed(v, "Format", <<>>)
    BY <1>2 DEF PreOperand
  <2>2. phase \in {"PreOperand", "Format", "PostOperand"}
    BY <1>2 DEF PreOperand, Ready
  <2> QED BY <2>1, <2>2, ProceedWritten
<1>3. CASE FormatTheOperand
  <2>1. PICK v \in Verdict("FORMAT_OPERAND") :
          Proceed(v, "PostOperand", Maybe(v = "SUCCESS", FormatOperand(Context)))
    BY <1>3 DEF FormatTheOperand
  <2>2. phase \in {"PreOperand", "Format", "PostOperand"}
    BY <1>3 DEF FormatTheOperand, Ready
  <2> QED BY <2>1, <2>2, ProceedWritten
<1>4. CASE PostOperand
  <2>1. PICK v : IF whole THEN Proceed(v, "Decorators", FormatDecorators(Context, at))
                 ELSE /\ Return(IF v = "FAILED" THEN v ELSE "SUCCESS")
                      /\ UNCHANGED <<vars, client, request, at, state_mnemonic,
                                     buffer_state, history>>
    BY <1>4 DEF PostOperand
  <2>2. phase \in {"PreOperand", "Format", "PostOperand"}
    BY <1>4 DEF PostOperand, Ready
  <2>3. CASE whole
    BY <2>1, <2>2, <2>3, ProceedWritten
  <2>4. CASE ~whole
    BY <2>1, <2>4, QuietWritten DEF Return, vars, request, history
  <2> QED BY <2>3, <2>4
<1>5. CASE RememberMnemonic
  BY <1>5, QuietWritten DEF RememberMnemonic, Remember, request, history
<1>6. CASE BeginOperand
  BY <1>6, QuietWritten DEF BeginOperand, Remember, Snapshot, request
<1>7. CASE PassMask \/ EndOperand \/ EndInstruction \/ Returned \/ UNCHANGED formatterVars
  BY <1>7, QuietWritten DEF PassMask, EndOperand, EndInstruction, Return, Ready, Returned,
     formatterVars, vars, request, history
<1>8. ASSUME NEW setting \in Settings, SetProperty(setting[1], setting[2])
      PROVE  Written' /\ Begun'
  BY <1>8, QuietWritten DEF SetProperty, Configure, vars, request, history
<1>9. ASSUME NEW hook \in Hookable, SetHook(hook) PROVE Written' /\ Begun'
  BY <1>9, QuietWritten DEF SetHook, Configure, vars, request, history
<1>10. ASSUME NEW count, FormatInstruction(count) PROVE Written' /\ Begun'
  BY <1>10, QuietWritten DEF FormatInstruction, Return, vars, request, history
<1>11. ASSUME NEW n, FormatOneOperand(n) PROVE Written' /\ Begun'
  BY <1>11, QuietWritten DEF FormatOneOperand, vars, request, history
<1> QED BY <1>1, <1>2, <1>3, <1>4, <1>5, <1>6, <1>7, <1>8, <1>9, <1>10, <1>11
        DEF FormatterNext

(* At every moment, after a skipped operand and after an error too, the     *)
(* string in the caller's memory is what the formatter has printed and not  *)
(* taken back, whatever instruction, style, settings and hooks              *)
(* (ZydisFormatterBufferRestore, FormatterIntel.c:104).                     *)
THEOREM StringTellsAll == FormatterSpec => []StringIsKept
<1>1. FormatterInit => StringInv
  <2> SUFFICES ASSUME FormatterInit PROVE StringInv
    OBVIOUS
  <2>1. Sound
    BY InitInv DEF FormatterInit, IInv
  <2>2. kept = <<>> /\ phase = "Idle" /\ (~isTokenList => size = 1)
    BY DEF FormatterInit, Init, InitString, InitTokenized
  <2>3. IsSequence(<<>>) /\ Len(<<>>) = 0
    BY DEF IsSequence
  <2> QED BY <2>1, <2>2, <2>3 DEF StringInv, Written, Begun
<1>2. StringInv => StringIsKept
  <2> SUFFICES ASSUME StringInv, ~isTokenList
               PROVE  [k \in 1 .. size - 1 |-> mem[k - 1]] = KeptBytes
    BY DEF StringIsKept
  <2>1. /\ Len(kept) \in Nat /\ DOMAIN kept = 1 .. Len(kept)
        /\ size = Len(kept) + 1
        /\ \A k \in 1 .. Len(kept) : mem[k - 1] = Code[kept[k]]
    BY IsSequenceLength DEF StringInv, Written
  <2>2. size - 1 = Len(kept)
    BY <2>1
  <2> QED BY <2>1, <2>2 DEF KeptBytes
<1> QED BY <1>1, <1>2, StringStep, PTL DEF FormatterSpec

-----------------------------------------------------------------------------
(* Sequences that are joined one after the other                            *)

LEMMA LessThan == \A x, y \in Nat : <<x, y>> \in OpToRel(<, Nat) <=> x < y
BY DEF OpToRel

\* Induction over the natural numbers, for a set of them.
LEMMA SetInduction ==
  ASSUME NEW S, 0 \in S, \A n \in Nat : n \in S => n + 1 \in S
  PROVE  \A n \in Nat : n \in S
<1> DEFINE T == Nat \ S
           R == OpToRel(<, Nat)
<1>1. IsWellFoundedOn(R, Nat)
  BY NatLessThanWellFounded
<1>2. \A x, y \in Nat : <<x, y>> \in R <=> x < y
  BY LessThan
<1> HIDE DEF R
<1>3. SUFFICES ASSUME T # {} PROVE FALSE
  OBVIOUS
<1>4. PICK x \in T : \A y \in T : ~ (<<y, x>> \in R)
  BY <1>1, <1>3, WFMin
<1>5. x \in Nat /\ x # 0 /\ x - 1 \in Nat /\ x - 1 < x /\ (x - 1) + 1 = x
  BY <1>4
<1> QED BY <1>2, <1>4, <1>5

\* One value of the recursive function of InTurn.
Turn(w, lists, k) == IF k = 0 THEN <<>> ELSE w[k - 1] \o lists[k]

LEMMA TurnExists ==
  ASSUME NEW lists
  PROVE  \A n \in Nat : \E w : w = [k \in 0 .. n |-> Turn(w, lists, k)]
<1> DEFINE S == {n \in Nat : \E w : w = [k \in 0 .. n |-> Turn(w, lists, k)]}
<1>1. 0 \in S
  <2> DEFINE w == [k \in 0 .. 0 |-> <<>>]
  <2>1. \A k \in 0 .. 0 : Turn(w, lists, k) = <<>>
    BY DEF Turn
  <2>2. w = [k \in 0 .. 0 |-> Turn(w, lists, k)]
    BY <2>1
  <2> HIDE DEF w
  <2> QED BY <2>2
<1>2. ASSUME NEW n \in Nat, n \in S PROVE n + 1 \in S
  <2>1. PICK w : w = [k \in 0 .. n |-> Turn(w, lists, k)]
    BY <1>2
  <2> DEFINE v == [k \in 0 .. n + 1 |-> IF k = n + 1 THEN w[n] \o lists[n + 1] ELSE w[k]]
  <2>2. \A k \in 0 .. n + 1 : k = n + 1 \/ k \in 0 .. n
    OBVIOUS
  <2>3. \A k \in 0 .. n : k # n + 1 /\ k \in 0 .. n + 1
    OBVIOUS
  <2>4. \A k \in 0 .. n : v[k] = w[k]
    BY <2>3
  <2>5. ASSUME NEW k \in 0 .. n + 1 PROVE v[k] = Turn(v, lists, k)
    <3>1. CASE k = 0
      <4>1. w[0] = <<>> /\ k \in 0 .. n
        BY <2>1, <3>1 DEF Turn
      <4> QED BY <2>4, <3>1, <4>1 DEF Turn
    <3>2. CASE k # 0 /\ k # n + 1
      <4>1. k \in 0 .. n /\ k - 1 \in 0 .. n
        BY <3>2
      <4>2. w[k] = w[k - 1] \o lists[k]
        BY <2>1, <3>2, <4>1 DEF Turn
      <4>3. v[k] = w[k] /\ v[k - 1] = w[k - 1]
        BY <2>4, <4>1
      <4> HIDE DEF v
      <4> QED BY <3>2, <4>2, <4>3 DEF Turn
    <3>3. CASE k = n + 1
      <4>1. n \in 0 .. n /\ (n + 1) - 1 = n /\ k # 0
        BY <3>3
      <4>2. v[n] = w[n] /\ v[n + 1] = w[n] \o lists[n + 1]
        BY <2>4, <4>1
      <4> HIDE DEF v
      <4> QED BY <3>3, <4>1, <4>2 DEF Turn
    <3> QED BY <3>1, <3>2, <3>3
  <2>6. v = [k \in 0 .. n + 1 |-> v[k]]
    OBVIOUS
  <2> HIDE DEF v
  <2>7. v = [k \in 0 .. n + 1 |-> Turn(v, lists, k)]
    BY <2>5, <2>6
  <2> QED BY <2>7
<1> HIDE DEF S
<1>3. \A n \in Nat : n \in S
  BY <1>1, <1>2, SetInduction
<1> QED BY <1>3 DEF S

\* Every function that satisfies the equations has the same values.
Turns(w, lists, n) == w = [k \in 0 .. n |-> Turn(w, lists, k)]

LEMMA TurnUnique ==
  ASSUME NEW lists, NEW n \in Nat, NEW m \in Nat,
         NEW w, Turns(w, lists, n), NEW v, Turns(v, lists, m)
  PROVE  \A k \in Nat : k <= n /\ k <= m => w[k] = v[k]
<1> USE DEF Turns
<1> DEFINE S == {k \in Nat : k <= n /\ k <= m => w[k] = v[k]}
<1>1. 0 \in S
  <2>1. w[0] = <<>> /\ v[0] = <<>>
    BY DEF Turn
  <2> QED BY <2>1
<1>2. ASSUME NEW k \in Nat, k \in S PROVE k + 1 \in S
  <2> SUFFICES ASSUME k + 1 <= n, k + 1 <= m PROVE w[k + 1] = v[k + 1]
    OBVIOUS
  <2>1. w[k] = v[k] /\ k + 1 \in 0 .. n /\ k + 1 \in 0 .. m /\ k + 1 # 0 /\ (k + 1) - 1 = k
    BY <1>2
  <2>2. w[k + 1] = w[k] \o lists[k + 1]
    BY <2>1 DEF Turn
  <2>3. v[k + 1] = v[k] \o lists[k + 1]
    BY <2>1 DEF Turn
  <2> QED BY <2>1, <2>2, <2>3
<1> HIDE DEF S
<1>3. \A k \in Nat : k \in S
  BY <1>1, <1>2, SetInduction
<1> QED BY <1>3 DEF S

LEMMA InTurnValue ==
  ASSUME NEW lists, NEW n \in Nat
  PROVE  \E w : Turns(w, lists, n) /\ InTurn(lists, n) = w[n]
<1> DEFINE w == CHOOSE w : w = [k \in 0 .. n |-> Turn(w, lists, k)]
<1>1. w = [k \in 0 .. n |-> Turn(w, lists, k)]
  BY TurnExists
<1>2. InTurn(lists, n) = w[n]
  BY DEF InTurn, Turn
<1> HIDE DEF w
<1> QED BY <1>1, <1>2 DEF Turns

\* The two equations of InTurn.
LEMMA InTurnNone == \A lists : InTurn(lists, 0) = <<>>
<1> SUFFICES ASSUME NEW lists PROVE InTurn(lists, 0) = <<>>
  OBVIOUS
<1>1. PICK w : Turns(w, lists, 0) /\ InTurn(lists, 0) = w[0]
  BY InTurnValue
<1> QED BY <1>1 DEF Turn, Turns

LEMMA InTurnNext ==
  ASSUME NEW lists, NEW n \in Nat
  PROVE  InTurn(lists, n + 1) = InTurn(lists, n) \o lists[n + 1]
<1>1. PICK w : Turns(w, lists, n) /\ InTurn(lists, n) = w[n]
  BY InTurnValue
<1>0. PICK m \in Nat : m = n + 1
  OBVIOUS
<1>2. PICK v : Turns(v, lists, m) /\ InTurn(lists, m) = v[m]
  BY <1>0, InTurnValue
<1>3. v[n] = w[n]
  <2>1. \A k \in Nat : k <= n /\ k <= m => w[k] = v[k]
    BY <1>0, <1>1, <1>2, TurnUnique
  <2> QED BY <1>0, <2>1
<1>4. v[m] = v[n] \o lists[m]
  <2>1. m \in 0 .. m /\ m # 0 /\ m - 1 = n
    BY <1>0
  <2> QED BY <1>2, <2>1 DEF Turn, Turns
<1> QED BY <1>0, <1>1, <1>2, <1>3, <1>4

\* Only the first n sequences count.
LEMMA InTurnSame ==
  ASSUME NEW lists, NEW others, NEW n \in Nat, \A k \in 1 .. n : lists[k] = others[k]
  PROVE  InTurn(lists, n) = InTurn(others, n)
<1> DEFINE S == {k \in Nat : k <= n => InTurn(lists, k) = InTurn(others, k)}
<1>1. 0 \in S
  BY InTurnNone
<1>2. ASSUME NEW k \in Nat, k \in S PROVE k + 1 \in S
  <2> SUFFICES ASSUME k + 1 <= n PROVE InTurn(lists, k + 1) = InTurn(others, k + 1)
    OBVIOUS
  <2>1. k + 1 \in 1 .. n /\ InTurn(lists, k) = InTurn(others, k)
    BY <1>2
  <2> QED BY <2>1, InTurnNext
<1> HIDE DEF S
<1>3. \A k \in Nat : k \in S
  BY <1>1, <1>2, SetInduction
<1> QED BY <1>3 DEF S

\* What all of them have, the whole has.
LEMMA InTurnIn ==
  ASSUME NEW lists, NEW n \in Nat, NEW S, \A k \in 1 .. n : lists[k] \in Seq(S)
  PROVE  \A m \in 0 .. n : InTurn(lists, m) \in Seq(S)
<1> DEFINE T == {k \in Nat : k <= n => InTurn(lists, k) \in Seq(S)}
<1>1. 0 \in T
  <2>1. <<>> \in Seq(S)
    OBVIOUS
  <2> QED BY <2>1, InTurnNone
<1>2. ASSUME NEW k \in Nat, k \in T PROVE k + 1 \in T
  <2> SUFFICES ASSUME k + 1 <= n PROVE InTurn(lists, k + 1) \in Seq(S)
    OBVIOUS
  <2>1. k + 1 \in 1 .. n /\ InTurn(lists, k) \in Seq(S)
    BY <1>2
  <2> QED BY <2>1, InTurnNext, ConcatProperties
<1> HIDE DEF T
<1>3. \A k \in Nat : k \in T
  BY <1>1, <1>2, SetInduction
<1> QED BY <1>3 DEF T

-----------------------------------------------------------------------------
(* What the functions of the formatter ask for                              *)

\* Calls on the buffer with arguments it knows, and those with a check that
\* may fail.
PlainCall ==
  [do : {"token"}, arg : DOMAIN TokenType] \cup [do : {"static", "text"}, arg : GlyphSet]
Call == PlainCall \cup [do : {"fail"}, arg : {"INVALID_ARGUMENT"}]

LEMMA CallsConcat ==
  \A s, t : /\ s \in Seq(PlainCall) /\ t \in Seq(PlainCall) => s \o t \in Seq(PlainCall)
            /\ s \in Seq(Call) /\ t \in Seq(Call) => s \o t \in Seq(Call)
OBVIOUS

LEMMA CallsMaybe ==
  \A b, s : /\ (b => s \in Seq(PlainCall)) => Maybe(b, s) \in Seq(PlainCall)
            /\ (b => s \in Seq(Call)) => Maybe(b, s) \in Seq(Call)
BY DEF Maybe

LEMMA PlainIsCall == \A s \in Seq(PlainCall) : s \in Seq(Call)
<1>1. PlainCall \subseteq Call
  BY DEF Call
<1> QED BY <1>1

LEMMA TokenCalls ==
  \A type : type \in {"WHITESPACE", "DELIMITER", "PARENTHESIS_OPEN", "PARENTHESIS_CLOSE", "PREFIX",
     "MNEMONIC", "REGISTER", "ADDRESS_ABS", "ADDRESS_REL", "DISPLACEMENT", "IMMEDIATE", "TYPECAST",
     "DECORATOR"} => Token(type) \in Seq(PlainCall)
<1> SUFFICES ASSUME NEW type \in {"WHITESPACE", "DELIMITER", "PARENTHESIS_OPEN",
                "PARENTHESIS_CLOSE", "PREFIX", "MNEMONIC", "REGISTER", "ADDRESS_ABS",
                "ADDRESS_REL", "DISPLACEMENT", "IMMEDIATE", "TYPECAST", "DECORATOR"}
             PROVE  Token(type) \in Seq(PlainCall)
  OBVIOUS
<1>1. type \in DOMAIN TokenType
  BY DEF TokenType
<1>2. [do |-> "token", arg |-> type] \in PlainCall
  BY <1>1 DEF PlainCall
<1> QED BY <1>2 DEF Token

LEMMA StaticCalls == \A name \in GlyphSet : Static(name) \in Seq(PlainCall)
<1> SUFFICES ASSUME NEW name \in GlyphSet PROVE Static(name) \in Seq(PlainCall)
  OBVIOUS
<1>1. [do |-> "static", arg |-> name] \in PlainCall
  BY DEF PlainCall
<1> QED BY <1>1 DEF Static

LEMMA TextCalls == \A glyph \in GlyphSet : Text(glyph) \in Seq(PlainCall)
<1> SUFFICES ASSUME NEW glyph \in GlyphSet PROVE Text(glyph) \in Seq(PlainCall)
  OBVIOUS
<1>1. [do |-> "text", arg |-> glyph] \in PlainCall
  BY DEF PlainCall
<1> QED BY <1>1 DEF Text

LEMMA FailCalls == Fail \in Seq(Call)
<1>1. [do |-> "fail", arg |-> "INVALID_ARGUMENT"] \in Call
  BY DEF Call
<1> QED BY <1>1 DEF Fail

LEMMA RegisterCalls ==
  \A c : \A reg \in GlyphSet : PrintRegister(c, reg) \in Seq(PlainCall)
<1>1. "REGISTER" \in GlyphSet
  BY GlyphAssumption DEF FixedStrings
<1> QED BY <1>1, StaticCalls, TextCalls, TokenCalls, CallsConcat DEF PrintRegister

\* All fixed strings and words at once.
LEMMA FixedCalls ==
  /\ \A name \in FixedStrings : Static(name) \in Seq(PlainCall)
  /\ \A name \in FixedWords : Text(name) \in Seq(PlainCall)
BY GlyphAssumption, StaticCalls, TextCalls

LEMMA EffectiveCalls ==
  \A attributes, value : PrintEffective(attributes, value) \in Seq(PlainCall)
<1> SUFFICES ASSUME NEW attributes, NEW value
             PROVE  PrintEffective(attributes, value) \in Seq(PlainCall)
  OBVIOUS
<1>1. \A name \in {"LOCK", "XACQUIRE", "REPNE", "BND", "XRELEASE", "REP", "REPE"} :
        /\ Static(name) \in Seq(PlainCall)
        /\ Maybe(name \in attributes, Static(name)) \in Seq(PlainCall)
  BY FixedCalls, CallsMaybe DEF FixedStrings
<1>2. <<>> \in Seq(PlainCall)
  OBVIOUS
<1> QED BY <1>1, <1>2, CallsConcat DEF PrintEffective

LEMMA IgnoredCalls == \A value : PrintIgnored(value) \in Seq(PlainCall)
<1> SUFFICES ASSUME NEW value PROVE PrintIgnored(value) \in Seq(PlainCall)
  OBVIOUS
<1>1. \A name \in {"REX", "LOCK", "CS", "SS", "DS", "ES", "FS", "GS"} :
        Static(name) \in Seq(PlainCall)
  BY FixedCalls DEF FixedStrings
<1>2. /\ Token("PREFIX") \in Seq(PlainCall) /\ Token("WHITESPACE") \in Seq(PlainCall)
      /\ Text("NUMBER") \in Seq(PlainCall) /\ Text("SPACE") \in Seq(PlainCall)
  BY FixedCalls, TokenCalls DEF FixedWords
<1> QED BY <1>1, <1>2, CallsConcat DEF PrintIgnored

LEMMA FirstNamedCalls ==
  \A attributes : FirstNamed(attributes, <<"REP", "REPE", "REPNE">>) \in Seq(PlainCall)
<1> SUFFICES ASSUME NEW attributes
             PROVE  FirstNamed(attributes, <<"REP", "REPE", "REPNE">>) \in Seq(PlainCall)
  OBVIOUS
<1> DEFINE names == <<"REP", "REPE", "REPNE">>
           has == {k \in DOMAIN names : names[k] \in attributes}
           first == CHOOSE k \in has : \A j \in has : k <= j
<1>1. has \subseteq 1 .. 3 /\ \A k \in 1 .. 3 : names[k] \in {"REP", "REPE", "REPNE"}
  OBVIOUS
<1> HIDE DEF has, names
<1>2. ASSUME has # {} PROVE first \in has
  <2>1. \E k \in has : \A j \in has : k <= j
    <3>1. CASE 1 \in has
      <4>1. \A j \in has : 1 <= j
        BY <1>1
      <4> QED BY <3>1, <4>1, Zenon
    <3>2. CASE 1 \notin has /\ 2 \in has
      <4>1. \A j \in has : 2 <= j
        BY <1>1, <3>2
      <4> QED BY <3>2, <4>1, Zenon
    <3>3. CASE 1 \notin has /\ 2 \notin has
      <4>1. \A j \in has : j = 3
        BY <1>1, <3>3
      <4>2. 3 \in has
        BY <1>2, <4>1
      <4> QED BY <4>1, <4>2
    <3> QED BY <3>1, <3>2, <3>3
  <2> QED BY <2>1
<1> HIDE DEF first
<1>3. has # {} => Static(names[first]) \in Seq(PlainCall)
  BY <1>1, <1>2, FixedCalls DEF FixedStrings
<1> QED BY <1>3, CallsMaybe DEF FirstNamed, has, names, first

\* The contexts of the instructions the decoder returns.
Describes(c) == c.insn \in Instructions

LEMMA PrefixCalls == \A c : Describes(c) => PrintPrefixes(c) \in Seq(PlainCall)
<1> SUFFICES ASSUME NEW c, Describes(c) PROVE PrintPrefixes(c) \in Seq(PlainCall)
  OBVIOUS
<1> DEFINE raw == c.insn.prefixes
           attributes == c.insn.attributes
           One(p) == IF p.type = "EFFECTIVE" THEN PrintEffective(attributes, p.value)
                                             ELSE PrintIgnored(p.value)
           lists == [n \in DOMAIN raw |-> One(raw[n])]
<1>1. raw \in Seq(ElementsOf(raw))
  BY InstructionAssumption DEF Describes
<1>2. \A p : One(p) \in Seq(PlainCall)
  BY EffectiveCalls, IgnoredCalls
<1> HIDE DEF One
<1>3. Len(raw) \in Nat /\ DOMAIN raw = 1 .. Len(raw)
  BY <1>1
<1> HIDE DEF raw
<1>4. \A k \in 1 .. Len(raw) : lists[k] \in Seq(PlainCall)
  BY <1>2, <1>3
<1> HIDE DEF lists
<1>5. InTurn(lists, Len(raw)) \in Seq(PlainCall)
  <2>1. Len(raw) \in 0 .. Len(raw)
    BY <1>3
  <2> QED BY <1>3, <1>4, <2>1, InTurnIn
<1>6. \A name \in {"XACQUIRE", "XRELEASE", "LOCK", "BND", "NOTRACK"} :
        Maybe(name \in attributes, Static(name)) \in Seq(PlainCall)
  BY FixedCalls, CallsMaybe DEF FixedStrings
<1>7. FirstNamed(attributes, <<"REP", "REPE", "REPNE">>) \in Seq(PlainCall)
  BY FirstNamedCalls
<1>8. CASE c.f.detailed_prefixes
  BY <1>5, <1>8 DEF PrintPrefixes, raw, attributes, lists, One
<1>9. CASE ~c.f.detailed_prefixes
  <2> DEFINE Named(name) == Maybe(name \in attributes, Static(name))
             groups == Named("XACQUIRE") \o Named("XRELEASE") \o Named("LOCK") \o Named("BND")
                         \o Named("NOTRACK") \o FirstNamed(attributes, <<"REP", "REPE", "REPNE">>)
  <2>1. groups \in Seq(PlainCall)
    BY <1>6, <1>7, CallsConcat
  <2>2. PrintPrefixes(c) = groups
    BY <1>9 DEF PrintPrefixes
  <2> QED BY <2>1, <2>2
<1> QED BY <1>8, <1>9

LEMMA DecoratorCalls ==
  \A c : Describes(c) =>
    \A d \in {"MASK", "BC", "RC", "SAE", "SWIZZLE", "CONVERSION", "EH", "APX_NF", "APX_DFV"} :
      PrintDecorator(c, d) \in Seq(PlainCall)
<1> SUFFICES ASSUME NEW c, Describes(c),
                    NEW d \in {"MASK", "BC", "RC", "SAE", "SWIZZLE", "CONVERSION", "EH", "APX_NF",
                               "APX_DFV"}
             PROVE  PrintDecorator(c, d) \in Seq(PlainCall)
  OBVIOUS
<1>1. /\ Static("DECO_BEGIN") \in Seq(PlainCall) /\ Static("DECO_END") \in Seq(PlainCall)
      /\ \A b, name : name \in {"DECO_ZERO", "DECO_BC", "DECO_RC", "DECO_RC_SAE", "DECO_SAE",
           "DECO_SWIZZLE", "DECO_CONVERSION", "DECO_EH", "DECO_NF", "DECO_DFV"} =>
           Maybe(b, Static(name)) \in Seq(PlainCall)
  BY FixedCalls, CallsMaybe DEF FixedStrings
<1>2. PrintDecorator(c, "MASK") \in Seq(PlainCall)
  <2> DEFINE shown == Static("DECO_BEGIN") \o PrintRegister(c, c.insn.mask) \o Static("DECO_END")
                        \o Maybe(c.insn.zeroing, Static("DECO_ZERO"))
  <2>1. c.insn.mask # "K0" => shown \in Seq(PlainCall)
    <3>1. c.insn.mask # "K0" => PrintRegister(c, c.insn.mask) \in Seq(PlainCall)
      BY InstructionAssumption, RegisterCalls DEF Describes
    <3> QED BY <1>1, <3>1, CallsConcat
  <2>2. PrintDecorator(c, "MASK") = Maybe(c.insn.mask # "K0", shown)
    BY DEF PrintDecorator
  <2> HIDE DEF shown
  <2> QED BY <2>1, <2>2, CallsMaybe
<1>3. PrintDecorator(c, "BC") \in Seq(PlainCall) /\ PrintDecorator(c, "RC") \in Seq(PlainCall)
  BY <1>1 DEF PrintDecorator
<1>4. PrintDecorator(c, "SAE") \in Seq(PlainCall) /\ PrintDecorator(c, "SWIZZLE") \in Seq(PlainCall)
  BY <1>1 DEF PrintDecorator
<1>5. /\ PrintDecorator(c, "CONVERSION") \in Seq(PlainCall)
      /\ PrintDecorator(c, "EH") \in Seq(PlainCall)
  BY <1>1 DEF PrintDecorator
<1>6. /\ PrintDecorator(c, "APX_NF") \in Seq(PlainCall)
      /\ PrintDecorator(c, "APX_DFV") \in Seq(PlainCall)
  BY <1>1 DEF PrintDecorator
<1> QED BY <1>2, <1>3, <1>4, <1>5, <1>6

LEMMA MnemonicCalls == \A c : PrintMnemonic(c) \in Seq(PlainCall)
<1> SUFFICES ASSUME NEW c PROVE PrintMnemonic(c) \in Seq(PlainCall)
  OBVIOUS
<1>1. /\ Token("MNEMONIC") \in Seq(PlainCall) /\ Text("NAME") \in Seq(PlainCall)
      /\ \A b, word : word \in {"FAR", "SHORT", "NEAR", "NF", "SIZE"} =>
           Text(word) \in Seq(PlainCall) /\ Maybe(b, Text(word)) \in Seq(PlainCall)
  BY TokenCalls, FixedCalls, CallsMaybe DEF FixedWords
<1>2. BranchSize(c) \in Seq(PlainCall)
  <2>1. c.insn.branch \in {"SHORT", "NEAR"} => Text(c.insn.branch) \in Seq(PlainCall)
    BY <1>1
  <2> QED BY <2>1, CallsMaybe DEF BranchSize
<1>3. Suffix(c) \in Seq(PlainCall)
  BY <1>1 DEF Suffix
<1>4. IntelPrintMnemonic(c) \in Seq(PlainCall)
  BY <1>1, <1>2, <1>3, CallsConcat DEF IntelPrintMnemonic
<1>5. ATTPrintMnemonic(c) \in Seq(PlainCall)
  BY <1>1, <1>2, <1>3, CallsConcat DEF ATTPrintMnemonic
<1> QED BY <1>4, <1>5 DEF PrintMnemonic

(* What is printed before the operands never fails a check.                 *)
LEMMA HeadCalls ==
  \A c : Describes(c) => FormatHead(c) \in Seq(PlainCall) /\ FormatDfv(c) \in Seq(PlainCall)
<1> SUFFICES ASSUME NEW c, Describes(c)
             PROVE  FormatHead(c) \in Seq(PlainCall) /\ FormatDfv(c) \in Seq(PlainCall)
  OBVIOUS
<1>1. \A b : /\ Maybe(b, PrintDecorator(c, "APX_NF")) \in Seq(PlainCall)
             /\ Maybe(b, PrintDecorator(c, "APX_DFV")) \in Seq(PlainCall)
  BY DecoratorCalls, CallsMaybe
<1>2. FormatHead(c) \in Seq(PlainCall)
  BY <1>1, PrefixCalls, MnemonicCalls, CallsConcat DEF FormatHead
<1>3. /\ Static("DELIM_MNEMONIC") \in Seq(PlainCall) /\ Token("IMMEDIATE") \in Seq(PlainCall)
      /\ \A b : Maybe(b, Static("IMMEDIATE")) \in Seq(PlainCall)
      /\ Text("NUMBER") \in Seq(PlainCall)
  BY TokenCalls, FixedCalls, CallsMaybe DEF FixedStrings, FixedWords
<1>4. FormatDfv(c) \in Seq(PlainCall)
  BY <1>3, CallsConcat, CallsMaybe DEF FormatDfv
<1> QED BY <1>2, <1>4

(* Neither do the decorators.                                               *)
LEMMA DecorationCalls ==
  \A c, n : Describes(c) => FormatDecorators(c, n) \in Seq(PlainCall)
<1> SUFFICES ASSUME NEW c, NEW n, Describes(c) PROVE FormatDecorators(c, n) \in Seq(PlainCall)
  OBVIOUS
<1>1. \A d \in {"MASK", "BC", "RC", "SAE", "SWIZZLE", "CONVERSION", "EH"} :
        /\ PrintDecorator(c, d) \in Seq(PlainCall)
        /\ \A b : Maybe(b, PrintDecorator(c, d)) \in Seq(PlainCall)
  BY DecoratorCalls, CallsMaybe
<1> QED BY <1>1, CallsConcat, CallsMaybe DEF FormatDecorators

\* A broadcast is printed with a size in the style of MASM: it must be forced
\* or be known otherwise.
Sized(c) == c.f.style = "MASM" /\ DynamicBroadcast(c.insn) => c.f.force_memory_size

LEMMA AddressCalls ==
  \A c : HasAddress(c, c.op) =>
    /\ PrintAddressABS(c) \in Seq(PlainCall) /\ PrintAddressREL(c) \in Seq(PlainCall)
<1> SUFFICES ASSUME NEW c, HasAddress(c, c.op)
             PROVE  /\ PrintAddressABS(c) \in Seq(PlainCall)
                    /\ PrintAddressREL(c) \in Seq(PlainCall)
  OBVIOUS
<1>1. /\ Static("ADDR_RELATIVE") \in Seq(PlainCall) /\ Text("ADDRESS") \in Seq(PlainCall)
      /\ Token("ADDRESS_ABS") \in Seq(PlainCall) /\ Token("ADDRESS_REL") \in Seq(PlainCall)
      /\ \A b : Maybe(b, Text("PLUS")) \in Seq(PlainCall)
  BY TokenCalls, FixedCalls, CallsMaybe DEF FixedStrings, FixedWords
<1>2. PrintAddressMASM(c) \in Seq(PlainCall)
  BY <1>1, CallsConcat DEF PrintAddressMASM
<1>3. PrintAddressABS(c) \in Seq(PlainCall)
  BY <1>1, <1>2, CallsConcat DEF PrintAddressABS
<1>4. PrintAddressREL(c) \in Seq(PlainCall)
  BY <1>1, <1>2, CallsConcat DEF PrintAddressREL
<1> QED BY <1>3, <1>4

LEMMA NumberCalls ==
  \A c : /\ Token("IMMEDIATE") \o Text("NUMBER") \in Seq(PlainCall)
         /\ PrintIMM(c) \in Seq(PlainCall)
         /\ IntelPrintDISP(c) \in Seq(PlainCall) /\ ATTPrintDISP(c) \in Seq(PlainCall)
<1> SUFFICES ASSUME NEW c
             PROVE  /\ Token("IMMEDIATE") \o Text("NUMBER") \in Seq(PlainCall)
                    /\ PrintIMM(c) \in Seq(PlainCall)
                    /\ IntelPrintDISP(c) \in Seq(PlainCall) /\ ATTPrintDISP(c) \in Seq(PlainCall)
  OBVIOUS
<1>1. /\ Token("IMMEDIATE") \in Seq(PlainCall) /\ Token("DISPLACEMENT") \in Seq(PlainCall)
      /\ Text("NUMBER") \in Seq(PlainCall)
      /\ \A b : /\ Maybe(b, Static("IMMEDIATE")) \in Seq(PlainCall)
                /\ Maybe(b, Static("ADD")) \in Seq(PlainCall)
                /\ Maybe(b, Static("SUB")) \in Seq(PlainCall)
  BY TokenCalls, FixedCalls, CallsMaybe DEF FixedStrings, FixedWords
<1>2. Token("IMMEDIATE") \o Text("NUMBER") \in Seq(PlainCall)
  BY <1>1, CallsConcat
<1>3. PrintIMM(c) \in Seq(PlainCall)
  BY <1>1, CallsConcat DEF PrintIMM
<1>4. IntelPrintDISP(c) \in Seq(PlainCall)
  BY <1>1, CallsConcat DEF IntelPrintDISP
<1>5. ATTPrintDISP(c) \in Seq(PlainCall)
  BY <1>1, CallsConcat DEF ATTPrintDISP
<1> QED BY <1>2, <1>3, <1>4, <1>5

LEMMA TypecastCalls ==
  \A c : /\ PrintTypecast(c) \in Seq(Call)
         /\ OperandFits(c.insn, c.op) /\ c.op.type = "MEMORY" /\ Sized(c) =>
              PrintTypecast(c) \in Seq(PlainCall)
<1> SUFFICES ASSUME NEW c
             PROVE  /\ PrintTypecast(c) \in Seq(Call)
                    /\ OperandFits(c.insn, c.op) /\ c.op.type = "MEMORY" /\ Sized(c) =>
                         PrintTypecast(c) \in Seq(PlainCall)
  OBVIOUS
<1>1. /\ Static("SIZE_BCST") \in Seq(PlainCall)
      /\ \A b : Maybe(b, Static("SIZE")) \in Seq(PlainCall)
  BY FixedCalls, CallsMaybe DEF FixedStrings
<1>2. PrintTypecast(c) \in Seq(Call)
  BY <1>1, FailCalls, PlainIsCall DEF PrintTypecast
<1>3. ASSUME OperandFits(c.insn, c.op), c.op.type = "MEMORY", Sized(c)
      PROVE  PrintTypecast(c) \in Seq(PlainCall)
  <2>1. CASE c.f.style = "MASM" /\ DynamicBroadcast(c.insn)
    <3>1. GetExplicitSize(c, c.op) = c.op.size
      BY <1>3, <2>1 DEF GetExplicitSize, Sized
    <3>2. c.op.size \in {16, 32, 64}
      BY <1>3, <2>1 DEF OperandFits
    <3> QED BY <1>1, <2>1, <3>1, <3>2 DEF PrintTypecast
  <2>2. CASE ~(c.f.style = "MASM" /\ DynamicBroadcast(c.insn))
    BY <1>1, <2>2 DEF PrintTypecast
  <2> QED BY <2>1, <2>2
<1> QED BY <1>2, <1>3

LEMMA SegmentCalls == \A c : PrintSegment(c) \in Seq(PlainCall)
<1> SUFFICES ASSUME NEW c PROVE PrintSegment(c) \in Seq(PlainCall)
  OBVIOUS
<1>1. \A name \in {"ES", "CS", "FS", "GS", "SS", "DS"} : PrintRegister(c, name) \in Seq(PlainCall)
  BY RegisterCalls, GlyphAssumption DEF FixedStrings
<1>2. Static("DELIM_SEGMENT") \in Seq(PlainCall)
  BY FixedCalls DEF FixedStrings
<1> QED BY <1>1, <1>2, CallsConcat, CallsMaybe DEF PrintSegment

LEMMA MemoryCalls ==
  \A c : OperandFits(c.insn, c.op) /\ c.op.type = "MEMORY" =>
    /\ \A S \in {PlainCall, Call} :
         PrintTypecast(c) \in Seq(S) => IntelFormatOperandMEM(c) \in Seq(S)
    /\ ATTFormatOperandMEM(c) \in Seq(PlainCall)
<1> SUFFICES ASSUME NEW c, OperandFits(c.insn, c.op), c.op.type = "MEMORY"
             PROVE  /\ \A S \in {PlainCall, Call} :
                         PrintTypecast(c) \in Seq(S) => IntelFormatOperandMEM(c) \in Seq(S)
                    /\ ATTFormatOperandMEM(c) \in Seq(PlainCall)
  OBVIOUS
<1>1. \A name \in {"ADD", "MUL", "MEMORY_BEGIN", "MEMORY_END", "DELIM_MEMORY"} :
        /\ Static(name) \in Seq(PlainCall)
        /\ \A b : Maybe(b, Static(name)) \in Seq(PlainCall)
  BY FixedCalls, CallsMaybe DEF FixedStrings
<1>2. c.op.index # "NONE" => PrintRegister(c, c.op.index) \in Seq(PlainCall)
  BY RegisterCalls DEF OperandFits
<1>3. Maybe(c.op.base # "NONE", PrintRegister(c, c.op.base)) \in Seq(PlainCall)
  BY RegisterCalls, CallsMaybe DEF OperandFits
<1>4. Token("IMMEDIATE") \o Text("NUMBER") \in Seq(PlainCall)
  BY NumberCalls
<1>5. /\ Token("IMMEDIATE") \in Seq(PlainCall) /\ Text("NUMBER") \in Seq(PlainCall)
      /\ Token("DELIMITER") \in Seq(PlainCall)
  BY TokenCalls, FixedCalls DEF FixedWords
<1>6. AsAddress(c) \/ Bare(c.op) => PrintAddressABS(c) \in Seq(PlainCall)
  BY AddressCalls DEF AsAddress, Bare, Relative, HasAddress, OperandFits
<1>7. <<>> \in Seq(PlainCall)
  OBVIOUS
<1>8. IntelPrintDISP(c) \in Seq(PlainCall) /\ ATTPrintDISP(c) \in Seq(PlainCall)
  BY NumberCalls
<1>9. ASSUME NEW S \in {PlainCall, Call}, PrintTypecast(c) \in Seq(S)
      PROVE  IntelFormatOperandMEM(c) \in Seq(S)
  <2> DEFINE op == c.op
             scale == Maybe(HasScale(c), Static("MUL") \o Token("IMMEDIATE") \o Text("NUMBER"))
             index == Maybe(op.index # "NONE",
                        Maybe(op.base # "NONE", Static("ADD")) \o PrintRegister(c, op.index)
                          \o scale)
             tail == CASE Bare(op) -> PrintAddressABS(c)
                       [] ~Bare(op) /\ op.disp \in {"POSITIVE", "NEGATIVE"} -> IntelPrintDISP(c)
                       [] OTHER -> <<>>
             place == IF AsAddress(c) THEN PrintAddressABS(c)
                      ELSE Maybe(op.base # "NONE", PrintRegister(c, op.base)) \o index \o tail
             cast == Maybe(op.mem \in {"MEM", "AGEN", "VSIB"}, PrintTypecast(c))
             all == cast \o PrintSegment(c) \o Static("MEMORY_BEGIN") \o place
                      \o Static("MEMORY_END")
  <2>1. scale \in Seq(PlainCall)
    BY <1>1, <1>5, CallsConcat, CallsMaybe
  <2> HIDE DEF scale
  <2>2. index \in Seq(PlainCall)
    BY <1>1, <1>2, <2>1, CallsConcat, CallsMaybe
  <2>3. tail \in Seq(PlainCall)
    BY <1>6, <1>7, <1>8
  <2> HIDE DEF index, tail
  <2>4. place \in Seq(PlainCall)
    BY <1>3, <1>6, <2>2, <2>3, CallsConcat
  <2>5. cast \in Seq(S)
    BY <1>9, CallsMaybe
  <2>6. /\ PrintSegment(c) \in Seq(PlainCall) /\ Static("MEMORY_BEGIN") \in Seq(PlainCall)
        /\ Static("MEMORY_END") \in Seq(PlainCall)
    BY <1>1, SegmentCalls
  <2>7. IntelFormatOperandMEM(c) = all
    BY DEF IntelFormatOperandMEM, index, tail, scale
  <2> HIDE DEF cast, place
  <2>8. all \in Seq(S)
    <3>1. CASE S = PlainCall
      BY <2>4, <2>5, <2>6, <3>1, CallsConcat
    <3>2. CASE S = Call
      <4>1. /\ PrintSegment(c) \in Seq(Call) /\ Static("MEMORY_BEGIN") \in Seq(Call)
            /\ Static("MEMORY_END") \in Seq(Call) /\ place \in Seq(Call)
        BY <2>4, <2>6, PlainIsCall
      <4> QED BY <2>5, <3>2, <4>1, CallsConcat
    <3> QED BY <1>9, <3>1, <3>2
  <2> HIDE DEF all
  <2> QED BY <2>7, <2>8
<1>10. ATTFormatOperandMEM(c) \in Seq(PlainCall)
  <2> DEFINE op == c.op
             scale == Maybe(HasScale(c), Token("DELIMITER") \o Static("DELIM_MEMORY")
                                           \o Token("IMMEDIATE") \o Text("NUMBER"))
             index == Maybe(op.index # "NONE",
                        Static("DELIM_MEMORY") \o PrintRegister(c, op.index) \o scale)
             disp == Maybe(op.disp \in {"POSITIVE", "NEGATIVE"}, ATTPrintDISP(c))
             place == IF AsAddress(c) \/ Bare(op) THEN PrintAddressABS(c)
                      ELSE disp \o Static("MEMORY_BEGIN")
                             \o Maybe(op.base # "NONE", PrintRegister(c, op.base)) \o index
                             \o Static("MEMORY_END")
             all == Maybe(c.insn.branch # "NONE", Static("MUL")) \o PrintSegment(c) \o place
  <2>1. scale \in Seq(PlainCall)
    BY <1>1, <1>5, CallsConcat, CallsMaybe
  <2> HIDE DEF scale
  <2>2. index \in Seq(PlainCall)
    BY <1>1, <1>2, <2>1, CallsConcat, CallsMaybe
  <2>3. disp \in Seq(PlainCall)
    BY <1>8, CallsMaybe
  <2> HIDE DEF index, disp
  <2>4. place \in Seq(PlainCall)
    BY <1>1, <1>3, <1>6, <2>2, <2>3, CallsConcat
  <2>5. ATTFormatOperandMEM(c) = all
    BY DEF ATTFormatOperandMEM, index, disp, scale
  <2> HIDE DEF place
  <2>6. all \in Seq(PlainCall)
    BY <1>1, <2>4, SegmentCalls, CallsConcat
  <2> HIDE DEF all
  <2> QED BY <2>5, <2>6
<1> QED BY <1>9, <1>10

(* Of all that is printed only the size of a broadcast can fail its check,  *)
(* in the style of MASM and without forced sizes.                           *)
LEMMA OperandCalls ==
  \A c : OperandFits(c.insn, c.op) =>
    /\ FormatOperand(c) \in Seq(Call)
    /\ Sized(c) => FormatOperand(c) \in Seq(PlainCall)
<1> SUFFICES ASSUME NEW c, OperandFits(c.insn, c.op)
             PROVE  /\ FormatOperand(c) \in Seq(Call)
                    /\ Sized(c) => FormatOperand(c) \in Seq(PlainCall)
  OBVIOUS
<1>1. CASE c.op.type = "REGISTER"
  <2>1. PrintRegister(c, c.op.reg) \in Seq(PlainCall)
    BY <1>1, RegisterCalls DEF OperandFits
  <2>2. \A b : Maybe(b, Static("MUL")) \in Seq(PlainCall)
    BY FixedCalls, CallsMaybe DEF FixedStrings
  <2>3. FormatOperandREG(c) \in Seq(PlainCall)
    BY <2>1, <2>2, CallsConcat DEF FormatOperandREG
  <2> QED BY <1>1, <2>3, PlainIsCall DEF FormatOperand
<1>2. CASE c.op.type = "MEMORY"
  <2>1. \A S \in {PlainCall, Call} :
          PrintTypecast(c) \in Seq(S) => IntelFormatOperandMEM(c) \in Seq(S)
    BY <1>2, MemoryCalls
  <2>2. ATTFormatOperandMEM(c) \in Seq(PlainCall) /\ ATTFormatOperandMEM(c) \in Seq(Call)
    BY <1>2, MemoryCalls, PlainIsCall
  <2>3. /\ PrintTypecast(c) \in Seq(Call)
        /\ Sized(c) => PrintTypecast(c) \in Seq(PlainCall)
    BY <1>2, TypecastCalls
  <2>4. /\ IntelFormatOperandMEM(c) \in Seq(Call)
        /\ Sized(c) => IntelFormatOperandMEM(c) \in Seq(PlainCall)
    BY <2>1, <2>3
  <2>5. FormatOperand(c) = IF c.f.style = "ATT" THEN ATTFormatOperandMEM(c)
                                                ELSE IntelFormatOperandMEM(c)
    BY <1>2 DEF FormatOperand
  <2> QED BY <2>2, <2>4, <2>5
<1>3. CASE c.op.type = "POINTER"
  <2>1. Static("DELIM_SEGMENT") \in Seq(PlainCall)
    BY FixedCalls DEF FixedStrings
  <2>2. Token("IMMEDIATE") \o Text("NUMBER") \in Seq(PlainCall)
    BY NumberCalls
  <2>3. c.insn.operand_width \in {16, 32}
    BY <1>3 DEF OperandFits
  <2>4. FormatOperandPTR(c) \in Seq(PlainCall)
    BY <2>1, <2>2, <2>3, CallsConcat DEF FormatOperandPTR
  <2> QED BY <1>3, <2>4, PlainIsCall DEF FormatOperand
<1>4. CASE c.op.type = "IMMEDIATE"
  <2>1. c.op.address # "NONE" => HasAddress(c, c.op)
    BY <1>4 DEF OperandFits, HasAddress
  <2>2. FormatOperandIMM(c) \in Seq(PlainCall)
    BY <2>1, AddressCalls, NumberCalls DEF FormatOperandIMM
  <2> QED BY <1>4, <2>2, PlainIsCall DEF FormatOperand
<1> QED BY <1>1, <1>2, <1>3, <1>4 DEF OperandFits

-----------------------------------------------------------------------------
(* What calls print                                                         *)

LEMMA PrintedGlyphs == \A call \in Call : Printed(call) \in Seq(GlyphSet)
<1> SUFFICES ASSUME NEW call \in Call PROVE Printed(call) \in Seq(GlyphSet)
  OBVIOUS
<1>1. CASE call.do = "static"
  <2>1. call.arg \in GlyphSet
    BY <1>1 DEF Call, PlainCall
  <2>2. PICK n \in 1 .. 4 : DOMAIN StaticTypes(call.arg) = 1 .. n
    BY StaticTypesLength, StaticTypesSequence
  <2>3. Printed(call) = [k \in 1 .. n |-> call.arg]
    BY <1>1, <2>2 DEF Printed
  <2> QED BY <2>1, <2>2, <2>3
<1>2. CASE call.do = "text"
  <2>1. call.arg \in GlyphSet
    BY <1>2 DEF Call, PlainCall
  <2> QED BY <1>2, <2>1 DEF Printed
<1>3. CASE call.do \notin {"static", "text"}
  BY <1>3 DEF Printed
<1> QED BY <1>1, <1>2, <1>3

LEMMA StaticIsPrinted ==
  \A name \in GlyphSet : /\ Static(name) \in Seq(Call) /\ Len(Static(name)) = 1
                         /\ Head(Static(name)).do = "static"
                         /\ Len(Printed(Head(Static(name)))) >= 1
<1> SUFFICES ASSUME NEW name \in GlyphSet
             PROVE  /\ Static(name) \in Seq(Call) /\ Len(Static(name)) = 1
                    /\ Head(Static(name)).do = "static"
                    /\ Len(Printed(Head(Static(name)))) >= 1
  OBVIOUS
<1>1. Static(name) \in Seq(Call)
  BY StaticCalls, PlainIsCall
<1>2. Len(Static(name)) = 1 /\ Head(Static(name)) = [do |-> "static", arg |-> name]
  BY DEF Static
<1>3. PICK n \in 1 .. 4 : DOMAIN StaticTypes(name) = 1 .. n
  BY StaticTypesLength, StaticTypesSequence
<1>4. Printed([do |-> "static", arg |-> name]) = [k \in 1 .. n |-> name]
  BY <1>3 DEF Printed
<1>5. Len([k \in 1 .. n |-> name]) = n
  BY <1>3
<1> QED BY <1>1, <1>2, <1>3, <1>4, <1>5

\* What a sequence of calls prints is what its first call prints, and then
\* what the others print.
LEMMA SpellNone == Spell(<<>>) = <<>>
BY InTurnNone DEF Spell

LEMMA SpellGlyphs == \A s \in Seq(Call) : Spell(s) \in Seq(GlyphSet)
<1> SUFFICES ASSUME NEW s \in Seq(Call) PROVE Spell(s) \in Seq(GlyphSet)
  OBVIOUS
<1> DEFINE lists == [n \in DOMAIN s |-> Printed(s[n])]
<1>1. \A k \in 1 .. Len(s) : lists[k] \in Seq(GlyphSet)
  BY PrintedGlyphs
<1>2. Len(s) \in Nat /\ Len(s) \in 0 .. Len(s)
  OBVIOUS
<1> HIDE DEF lists
<1>3. InTurn(lists, Len(s)) \in Seq(GlyphSet)
  BY <1>1, <1>2, InTurnIn
<1> QED BY <1>3 DEF Spell, lists

LEMMA GlyphsConcat ==
  \A s, t, u \in Seq(GlyphSet) : s \o t \in Seq(GlyphSet) /\ (s \o t) \o u = s \o (t \o u)
BY ConcatAssociative

LEMMA SpellFirst ==
  \A s \in Seq(Call) : s # <<>> => Spell(s) = Printed(Head(s)) \o Spell(Tail(s))
<1> SUFFICES ASSUME NEW s \in Seq(Call), s # <<>>
             PROVE  Spell(s) = Printed(Head(s)) \o Spell(Tail(s))
  OBVIOUS
<1> DEFINE t == Tail(s)
           lists == [n \in DOMAIN s |-> Printed(s[n])]
           rest == [n \in DOMAIN t |-> Printed(t[n])]
           S == {k \in Nat : k <= Len(t) => InTurn(lists, k + 1) = Printed(Head(s)) \o InTurn(rest, k)}
<1>1. /\ t \in Seq(Call) /\ Len(s) = Len(t) + 1 /\ Len(t) \in Nat /\ Head(s) = s[1]
      /\ \A k \in 1 .. Len(t) : t[k] = s[k + 1]
      /\ DOMAIN s = 1 .. Len(s) /\ DOMAIN t = 1 .. Len(t)
  OBVIOUS
<1> HIDE DEF t
<1>2. \A k \in 1 .. Len(s) : lists[k] = Printed(s[k]) /\ lists[k] \in Seq(GlyphSet)
  BY <1>1, PrintedGlyphs
<1>3. \A k \in 1 .. Len(t) : rest[k] = Printed(t[k]) /\ rest[k] \in Seq(GlyphSet)
  BY <1>1, PrintedGlyphs
<1> HIDE DEF lists, rest
<1>4. \A k \in 0 .. Len(t) : InTurn(rest, k) \in Seq(GlyphSet)
  BY <1>1, <1>3, InTurnIn
<1>5. Printed(Head(s)) \in Seq(GlyphSet)
  BY <1>1, PrintedGlyphs
<1>6. 0 \in S
  <2>1. InTurn(lists, 0 + 1) = <<>> \o lists[0 + 1]
    BY InTurnNext, InTurnNone
  <2>2. lists[0 + 1] = Printed(Head(s))
    BY <1>1, <1>2
  <2>3. InTurn(rest, 0) = <<>>
    BY InTurnNone
  <2> QED BY <1>5, <2>1, <2>2, <2>3
<1>7. ASSUME NEW k \in Nat, k \in S PROVE k + 1 \in S
  <2> SUFFICES ASSUME k + 1 <= Len(t)
               PROVE  InTurn(lists, (k + 1) + 1) = Printed(Head(s)) \o InTurn(rest, k + 1)
    OBVIOUS
  <2>1. /\ k + 1 \in Nat /\ k + 1 \in 1 .. Len(t) /\ k \in 0 .. Len(t)
        /\ (k + 1) + 1 \in 1 .. Len(s) /\ k <= Len(t)
    BY <1>1
  <2>2. InTurn(lists, (k + 1) + 1) = InTurn(lists, k + 1) \o lists[(k + 1) + 1]
    BY <2>1, InTurnNext
  <2>3. InTurn(lists, k + 1) = Printed(Head(s)) \o InTurn(rest, k)
    BY <1>7, <2>1
  <2>4. lists[(k + 1) + 1] = rest[k + 1] /\ rest[k + 1] \in Seq(GlyphSet)
    BY <1>1, <1>2, <1>3, <2>1
  <2>5. InTurn(rest, k + 1) = InTurn(rest, k) \o rest[k + 1]
    BY <2>1, InTurnNext
  <2>6. InTurn(rest, k) \in Seq(GlyphSet)
    BY <1>4, <2>1
  <2>7. (Printed(Head(s)) \o InTurn(rest, k)) \o rest[k + 1]
          = Printed(Head(s)) \o (InTurn(rest, k) \o rest[k + 1])
    BY <1>5, <2>4, <2>6, GlyphsConcat
  <2> QED BY <2>2, <2>3, <2>4, <2>5, <2>7
<1> HIDE DEF S
<1>8. \A k \in Nat : k \in S
  BY <1>6, <1>7, SetInduction
<1>9. Spell(s) = InTurn(lists, Len(s)) /\ Spell(t) = InTurn(rest, Len(t))
  BY DEF Spell, lists, rest
<1>10. InTurn(lists, Len(t) + 1) = Printed(Head(s)) \o InTurn(rest, Len(t))
  BY <1>1, <1>8 DEF S
<1>11. Spell(s) = Printed(Head(s)) \o Spell(t)
  BY <1>1, <1>9, <1>10
<1> QED BY <1>11 DEF t

-----------------------------------------------------------------------------
(* The sentence, clause by clause                                           *)

Count == Len(insn.operands)

LEMMA OperandsOf ==
  insn \in Instructions =>
    /\ Count \in Nat /\ DOMAIN insn.operands = 1 .. Count
    /\ \A k \in 1 .. Count : OperandFits(insn, insn.operands[k])
<1> SUFFICES ASSUME insn \in Instructions
             PROVE  /\ Count \in Nat /\ DOMAIN insn.operands = 1 .. Count
                    /\ \A k \in 1 .. Count : OperandFits(insn, insn.operands[k])
  OBVIOUS
<1> DEFINE operands == insn.operands
<1>1. /\ operands \in Seq(ElementsOf(operands))
      /\ \A op \in ElementsOf(operands) : OperandFits(insn, op)
  BY InstructionAssumption
<1>2. \A k \in DOMAIN operands : operands[k] \in ElementsOf(operands)
  BY DEF ElementsOf
<1> HIDE DEF operands
<1>3. Len(operands) \in Nat /\ DOMAIN operands = 1 .. Len(operands)
  BY <1>1
<1> QED BY <1>1, <1>2, <1>3 DEF Count, operands

\* Positions in the order of the style, and the operands there.
LEMMA NthTwice ==
  ASSUME insn \in Instructions
  PROVE  /\ \A n \in Int : Nth(n) \in Int /\ Nth(Nth(n)) = n
         /\ \A n \in Int : n \in 1 .. Count <=> Nth(n) \in 1 .. Count
         /\ \A n \in Int : After(n) \in Int /\ Nth(After(n)) = Nth(n) + 1
         /\ First \in Int /\ Nth(First) = 1
<1>1. PICK m \in Nat : m = Len(insn.operands) /\ m = Count
  BY OperandsOf DEF Count
<1>2. CASE f.style = "ATT"
  <2>1. \A n : Nth(n) = m + 1 - n /\ After(n) = n - 1
    BY <1>1, <1>2 DEF Nth, After
  <2>2. First = m
    BY <1>1, <1>2 DEF First
  <2> QED BY <1>1, <2>1, <2>2
<1>3. CASE f.style # "ATT"
  <2>1. \A n : Nth(n) = n /\ After(n) = n + 1
    BY <1>3 DEF Nth, After
  <2>2. First = 1
    BY <1>3 DEF First
  <2> QED BY <1>1, <2>1, <2>2
<1> QED BY <1>2, <1>3

LEMMA ContextDescribes ==
  ASSUME insn \in Instructions
  PROVE  /\ \A op : Describes(ContextOf(op))
         /\ \A k \in 1 .. Count :
              OperandFits(ContextOf(insn.operands[k]).insn, ContextOf(insn.operands[k]).op)
BY OperandsOf DEF ContextOf, Describes

LEMMA PartsAreGlyphs ==
  ASSUME insn \in Instructions
  PROVE  /\ Mnemonic \in Seq(GlyphSet) /\ Flags \in Seq(GlyphSet)
         /\ \A n : Delimiter(n) \in Seq(GlyphSet) /\ Len(Delimiter(n)) >= 1
         /\ \A k \in 1 .. Count : /\ Spell(FormatOperand(ContextOf(insn.operands[k]))) \in Seq(GlyphSet)
                                  /\ Phrase(k) \in Seq(GlyphSet)
<1>1. Mnemonic \in Seq(GlyphSet) /\ Flags \in Seq(GlyphSet)
  BY ContextDescribes, HeadCalls, PlainIsCall, SpellGlyphs DEF Mnemonic, Flags
<1>2. ASSUME NEW n PROVE Delimiter(n) \in Seq(GlyphSet) /\ Len(Delimiter(n)) >= 1
  <2>1. "DELIM_MNEMONIC" \in GlyphSet /\ "DELIM_OPERAND" \in GlyphSet
    BY GlyphAssumption DEF FixedStrings
  <2>2. \A name \in GlyphSet : Spell(Static(name)) \in Seq(GlyphSet) /\ Len(Spell(Static(name))) >= 1
    <3> SUFFICES ASSUME NEW name \in GlyphSet
                 PROVE  Spell(Static(name)) \in Seq(GlyphSet) /\ Len(Spell(Static(name))) >= 1
      OBVIOUS
    <3>1. PICK s : s = Static(name)
      OBVIOUS
    <3>2. s \in Seq(Call) /\ Len(s) = 1 /\ Len(Printed(Head(s))) >= 1
      BY <3>1, StaticIsPrinted
    <3>3. s # <<>> /\ Head(s) \in Call /\ Tail(s) = <<>>
      <4>1. s # <<>> /\ Head(s) \in Call /\ Tail(s) \in Seq(Call) /\ Len(Tail(s)) = 0
        BY <3>2
      <4> QED BY <4>1, EmptySeq
    <3>4. Spell(s) = Printed(Head(s)) \o <<>>
      BY <3>2, <3>3, SpellFirst, SpellNone
    <3>5. Printed(Head(s)) \in Seq(GlyphSet)
      BY <3>3, PrintedGlyphs
    <3>6. Spell(s) = Printed(Head(s))
      BY <3>4, <3>5
    <3> QED BY <3>1, <3>2, <3>5, <3>6
  <2> QED BY <2>1, <2>2 DEF Delimiter
<1>3. ASSUME NEW k \in 1 .. Count
      PROVE  /\ Spell(FormatOperand(ContextOf(insn.operands[k]))) \in Seq(GlyphSet)
             /\ Phrase(k) \in Seq(GlyphSet)
  <2> DEFINE c == ContextOf(insn.operands[k])
  <2>1. Describes(c) /\ OperandFits(c.insn, c.op)
    BY ContextDescribes
  <2> HIDE DEF c
  <2>2. FormatOperand(c) \in Seq(Call) /\ FormatDecorators(c, k) \in Seq(Call)
    BY <2>1, OperandCalls, DecorationCalls, PlainIsCall
  <2>3. Spell(FormatOperand(c)) \in Seq(GlyphSet) /\ Spell(FormatDecorators(c, k)) \in Seq(GlyphSet)
    BY <2>2, SpellGlyphs
  <2>4. Spell(FormatOperand(c)) \o Maybe(whole, Spell(FormatDecorators(c, k))) \in Seq(GlyphSet)
    BY <2>3 DEF Maybe
  <2> QED BY <2>3, <2>4 DEF Phrase, c
<1> QED BY <1>1, <1>2, <1>3

\* The sentence up to the n-th clause.
Front(n) == Mnemonic \o Flags \o InTurn(Clauses, n)

LEMMA ClauseGlyphs ==
  ASSUME insn \in Instructions
  PROVE  \A n \in 1 .. Count :
           /\ Clauses[n] \in Seq(GlyphSet)
           /\ Wanted(n) => Clauses[n] = Delimiter(n) \o Phrase(Nth(n)) /\ Len(Clauses[n]) >= 1
           /\ ~Wanted(n) => Clauses[n] = <<>>
<1> SUFFICES ASSUME NEW n \in 1 .. Count
             PROVE  /\ Clauses[n] \in Seq(GlyphSet)
                    /\ Wanted(n) => /\ Clauses[n] = Delimiter(n) \o Phrase(Nth(n))
                                    /\ Len(Clauses[n]) >= 1
                    /\ ~Wanted(n) => Clauses[n] = <<>>
  OBVIOUS
<1>1. Nth(n) \in 1 .. Count
  BY OperandsOf, NthTwice
<1>2. /\ Delimiter(n) \in Seq(GlyphSet) /\ Len(Delimiter(n)) >= 1
      /\ Phrase(Nth(n)) \in Seq(GlyphSet)
  BY <1>1, PartsAreGlyphs
<1>3. Clauses[n] = Maybe(Wanted(n), Delimiter(n) \o Phrase(Nth(n)))
  BY OperandsOf DEF Clauses
<1>4. PICK d, p : d = Delimiter(n) /\ p = Phrase(Nth(n))
  OBVIOUS
<1>5. /\ d \o p \in Seq(GlyphSet) /\ Len(d \o p) >= 1 /\ <<>> \in Seq(GlyphSet)
  BY <1>2, <1>4
<1> QED BY <1>3, <1>4, <1>5 DEF Maybe

LEMMA FrontGlyphs ==
  ASSUME insn \in Instructions
  PROVE  /\ Front(0) = Mnemonic \o Flags
         /\ \A n \in 0 .. Count : InTurn(Clauses, n) \in Seq(GlyphSet) /\ Front(n) \in Seq(GlyphSet)
         /\ \A n \in 0 .. Count : n + 1 <= Count => Front(n + 1) = Front(n) \o Clauses[n + 1]
<1>1. Mnemonic \in Seq(GlyphSet) /\ Flags \in Seq(GlyphSet)
  BY PartsAreGlyphs
<1>2. /\ Count \in Nat
      /\ \A n \in 1 .. Count : Clauses[n] \in Seq(GlyphSet)
  BY OperandsOf, ClauseGlyphs
<1>3. \A n \in 0 .. Count : InTurn(Clauses, n) \in Seq(GlyphSet)
  <2>1. PICK lists, m : lists = Clauses /\ m = Count
    OBVIOUS
  <2>2. m \in Nat /\ \A n \in 1 .. m : lists[n] \in Seq(GlyphSet)
    BY <1>2, <2>1
  <2>3. \A n \in 0 .. m : InTurn(lists, n) \in Seq(GlyphSet)
    BY <2>2, InTurnIn
  <2> QED BY <2>1, <2>3
<1>4. PICK m : m = Mnemonic \o Flags /\ m \in Seq(GlyphSet)
  <2>1. Mnemonic \o Flags \in Seq(GlyphSet)
    BY <1>1
  <2> QED BY <2>1
<1>5. \A n \in 0 .. Count : Front(n) = m \o InTurn(Clauses, n) /\ Front(n) \in Seq(GlyphSet)
  BY <1>3, <1>4 DEF Front
<1>6. Front(0) = m
  <2>1. 0 \in 0 .. Count /\ InTurn(Clauses, 0) = <<>>
    BY <1>2, InTurnNone
  <2>2. m \o <<>> = m
    BY <1>4
  <2> QED BY <1>5, <2>1, <2>2
<1>7. ASSUME NEW n \in 0 .. Count, n + 1 <= Count
      PROVE  Front(n + 1) = Front(n) \o Clauses[n + 1]
  <2>1. n \in Nat /\ n + 1 \in 0 .. Count /\ n + 1 \in 1 .. Count
    BY <1>2, <1>7
  <2>2. InTurn(Clauses, n + 1) = InTurn(Clauses, n) \o Clauses[n + 1]
    BY <2>1, InTurnNext
  <2>3. Front(n + 1) = m \o (InTurn(Clauses, n) \o Clauses[n + 1])
    BY <1>5, <2>1, <2>2
  <2>4. (m \o InTurn(Clauses, n)) \o Clauses[n + 1] = m \o (InTurn(Clauses, n) \o Clauses[n + 1])
    BY <1>2, <1>3, <1>4, <2>1, GlyphsConcat
  <2> QED BY <1>5, <2>3, <2>4
<1> QED BY <1>3, <1>4, <1>5, <1>6, <1>7

\* Nothing stands behind the mnemonic just when there are no flags and none of
\* the operands so far is printed.
LEMMA FrontLength ==
  ASSUME insn \in Instructions, NEW n \in 0 .. Count
  PROVE  /\ Len(Front(n)) >= Len(Mnemonic)
         /\ Len(Front(n)) = Len(Mnemonic) <=> Flags = <<>> /\ \A i \in 1 .. n : ~Wanted(i)
<1> DEFINE Said(k) == InTurn(Clauses, k)
           None(k) == \A i \in 1 .. k : ~Wanted(i)
           S == {k \in Nat : k <= Count => (Len(Said(k)) = 0 <=> None(k))}
<1>1. Count \in Nat /\ \A k \in 0 .. Count : Said(k) \in Seq(GlyphSet)
  BY OperandsOf, FrontGlyphs
<1>2. ASSUME NEW k \in 1 .. Count
      PROVE  /\ Clauses[k] \in Seq(GlyphSet)
             /\ Len(Clauses[k]) = 0 <=> ~Wanted(k)
  <2>1. /\ Clauses[k] \in Seq(GlyphSet)
        /\ Wanted(k) => Len(Clauses[k]) >= 1
        /\ ~Wanted(k) => Clauses[k] = <<>>
    BY ClauseGlyphs
  <2> QED BY <2>1
<1>3. Said(0) = <<>> /\ \A k \in Nat : Said(k + 1) = Said(k) \o Clauses[k + 1]
  BY InTurnNext, InTurnNone
<1>4. \A k \in Nat : None(k + 1) <=> None(k) /\ ~Wanted(k + 1)
  <2> SUFFICES ASSUME NEW k \in Nat PROVE None(k + 1) <=> None(k) /\ ~Wanted(k + 1)
    OBVIOUS
  <2>1. \A i : i \in 1 .. k + 1 <=> i \in 1 .. k \/ i = k + 1
    OBVIOUS
  <2> QED BY <2>1, Zenon
<1>5. None(0)
  OBVIOUS
<1> HIDE DEF Said, None
<1>6. 0 \in S
  BY <1>3, <1>5
<1>7. ASSUME NEW k \in Nat, k \in S PROVE k + 1 \in S
  <2> SUFFICES ASSUME k + 1 <= Count PROVE Len(Said(k + 1)) = 0 <=> None(k + 1)
    OBVIOUS
  <2>1. k \in 0 .. Count /\ k + 1 \in 1 .. Count /\ (Len(Said(k)) = 0 <=> None(k))
    BY <1>1, <1>7
  <2>2. /\ Said(k) \in Seq(GlyphSet) /\ Clauses[k + 1] \in Seq(GlyphSet)
        /\ Len(Clauses[k + 1]) = 0 <=> ~Wanted(k + 1)
    BY <1>1, <1>2, <2>1
  <2>3. Said(k + 1) = Said(k) \o Clauses[k + 1]
    BY <1>3
  <2>4. /\ Len(Said(k + 1)) = Len(Said(k)) + Len(Clauses[k + 1])
        /\ Len(Said(k)) \in Nat /\ Len(Clauses[k + 1]) \in Nat
    BY <2>2, <2>3
  <2>5. Len(Said(k + 1)) = 0 <=> Len(Said(k)) = 0 /\ Len(Clauses[k + 1]) = 0
    BY <2>4
  <2>6. None(k + 1) <=> None(k) /\ ~Wanted(k + 1)
    BY <1>4
  <2> QED BY <2>1, <2>2, <2>5, <2>6
<1>8. \A k \in Nat : k \in S
  <2> HIDE DEF S
  <2> QED BY <1>6, <1>7, SetInduction
<1>9. n \in Nat /\ n <= Count /\ (Len(Said(n)) = 0 <=> None(n))
  BY <1>1, <1>8
<1>10. Mnemonic \in Seq(GlyphSet) /\ Flags \in Seq(GlyphSet) /\ Said(n) \in Seq(GlyphSet)
  BY <1>1, PartsAreGlyphs
<1>11. Front(n) = (Mnemonic \o Flags) \o Said(n)
  BY DEF Front, Said
<1>12. /\ Len(Front(n)) = Len(Mnemonic) + Len(Flags) + Len(Said(n))
       /\ Len(Mnemonic) \in Nat /\ Len(Flags) \in Nat /\ Len(Said(n)) \in Nat
       /\ Len(Flags) = 0 <=> Flags = <<>>
  BY <1>10, <1>11
<1> QED BY <1>9, <1>12 DEF None

\* One sequence of glyphs begins another.
Beginning(s, t) == \E r \in Seq(GlyphSet) : t = s \o r

LEMMA BeginningLength ==
  ASSUME NEW s \in Seq(GlyphSet), NEW t \in Seq(GlyphSet), Beginning(s, t)
  PROVE  Len(s) <= Len(t) /\ s = SubSeq(t, 1, Len(s))
<1>1. PICK r \in Seq(GlyphSet) : t = s \o r
  BY DEF Beginning
<1>2. /\ Len(t) = Len(s) + Len(r) /\ Len(s) \in Nat /\ Len(r) \in Nat
      /\ \A k \in 1 .. Len(s) : t[k] = s[k]
  BY <1>1
<1>3. Len(s) <= Len(t)
  BY <1>2
<1>4. /\ SubSeq(t, 1, Len(s)) \in Seq(GlyphSet) /\ Len(SubSeq(t, 1, Len(s))) = Len(s)
      /\ \A k \in 1 .. Len(s) : SubSeq(t, 1, Len(s))[k] = t[k]
  BY <1>2, <1>3
<1>5. s = SubSeq(t, 1, Len(s))
  BY <1>2, <1>4, SeqEqual
<1> QED BY <1>3, <1>5

LEMMA BeginningOfBeginning ==
  ASSUME NEW s \in Seq(GlyphSet), NEW t, NEW u, Beginning(s, t), Beginning(t, u)
  PROVE  Beginning(s, u)
<1>1. PICK q \in Seq(GlyphSet) : t = s \o q
  BY DEF Beginning
<1>2. PICK r \in Seq(GlyphSet) : u = t \o r
  BY DEF Beginning
<1>3. (s \o q) \o r = s \o (q \o r) /\ q \o r \in Seq(GlyphSet)
  BY GlyphsConcat
<1> QED BY <1>1, <1>2, <1>3 DEF Beginning

LEMMA BeginningItself == \A s \in Seq(GlyphSet) : Beginning(s, s)
<1> SUFFICES ASSUME NEW s \in Seq(GlyphSet) PROVE Beginning(s, s)
  OBVIOUS
<1>1. s \o <<>> = s /\ <<>> \in Seq(GlyphSet)
  OBVIOUS
<1> QED BY <1>1 DEF Beginning

LEMMA FrontBegins ==
  ASSUME insn \in Instructions, NEW n \in 0 .. Count
  PROVE  Beginning(Front(n), Front(Count))
<1> DEFINE S == {k \in Nat : n + k <= Count => Beginning(Front(n), Front(n + k))}
<1>1. /\ Count \in Nat /\ \A k \in 0 .. Count : Front(k) \in Seq(GlyphSet)
      /\ \A k \in 0 .. Count : k + 1 <= Count => Front(k + 1) = Front(k) \o Clauses[k + 1]
      /\ \A k \in 1 .. Count : Clauses[k] \in Seq(GlyphSet)
  BY OperandsOf, FrontGlyphs, ClauseGlyphs
<1>2. 0 \in S
  <2>1. n + 0 = n
    OBVIOUS
  <2> QED BY <1>1, <2>1, BeginningItself
<1>3. ASSUME NEW k \in Nat, k \in S PROVE k + 1 \in S
  <2> SUFFICES ASSUME n + (k + 1) <= Count PROVE Beginning(Front(n), Front(n + (k + 1)))
    OBVIOUS
  <2>1. PICK m \in 0 .. Count : m = n + k /\ n + (k + 1) = m + 1
    BY <1>1
  <2>2. m + 1 \in 1 .. Count
    BY <1>1, <2>1
  <2>3. Front(m + 1) = Front(m) \o Clauses[m + 1] /\ Clauses[m + 1] \in Seq(GlyphSet)
    BY <1>1, <2>1, <2>2
  <2>4. Beginning(Front(m), Front(m + 1))
    BY <2>3 DEF Beginning
  <2>5. Beginning(Front(n), Front(m))
    BY <1>3, <2>1
  <2>6. Front(n) \in Seq(GlyphSet)
    BY <1>1
  <2> QED BY <2>1, <2>4, <2>5, <2>6, BeginningOfBeginning
<1>4. \A k \in Nat : k \in S
  <2> HIDE DEF S
  <2> QED BY <1>2, <1>3, SetInduction
<1>5. PICK k \in Nat : n + k = Count
  <2>1. Count - n \in Nat /\ n + (Count - n) = Count
    BY <1>1
  <2> QED BY <2>1
<1>6. n + k <= Count => Beginning(Front(n), Front(n + k))
  BY <1>4
<1>7. n + k <= Count
  BY <1>1, <1>5
<1> QED BY <1>5, <1>6, <1>7

\* All this only depends on the request and on what was skipped.
LEMMA SentenceSame ==
  ASSUME UNCHANGED <<f, insn, known, whole>>
  PROVE  /\ Mnemonic' = Mnemonic /\ Flags' = Flags /\ Count' = Count
         /\ \A k : Phrase(k)' = Phrase(k)
         /\ \A op : ContextOf(op)' = ContextOf(op)
         /\ \A n : Nth(n)' = Nth(n) /\ After(n)' = After(n)
         /\ First' = First
         /\ skipped' = skipped =>
              /\ \A n : /\ Wanted(n)' = Wanted(n) /\ Delimiter(n)' = Delimiter(n)
                        /\ Front(n)' = Front(n)
              /\ Clauses' = Clauses
<1>1. /\ Mnemonic' = Mnemonic /\ Flags' = Flags /\ Count' = Count
      /\ \A k : Phrase(k)' = Phrase(k)
      /\ \A op : ContextOf(op)' = ContextOf(op)
  BY DEF Mnemonic, Flags, Count, Phrase, ContextOf
<1>2. \A n : Nth(n)' = Nth(n) /\ After(n)' = After(n)
  BY DEF Nth, After
<1>3. First' = First
  BY DEF First
<1>4. ASSUME skipped' = skipped
      PROVE  \A n : Wanted(n)' = Wanted(n) /\ Delimiter(n)' = Delimiter(n)
  BY <1>4 DEF Wanted, Nth, Delimiter, Flags, ContextOf
<1>5. ASSUME skipped' = skipped PROVE Clauses' = Clauses
  BY <1>5 DEF Clauses, Phrase, ContextOf, Wanted, Delimiter, Nth, Flags
<1>6. ASSUME skipped' = skipped PROVE \A n : Front(n)' = Front(n)
  BY <1>1, <1>5, <1>6 DEF Front
<1> QED BY <1>1, <1>2, <1>3, <1>4, <1>5, <1>6

\* An operand that is skipped leaves the clauses before it as they are, and
\* has none itself.
LEMMA FrontSkipped ==
  ASSUME insn \in Instructions, UNCHANGED <<f, insn, known, whole>>,
         NEW n \in 1 .. Count, skipped' = skipped \cup {Nth(n)}
  PROVE  Front(n)' = Front(n - 1)
<1>1. /\ Count \in Nat /\ Count' = Count /\ Mnemonic' = Mnemonic /\ Flags' = Flags
      /\ \A i : Nth(i)' = Nth(i) /\ Phrase(i)' = Phrase(i)
  BY OperandsOf, SentenceSame
<1>2. ASSUME NEW i \in 1 .. n - 1 PROVE Wanted(i)' = Wanted(i)
  <2>1. Nth(i) # Nth(n)
    BY <1>1, <1>2, NthTwice
  <2>2. insn' = insn /\ Nth(i)' = Nth(i)
    BY <1>1
  <2>3. Nth(i) \in skipped' <=> Nth(i) \in skipped
    BY <2>1
  <2> QED BY <2>2, <2>3 DEF Wanted
<1>3. ~Wanted(n)'
  BY <1>1 DEF Wanted
<1>4. ASSUME NEW i \in 1 .. n - 1 PROVE Delimiter(i)' = Delimiter(i)
  <2>1. \A j \in 1 .. i - 1 : Wanted(j)' = Wanted(j)
    BY <1>2
  <2>2. (\A j \in 1 .. i - 1 : ~Wanted(j))' <=> (\A j \in 1 .. i - 1 : ~Wanted(j))
    BY <2>1
  <2> QED BY <1>1, <2>2 DEF Delimiter
<1>5. ASSUME NEW i \in 1 .. n - 1 PROVE Clauses[i]' = Clauses[i]
  <2>1. i \in DOMAIN insn.operands /\ insn' = insn
    BY OperandsOf
  <2>2. Clauses[i] = Maybe(Wanted(i), Delimiter(i) \o Phrase(Nth(i)))
    BY <2>1 DEF Clauses
  <2>3. Clauses[i]' = Maybe(Wanted(i)', Delimiter(i)' \o Phrase(Nth(i))')
    BY <2>1 DEF Clauses
  <2>4. Phrase(Nth(i))' = Phrase(Nth(i))
    BY <1>1 DEF Phrase, Nth, ContextOf
  <2> QED BY <1>2, <1>4, <2>2, <2>3, <2>4
<1>6. Clauses[n]' = <<>>
  <2>1. n \in DOMAIN insn.operands /\ insn' = insn
    BY OperandsOf
  <2>2. Clauses[n]' = Maybe(Wanted(n)', Delimiter(n)' \o Phrase(Nth(n))')
    BY <2>1 DEF Clauses
  <2> QED BY <1>3, <2>2 DEF Maybe
<1>7. n - 1 \in Nat /\ n - 1 \in 0 .. Count /\ (n - 1) + 1 = n
  BY <1>1
<1>8. PICK old, new : old = Clauses /\ new = Clauses'
  OBVIOUS
<1>9. \A i \in 1 .. n - 1 : new[i] = old[i]
  BY <1>5, <1>8
<1>10. InTurn(new, n - 1) = InTurn(old, n - 1)
  BY <1>7, <1>9, InTurnSame
<1>11. InTurn(new, (n - 1) + 1) = InTurn(new, n - 1) \o new[(n - 1) + 1]
  BY <1>7, InTurnNext
<1>12. new[n] = <<>>
  BY <1>6, <1>8
<1>13. InTurn(old, n - 1) \in Seq(GlyphSet)
  BY <1>7, <1>8, FrontGlyphs
<1>14. InTurn(old, n - 1) \o <<>> = InTurn(old, n - 1)
  BY <1>13
<1>15. InTurn(new, n) = InTurn(old, n - 1)
  BY <1>7, <1>10, <1>11, <1>12, <1>14
<1>16. Front(n)' = Mnemonic \o Flags \o InTurn(new, n)
  BY <1>1, <1>8 DEF Front
<1> QED BY <1>8, <1>15, <1>16 DEF Front

-----------------------------------------------------------------------------
(* What has been printed                                                    *)

\* An operand is being printed, or one that a hook replaces.
InOperand == phase \in {"PreOperand", "Format", "PostOperand", "Decorators"}

Formatted == whole \/ "FORMAT_OPERAND" \notin hooks

\* Only operands in front of this one were skipped.
Passed == \A k \in skipped : k \in Int /\ Nth(k) < Nth(at)

\* The buffer has grown since the mnemonic just when something was printed.
Grown(place, glyphs) ==
  /\ place \in Nat /\ state_mnemonic \in Nat
  /\ place >= state_mnemonic /\ Len(glyphs) >= Len(Mnemonic)
  /\ place = state_mnemonic <=> Len(glyphs) = Len(Mnemonic)

\* What comes first after the mnemonic is a fixed string, with tokens of its own.
Separated ==
  Len(kept) = Len(Mnemonic) =>
    /\ phase \in {"Operands", "PreOperand"}
    /\ todo # <<>> => Head(todo).do = "static"
    /\ phase = "PreOperand" => todo # <<>>

\* The sentence up to the delimiter of the operand.
Opened == IF whole THEN Front(Nth(at) - 1) \o Delimiter(Nth(at)) ELSE <<>>

TheOperand == ContextOf(insn.operands[at])

\* What is printed when the calls still to make are made.
Goal ==
  CASE phase = "Head" -> Mnemonic
    [] phase = "Operands" -> Front(Nth(at) - 1)
    [] phase \in {"PreOperand", "Format"} -> Opened
    [] phase = "PostOperand" -> Opened \o Spell(FormatOperand(TheOperand))
    [] phase = "Decorators" -> Opened \o Phrase(at)

Typed ==
  /\ insn \in Instructions /\ whole \in BOOLEAN
  /\ kept \in Seq(GlyphSet) /\ todo \in Seq(Call)
  /\ phase \in {"Idle", "Rejected", "Head", "Operands", "PreOperand", "Format", "PostOperand",
                "Decorators", "Done"}

Telling ==
  /\ Typed
  /\ phase = "Idle" => kept = <<>> /\ todo = <<>> /\ skipped = {} /\ at = 0
  /\ phase \in {"Rejected", "Format"} => todo = <<>>
  /\ phase = "Head" => whole /\ skipped = {} /\ at = 0
  /\ phase = "Decorators" => whole
  /\ phase = "Operands" => whole /\ at \in Int /\ Nth(at) \in 1 .. Count + 1
  /\ InOperand => at \in 1 .. Count
  /\ phase = "Operands" \/ (InOperand /\ whole) => Passed /\ Grown(Snapshot, kept) /\ Separated
  /\ InOperand /\ whole => /\ Wanted(Nth(at)) /\ Grown(buffer_state, bufferKept)
                           /\ bufferKept = Front(Nth(at) - 1)
  /\ phase \in {"Head", "Operands"} \/ (InOperand /\ Formatted) => kept \o Spell(todo) = Goal
  /\ phase = "Done" => /\ todo = <<>>
                       /\ Formatted => Beginning(kept, Sentence)
                       /\ Formatted /\ result = "SUCCESS" => kept = Sentence

LEMMA PerformGrows ==
  ASSUME Sound, NEW call, Perform(call), status' = "SUCCESS"
  PROVE  /\ Snapshot \in Nat /\ Snapshot' \in Nat /\ Snapshot' >= Snapshot
         /\ call.do = "static" => Snapshot' > Snapshot
<1>1. /\ data \in Nat /\ size \in Nat /\ size >= 1 /\ isTokenList \in BOOLEAN
      /\ Snapshot = IF isTokenList THEN data ELSE size
  BY DEF Sound, Placed, Accounting, Snapshot
<1>2. ASSUME NEW type, Append_(type)
      PROVE  Snapshot' \in Nat /\ Snapshot' >= Snapshot
  <2>1. CASE AppendNew(type)
    <3>1. isTokenList /\ isTokenList' = isTokenList /\ data' = data + size + 2
      BY <2>1 DEF AppendNew
    <3> QED BY <1>1, <3>1 DEF Snapshot
  <2>2. CASE AppendSame(type) \/ AppendFull(type)
    <3>1. isTokenList' = isTokenList /\ data' = data /\ size' = size
      BY <2>2 DEF AppendSame, AppendFull, Fails
    <3> QED BY <1>1, <3>1 DEF Snapshot
  <2> QED BY <1>2, <2>1, <2>2 DEF Append_
<1>3. ASSUME isTokenList, NEW p, Fits(p), AppendPredefined(p)
      PROVE  Snapshot' \in Nat /\ Snapshot' > Snapshot
  <2>1. isTokenList' = isTokenList /\ data' = (data + size) + p.next /\ p.next \in Nat
    BY <1>3 DEF AppendPredefined, PredefinedFull, PredefinedNew, Fails, Fits
  <2> QED BY <1>1, <1>3, <2>1 DEF Snapshot
<1>4. ASSUME NEW n \in Nat \ {0}, NEW c, AppendText(n, c)
      PROVE  /\ Snapshot' \in Nat /\ Snapshot' >= Snapshot
             /\ ~isTokenList => Snapshot' > Snapshot
  <2>1. isTokenList' = isTokenList /\ data' = data /\ size' = size + n
    BY <1>4 DEF AppendText, TextFull, TextNew, Fails
  <2> QED BY <1>1, <2>1 DEF Snapshot
<1>5. Len(StaticTypes(call.arg)) \in Nat \ {0} /\ 1 \in Nat \ {0}
  <2>1. \A n \in 1 .. 4 : n \in Nat \ {0}
    OBVIOUS
  <2> QED BY <2>1, StaticTypesLength
<1>6. Fits(Block(call.arg))
  BY BlockFits
<1>7. CASE call.do = "token"
  BY <1>1, <1>2, <1>7 DEF Perform
<1>8. CASE call.do = "static"
  <2>1. CASE isTokenList
    <3>1. AppendPredefined(Block(call.arg))
      BY <1>8, <2>1 DEF Perform
    <3>2. Snapshot' \in Nat /\ Snapshot' > Snapshot
      BY <1>3, <1>6, <2>1, <3>1
    <3> QED BY <1>1, <3>2
  <2>2. CASE ~isTokenList
    <3>1. AppendText(Len(StaticTypes(call.arg)), Code[call.arg])
      BY <1>8, <2>2 DEF Perform
    <3>2. Snapshot' \in Nat /\ Snapshot' > Snapshot
      BY <1>4, <1>5, <2>2, <3>1
    <3> QED BY <1>1, <3>2
  <2> QED BY <2>1, <2>2
<1>9. CASE call.do = "text"
  <2>1. AppendText(1, Code[call.arg])
    BY <1>9 DEF Perform
  <2>2. Snapshot' \in Nat /\ Snapshot' >= Snapshot
    BY <1>4, <1>5, <2>1
  <2> QED BY <1>1, <1>9, <2>2
<1>10. CASE call.do = "fail"
  <2>1. isTokenList' = isTokenList /\ data' = data /\ size' = size
    BY <1>10 DEF Perform, Fails
  <2> QED BY <1>1, <1>10, <2>1 DEF Snapshot
<1> QED BY <1>7, <1>8, <1>9, <1>10 DEF Perform

\* What an operand adds to the sentence.
LEMMA OpenedBegins ==
  ASSUME insn \in Instructions, whole \in BOOLEAN, at \in 1 .. Count,
         whole => Wanted(Nth(at))
  PROVE  /\ Opened \in Seq(GlyphSet) /\ Phrase(at) \in Seq(GlyphSet) /\ Sentence \in Seq(GlyphSet)
         /\ Spell(FormatOperand(TheOperand)) \in Seq(GlyphSet)
         /\ Beginning(Opened, Sentence)
         /\ Beginning(Opened \o Spell(FormatOperand(TheOperand)), Sentence)
         /\ whole => /\ Front(Nth(at)) = Opened \o Phrase(at)
                     /\ Len(Opened) > Len(Mnemonic)
                     /\ Beginning(Opened \o Phrase(at), Sentence)
         /\ ~whole => Sentence = Opened \o Spell(FormatOperand(TheOperand))
<1> DEFINE D == Delimiter(Nth(at))
           P == Phrase(at)
           O == Spell(FormatOperand(TheOperand))
           R == Maybe(whole, Spell(FormatDecorators(TheOperand, at)))
<1>1. /\ Nth(at) \in 1 .. Count /\ Nth(Nth(at)) = at /\ Count \in Nat
      /\ Nth(at) - 1 \in 0 .. Count /\ (Nth(at) - 1) + 1 = Nth(at)
      /\ Nth(at) \in 0 .. Count /\ Count \in 0 .. Count
  <2>1. Count \in Nat /\ at \in Int
    BY OperandsOf
  <2>2. Nth(at) \in 1 .. Count /\ Nth(Nth(at)) = at
    BY <2>1, NthTwice
  <2> QED BY <2>1, <2>2
<1>2. D \in Seq(GlyphSet) /\ Len(D) >= 1 /\ P \in Seq(GlyphSet) /\ O \in Seq(GlyphSet)
  BY PartsAreGlyphs DEF TheOperand
<1>3. R \in Seq(GlyphSet) /\ P = O \o R /\ (~whole => R = <<>>)
  <2>1. Spell(FormatDecorators(TheOperand, at)) \in Seq(GlyphSet)
    BY ContextDescribes, DecorationCalls, PlainIsCall, SpellGlyphs DEF TheOperand
  <2>2. P = O \o R
    BY DEF Phrase, TheOperand
  <2> QED BY <2>1, <2>2 DEF Maybe
<1>4. CASE whole
  <2>1. PICK F : F = Front(Nth(at) - 1)
    OBVIOUS
  <2>2. F \in Seq(GlyphSet) /\ Len(F) >= Len(Mnemonic)
    BY <1>1, <2>1, FrontGlyphs, FrontLength
  <2>3. Clauses[Nth(at)] = D \o P
    BY <1>1, <1>4, ClauseGlyphs
  <2>4. Front(Nth(at)) = F \o (D \o P)
    <3>1. PICK i, j : i = Nth(at) - 1 /\ j = Nth(at)
      OBVIOUS
    <3>2. i \in 0 .. Count /\ i + 1 = j /\ j <= Count
      BY <1>1, <3>1
    <3>3. Front(i + 1) = Front(i) \o Clauses[i + 1]
      BY <3>2, FrontGlyphs
    <3> QED BY <2>1, <2>3, <3>1, <3>2, <3>3
  <2>5. Opened = F \o D
    BY <1>4, <2>1 DEF Opened
  <2> HIDE DEF D, P, O, R
  <2>6. /\ F \o D \in Seq(GlyphSet) /\ F \o (D \o P) = (F \o D) \o P
        /\ (F \o D) \o P = ((F \o D) \o O) \o R
        /\ (F \o D) \o O \in Seq(GlyphSet)
        /\ (F \o D) \o P \in Seq(GlyphSet)
    <3>1. PICK d, p, o, r : d = D /\ p = P /\ o = O /\ r = R
      OBVIOUS
    <3>2. {F, d, p, o, r} \subseteq Seq(GlyphSet) /\ p = o \o r
      BY <1>2, <1>3, <2>2, <3>1
    <3>3. (F \o d) \o p = F \o (d \o p)
      BY <3>2, GlyphsConcat
    <3>4. F \o d \in Seq(GlyphSet)
      BY <3>2
    <3>5. PICK e \in Seq(GlyphSet) : e = F \o d
      BY <3>4
    <3>6. (e \o o) \o r = e \o (o \o r)
      BY <3>2, <3>5, GlyphsConcat
    <3>7. e \o o \in Seq(GlyphSet) /\ e \o p \in Seq(GlyphSet)
      BY <3>2, <3>5
    <3> QED BY <3>1, <3>2, <3>3, <3>4, <3>5, <3>6, <3>7
  <2>7. Len(F \o D) > Len(Mnemonic)
    <3>1. Len(F \o D) = Len(F) + Len(D) /\ Len(F) \in Nat /\ Len(D) \in Nat
      BY <1>2, <2>2
    <3>2. Len(Mnemonic) \in Nat
      BY PartsAreGlyphs
    <3> QED BY <1>2, <2>2, <3>1, <3>2
  <2>8. Sentence = Front(Count) /\ Sentence \in Seq(GlyphSet)
    BY <1>1, <1>4, FrontGlyphs DEF Sentence, Front, Count
  <2>9. PICK S : S = Sentence /\ S = Front(Count)
    BY <2>8
  <2>10. Front(Nth(at)) = (F \o D) \o P
    BY <2>4, <2>6
  <2>11. Beginning((F \o D) \o P, S)
    BY <1>1, <2>9, <2>10, FrontBegins
  <2>12. Beginning(F \o D, (F \o D) \o P) /\ Beginning((F \o D) \o O, (F \o D) \o P)
    BY <1>2, <1>3, <2>6 DEF Beginning
  <2>13. Beginning(F \o D, S) /\ Beginning((F \o D) \o O, S)
    BY <2>6, <2>11, <2>12, BeginningOfBeginning
  <2> QED BY <1>2, <1>4, <2>5, <2>6, <2>7, <2>8, <2>9, <2>10, <2>11, <2>13 DEF O, P
<1>5. CASE ~whole
  <2>1. Opened = <<>> /\ Sentence = P
    BY <1>5 DEF Opened, Sentence
  <2> HIDE DEF D, P, O, R
  <2>2. R = <<>> /\ P = O
    BY <1>2, <1>3, <1>5
  <2>3. <<>> \o O = O /\ <<>> \o P = P /\ <<>> \in Seq(GlyphSet)
    BY <1>2
  <2>4. Beginning(<<>>, P) /\ Beginning(P, P)
    BY <1>2, <2>3, BeginningItself DEF Beginning
  <2> QED BY <1>2, <1>5, <2>1, <2>2, <2>3, <2>4 DEF O, P
<1> QED BY <1>4, <1>5

\* Wherever a call is, what it is printing begins the sentence.
LEMMA GoalBegins ==
  ASSUME Telling, phase \in {"Head", "Operands"} \/ (InOperand /\ Formatted)
  PROVE  Goal \in Seq(GlyphSet) /\ Sentence \in Seq(GlyphSet) /\ Beginning(Goal, Sentence)
<1>1. insn \in Instructions /\ whole \in BOOLEAN
  BY DEF Telling, Typed
<1>2. Count \in Nat /\ \A n \in 0 .. Count : Front(n) \in Seq(GlyphSet)
  BY <1>1, OperandsOf, FrontGlyphs
<1>3. Mnemonic \in Seq(GlyphSet) /\ Flags \in Seq(GlyphSet)
  BY <1>1, PartsAreGlyphs
<1>4. whole => Sentence = Front(Count) /\ Sentence \in Seq(GlyphSet)
  BY <1>2 DEF Sentence, Front, Count
<1>5. CASE phase = "Head"
  <2>1. whole /\ Goal = Mnemonic
    BY <1>5 DEF Telling, Goal
  <2>2. Beginning(Mnemonic, Mnemonic \o Flags)
    BY <1>3 DEF Beginning
  <2>3. Front(0) = Mnemonic \o Flags /\ 0 \in 0 .. Count
    BY <1>1, <1>2, FrontGlyphs
  <2>4. Beginning(Front(0), Front(Count))
    BY <1>1, <2>3, FrontBegins
  <2>5. Beginning(Mnemonic, Front(Count))
    BY <1>3, <2>2, <2>3, <2>4, BeginningOfBeginning
  <2> QED BY <1>3, <1>4, <2>1, <2>5
<1>6. CASE phase = "Operands"
  <2>1. whole /\ Goal = Front(Nth(at) - 1) /\ Nth(at) \in 1 .. Count + 1
    BY <1>6 DEF Telling, Goal
  <2>2. PICK i \in 0 .. Count : i = Nth(at) - 1
    BY <1>2, <2>1
  <2>3. Beginning(Front(i), Front(Count))
    BY <1>1, FrontBegins
  <2> QED BY <1>2, <1>4, <2>1, <2>2, <2>3
<1>7. CASE InOperand
  <2>1. at \in 1 .. Count /\ (whole => Wanted(Nth(at)))
    BY <1>7 DEF Telling
  <2>2. PICK o, p, s : o = Opened /\ p = Phrase(at) /\ s = Spell(FormatOperand(TheOperand))
    OBVIOUS
  <2>3. /\ {o, p, s, Sentence} \subseteq Seq(GlyphSet)
        /\ Beginning(o, Sentence) /\ Beginning(o \o s, Sentence)
        /\ whole => Beginning(o \o p, Sentence)
    BY <1>1, <2>1, <2>2, OpenedBegins
  <2>4. o \o s \in Seq(GlyphSet) /\ o \o p \in Seq(GlyphSet)
    BY <2>3
  <2>5. phase = "Decorators" => whole
    BY DEF Telling
  <2>6. \/ phase \in {"PreOperand", "Format"} /\ Goal = o
        \/ phase = "PostOperand" /\ Goal = o \o s
        \/ phase = "Decorators" /\ Goal = o \o p
    BY <1>7, <2>2 DEF InOperand, Goal
  <2> QED BY <2>3, <2>4, <2>5, <2>6
<1> QED BY <1>5, <1>6, <1>7

\* Nothing but the calls still to make stands between kept and the goal.
LEMMA GoalSame ==
  ASSUME UNCHANGED <<f, insn, known, whole, skipped, at, phase>>
  PROVE  Goal' = Goal
<1>1. /\ Mnemonic' = Mnemonic /\ \A n : Front(n)' = Front(n) /\ Delimiter(n)' = Delimiter(n)
      /\ \A k : Phrase(k)' = Phrase(k)
  BY SentenceSame
<1>2. Opened' = Opened
  BY DEF Opened, Front, Mnemonic, Flags, Clauses, Wanted, Delimiter, Phrase, Nth, ContextOf
<1>3. TheOperand' = TheOperand
  BY DEF TheOperand, ContextOf
<1>4. Front(Nth(at) - 1)' = Front(Nth(at) - 1) /\ Phrase(at)' = Phrase(at)
  BY DEF Front, Mnemonic, Flags, Clauses, Wanted, Delimiter, Phrase, Nth, ContextOf
<1> QED BY <1>1, <1>2, <1>3, <1>4 DEF Goal

LEMMA StepTells == Sound /\ Telling /\ Step => Telling'
<1> SUFFICES ASSUME Sound, Telling, Step PROVE Telling'
  OBVIOUS
<1>1. PICK call : call = Head(todo)
  OBVIOUS
<1>2. /\ Perform(call) /\ phase # "Idle" /\ todo # <<>>
      /\ IF status' = "SUCCESS" THEN /\ todo' = Tail(todo) /\ kept' = kept \o Printed(call)
                                     /\ phase' = phase /\ result' = result
         ELSE /\ todo' = <<>> /\ kept' = kept /\ phase' = "Done" /\ result' = status'
      /\ UNCHANGED <<f, hooks, settings, insn, known, whole, at, state_mnemonic, buffer_state,
                     bufferKept, skipped>>
  BY <1>1 DEF Step, Return, client, request
<1>3. /\ insn \in Instructions /\ whole \in BOOLEAN /\ kept \in Seq(GlyphSet)
      /\ todo \in Seq(Call) /\ call \in Call /\ Tail(todo) \in Seq(Call)
      /\ phase \in {"Head", "Operands", "PreOperand", "PostOperand", "Decorators"}
  BY <1>1, <1>2 DEF Telling, Typed
<1>4. Printed(call) \in Seq(GlyphSet) /\ Spell(Tail(todo)) \in Seq(GlyphSet)
  BY <1>3, PrintedGlyphs, SpellGlyphs
<1>5. Spell(todo) = Printed(call) \o Spell(Tail(todo))
  BY <1>1, <1>2, <1>3, SpellFirst
<1>6. PICK p, r : p = Printed(call) /\ r = Spell(Tail(todo))
  OBVIOUS
<1>7. (kept \o p) \o r = kept \o (p \o r)
  BY <1>3, <1>4, <1>6, GlyphsConcat
<1>8. kept \o p \in Seq(GlyphSet)
  BY <1>3, <1>4, <1>6
<1>9. CASE status' = "SUCCESS"
  <2>1. kept' = kept \o p /\ todo' = Tail(todo) /\ phase' = phase
    BY <1>2, <1>6, <1>9
  <2>2. kept' \o Spell(todo') = kept \o Spell(todo)
    BY <1>5, <1>6, <1>7, <2>1
  <2>3. Typed'
    BY <1>2, <1>3, <1>8, <2>1 DEF Typed
  <2>4. Goal' = Goal
    BY <1>2, <2>1, GoalSame
  <2>5. /\ Mnemonic' = Mnemonic /\ Count' = Count
        /\ \A n : Nth(n)' = Nth(n) /\ Front(n)' = Front(n) /\ Wanted(n)' = Wanted(n)
    BY <1>2, SentenceSame
  <2>6. ASSUME phase = "Operands" \/ (InOperand /\ whole)
        PROVE  Passed' /\ Grown(Snapshot, kept)' /\ Separated'
    <3>1. Passed /\ Grown(Snapshot, kept) /\ Separated
      BY <2>6 DEF Telling
    <3>2. Passed'
      BY <1>2, <3>1 DEF Passed, Nth
    <3>3. /\ Snapshot \in Nat /\ Snapshot' \in Nat /\ Snapshot' >= Snapshot
          /\ call.do = "static" => Snapshot' > Snapshot
      BY <1>2, <1>9, PerformGrows
    <3>4. Len(kept') = Len(kept) + Len(p) /\ Len(kept) \in Nat /\ Len(p) \in Nat
      BY <1>3, <1>4, <1>6, <2>1
    <3>5. call.do = "static" => Len(p) >= 1
      <4> SUFFICES ASSUME call.do = "static" PROVE Len(p) >= 1
        OBVIOUS
      <4>1. PICK n \in 1 .. 4 : DOMAIN StaticTypes(call.arg) = 1 .. n
        BY StaticTypesLength, StaticTypesSequence
      <4>2. p = [k \in 1 .. n |-> call.arg]
        BY <1>6, <4>1 DEF Printed
      <4>3. Len([k \in 1 .. n |-> call.arg]) = n
        BY <4>1
      <4> QED BY <4>1, <4>2, <4>3
    <3>6. Len(Mnemonic) \in Nat
      BY <1>3, PartsAreGlyphs
    <3>7. Len(kept) = Len(Mnemonic) => call.do = "static"
      BY <1>1, <1>2, <3>1 DEF Separated
    <3>8. /\ state_mnemonic \in Nat /\ Snapshot >= state_mnemonic /\ Len(kept) >= Len(Mnemonic)
          /\ Snapshot = state_mnemonic <=> Len(kept) = Len(Mnemonic)
      BY <3>1 DEF Grown
    <3>9. Snapshot' > state_mnemonic /\ Len(kept') > Len(Mnemonic)
      <4>1. CASE Len(kept) = Len(Mnemonic)
        BY <3>3, <3>4, <3>5, <3>6, <3>7, <3>8, <4>1
      <4>2. CASE Len(kept) # Len(Mnemonic)
        BY <3>3, <3>4, <3>6, <3>8, <4>2
      <4> QED BY <4>1, <4>2
    <3>10. Grown(Snapshot, kept)'
      BY <1>2, <2>5, <3>3, <3>4, <3>6, <3>8, <3>9 DEF Grown
    <3>11. Separated'
      BY <2>5, <3>4, <3>6, <3>9 DEF Separated
    <3> QED BY <3>2, <3>10, <3>11
  <2>7. ASSUME InOperand, whole
        PROVE  /\ Wanted(Nth(at))' /\ Grown(buffer_state, bufferKept)'
               /\ bufferKept' = Front(Nth(at) - 1)'
    <3>1. /\ Wanted(Nth(at)) /\ Grown(buffer_state, bufferKept)
          /\ bufferKept = Front(Nth(at) - 1)
      BY <2>7 DEF Telling
    <3>2. Wanted(Nth(at))'
      BY <1>2, <3>1 DEF Wanted, Nth
    <3>3. Grown(buffer_state, bufferKept)'
      BY <1>2, <2>5, <3>1 DEF Grown
    <3>4. Front(Nth(at) - 1)' = Front(Nth(at) - 1)
      BY <1>2 DEF Front, Mnemonic, Flags, Clauses, Wanted, Delimiter, Phrase, Nth, ContextOf
    <3> QED BY <1>2, <3>1, <3>2, <3>3, <3>4
  <2>8. InOperand' = InOperand /\ Formatted' = Formatted /\ Nth(at)' = Nth(at)
    BY <1>2, <2>1 DEF InOperand, Formatted, Nth
  <2>9. phase \in {"Head", "Operands"} \/ (InOperand /\ Formatted) => kept' \o Spell(todo') = Goal'
    BY <2>2, <2>4 DEF Telling
  <2> QED BY <1>2, <1>3, <2>1, <2>3, <2>5, <2>6, <2>7, <2>8, <2>9 DEF Telling
<1>10. CASE status' # "SUCCESS"
  <2>1. todo' = <<>> /\ kept' = kept /\ phase' = "Done" /\ result' # "SUCCESS"
    BY <1>2, <1>10
  <2>2. Typed' /\ ~InOperand'
    BY <1>2, <1>3, <2>1 DEF Typed, InOperand
  <2>3. Formatted' => Beginning(kept, Sentence)'
    <3> SUFFICES ASSUME Formatted' PROVE Beginning(kept, Sentence)'
      OBVIOUS
    <3>1. phase \in {"Head", "Operands"} \/ (InOperand /\ Formatted)
      BY <1>2, <1>3 DEF Formatted, InOperand
    <3>2. kept \o Spell(todo) = Goal /\ Beginning(Goal, Sentence)
      BY <3>1, GoalBegins DEF Telling
    <3>3. Beginning(kept, Goal)
      <4>1. Spell(todo) \in Seq(GlyphSet)
        BY <1>3, SpellGlyphs
      <4> QED BY <3>2, <4>1 DEF Beginning
    <3>4. Beginning(kept, Sentence)
      BY <1>3, <3>2, <3>3, BeginningOfBeginning
    <3>5. Sentence' = Sentence
      BY <1>2 DEF Sentence, Mnemonic, Flags, Clauses, Phrase, ContextOf, Wanted, Delimiter, Nth
    <3> QED BY <2>1, <3>4, <3>5 DEF Beginning
  <2> QED BY <2>1, <2>2, <2>3 DEF Telling
<1> QED BY <1>9, <1>10

\* An entry point that returns has printed a beginning, and all of the sentence
\* if it succeeds.
LEMMA ReturnTells ==
  ASSUME Telling, phase' = "Done", todo = <<>>, todo' = <<>>,
         UNCHANGED <<f, hooks, insn, known, whole, at, kept, skipped>>,
         phase \in {"Head", "Operands"} \/ InOperand,
         result' = "SUCCESS" /\ Formatted => kept = Sentence
  PROVE  Telling'
<1>1. /\ insn \in Instructions /\ whole \in BOOLEAN /\ kept \in Seq(GlyphSet)
      /\ todo \in Seq(Call)
  BY DEF Telling, Typed
<1>2. Typed' /\ ~InOperand' /\ (Formatted' <=> Formatted)
  BY <1>1 DEF Typed, InOperand, Formatted
<1>3. Sentence' = Sentence
  BY DEF Sentence, Mnemonic, Flags, Clauses, Phrase, ContextOf, Wanted, Delimiter, Nth
<1>4. ASSUME Formatted PROVE Beginning(kept, Sentence)'
  <2>1. phase \in {"Head", "Operands"} \/ (InOperand /\ Formatted)
    BY <1>4
  <2>2. kept \o Spell(todo) = Goal /\ Beginning(Goal, Sentence)
    BY <2>1, GoalBegins DEF Telling
  <2>3. kept \o <<>> = kept
    BY <1>1
  <2>4. kept = Goal
    BY <2>2, <2>3, SpellNone
  <2> QED BY <1>3, <2>2, <2>4 DEF Beginning
<1> QED BY <1>2, <1>3, <1>4 DEF Telling

LEMMA SettingTells ==
  ASSUME Telling, phase = "Idle",
         UNCHANGED <<insn, known, whole, at, phase, todo, kept, skipped>>
  PROVE  Telling'
<1>1. Typed' /\ ~InOperand'
  BY DEF Telling, Typed, InOperand
<1> QED BY <1>1 DEF Telling

\* Nothing has happened, or nothing this is about.
LEMMA QuietTells ==
  ASSUME Telling,
         UNCHANGED <<f, hooks, insn, known, whole, at, phase, todo, kept, skipped, bufferKept,
                     isTokenList, data, size, state_mnemonic, buffer_state, result>>
  PROVE  Telling'
<1>1. Typed' = Typed /\ InOperand' = InOperand /\ Formatted' = Formatted /\ Goal' = Goal
  BY GoalSame DEF Typed, InOperand, Formatted
<1>2. Count' = Count /\ Nth(at)' = Nth(at) /\ Wanted(Nth(at))' = Wanted(Nth(at))
  BY DEF Count, Nth, Wanted
<1>3. Mnemonic' = Mnemonic /\ Snapshot' = Snapshot
  BY SentenceSame DEF Snapshot
<1>4. /\ Passed' = Passed /\ Grown(Snapshot, kept)' = Grown(Snapshot, kept)
      /\ Separated' = Separated /\ Grown(buffer_state, bufferKept)' = Grown(buffer_state, bufferKept)
  BY <1>3 DEF Passed, Nth, Grown, Separated
<1>5. Front(Nth(at) - 1)' = Front(Nth(at) - 1) /\ Sentence' = Sentence
  BY DEF Sentence, Front, Mnemonic, Flags, Clauses, Phrase, ContextOf, Wanted, Delimiter, Nth
<1>6. Beginning(kept, Sentence)' = Beginning(kept, Sentence)
  BY <1>5 DEF Beginning
<1> QED BY <1>1, <1>2, <1>4, <1>5, <1>6 DEF Telling

LEMMA ContextHead ==
  ASSUME insn \in Instructions, at = 0
  PROVE  Context = ContextOf(<<>>)
<1>1. 0 \notin DOMAIN insn.operands
  BY OperandsOf
<1> QED BY <1>1 DEF Context

LEMMA InstructionTells ==
  ASSUME Telling, NEW count, FormatInstruction(count)
  PROVE  Telling'
<1>1. /\ phase = "Idle" /\ whole /\ insn \in Instructions /\ kept = <<>> /\ todo = <<>>
      /\ skipped = {} /\ at = 0
  BY DEF FormatInstruction, Telling, Typed
<1>2. UNCHANGED <<f, hooks, insn, known, whole, at, kept, skipped>>
  BY DEF FormatInstruction, client, request, history
<1>3. \/ phase' = "Rejected" /\ todo' = todo
      \/ phase' = "Done" /\ todo' = <<>> /\ result' = "FAILED"
      \/ \E v \in Verdict("PRE_INSTRUCTION") :
           v # "FAILED" /\ phase' = "Head" /\ todo' = FormatHead(Context)
  BY DEF FormatInstruction, Return
<1>4. kept' \in Seq(GlyphSet) /\ <<>> \in Seq(Call)
  BY <1>1, <1>2
<1>5. CASE phase' = "Rejected" /\ todo' = todo
  <2>1. Typed' /\ ~InOperand'
    BY <1>1, <1>2, <1>4, <1>5 DEF Typed, InOperand
  <2> QED BY <1>1, <1>5, <2>1 DEF Telling
<1>6. CASE phase' = "Done" /\ todo' = <<>> /\ result' = "FAILED"
  <2>1. Typed' /\ ~InOperand'
    BY <1>1, <1>2, <1>4, <1>6 DEF Typed, InOperand
  <2>2. Sentence' = Sentence
    BY <1>2 DEF Sentence, Mnemonic, Flags, Clauses, Phrase, ContextOf, Wanted, Delimiter, Nth
  <2>3. Sentence \in Seq(GlyphSet)
    <3>1. Count \in 0 .. Count
      BY <1>1, OperandsOf
    <3>2. Front(Count) \in Seq(GlyphSet)
      BY <1>1, <3>1, FrontGlyphs
    <3> QED BY <1>1, <3>2 DEF Sentence, Front, Count
  <2>4. Beginning(<<>>, Sentence)
    <3>1. Sentence = <<>> \o Sentence
      BY <2>3
    <3> QED BY <2>3, <3>1 DEF Beginning
  <2>5. Beginning(kept, Sentence)'
    BY <1>1, <1>2, <2>2, <2>4 DEF Beginning
  <2> QED BY <1>6, <2>1, <2>5 DEF Telling
<1>7. CASE phase' = "Head" /\ todo' = FormatHead(Context)
  <2>1. todo' = FormatHead(ContextOf(<<>>))
    BY <1>1, <1>7, ContextHead
  <2>2. todo' \in Seq(Call)
    BY <1>1, <2>1, ContextDescribes, HeadCalls, PlainIsCall
  <2>3. Typed' /\ ~InOperand'
    BY <1>1, <1>2, <1>4, <1>7, <2>2 DEF Typed, InOperand
  <2>4. Mnemonic' = Mnemonic /\ Goal' = Mnemonic'
    BY <1>2, <1>7, SentenceSame DEF Goal
  <2>5. kept' \o Spell(todo') = Goal'
    <3>1. Spell(todo') = Mnemonic
      BY <2>1 DEF Mnemonic
    <3>2. <<>> \o Mnemonic = Mnemonic
      BY <1>1, PartsAreGlyphs
    <3> QED BY <1>1, <1>2, <2>4, <3>1, <3>2
  <2> QED BY <1>1, <1>2, <1>7, <2>3, <2>5 DEF Telling
<1> QED BY <1>3, <1>5, <1>6, <1>7

LEMMA OneOperandTells ==
  ASSUME Telling, NEW n \in DOMAIN insn.operands, FormatOneOperand(n)
  PROVE  Telling'
<1>1. /\ phase = "Idle" /\ ~whole /\ insn \in Instructions /\ kept = <<>> /\ todo = <<>>
      /\ skipped = {}
  BY DEF FormatOneOperand, Telling, Typed
<1>2. /\ UNCHANGED <<f, hooks, insn, known, whole, todo, kept, skipped>>
      /\ at' = n /\ phase' = "PreOperand"
  BY DEF FormatOneOperand, client, request, history
<1>3. Typed' /\ InOperand'
  BY <1>1, <1>2 DEF Telling, Typed, InOperand
<1>4. at' \in 1 .. Count /\ Count' = Count
  BY <1>1, <1>2, OperandsOf DEF Count
<1>5. Goal' = <<>>
  BY <1>1, <1>2 DEF Goal, Opened
<1>6. kept' \o Spell(todo') = Goal'
  <2>1. <<>> \o <<>> = <<>>
    OBVIOUS
  <2> QED BY <1>1, <1>2, <1>5, <2>1, SpellNone
<1> QED BY <1>1, <1>2, <1>3, <1>4, <1>6 DEF Telling

LEMMA FirstOfConcat ==
  \A s, t \in Seq(Call) : Len(s) >= 1 =>
    s \o t \in Seq(Call) /\ Len(s \o t) >= 1 /\ (s \o t)[1] = s[1] /\ Head(s \o t) = s[1]
OBVIOUS

LEMMA DfvFirst ==
  \A c : FormatDfv(c) # <<>> => Head(FormatDfv(c)).do = "static"
<1> SUFFICES ASSUME NEW c, FormatDfv(c) # <<>> PROVE Head(FormatDfv(c)).do = "static"
  OBVIOUS
<1> DEFINE a == Static("DELIM_MNEMONIC")
           b == Token("IMMEDIATE")
           d == Maybe(c.f.style = "ATT", Static("IMMEDIATE"))
           e == Text("NUMBER")
           wanted == c.f.deco_apx_dfv_use_immediate /\ c.insn.scc
<1>1. FormatDfv(c) = Maybe(wanted, a \o b \o d \o e)
  BY DEF FormatDfv
<1>2. FormatDfv(c) = a \o b \o d \o e
  <2> HIDE DEF a, b, d, e, wanted
  <2> QED BY <1>1 DEF Maybe
<1>3. a \in Seq(Call) /\ b \in Seq(Call) /\ d \in Seq(Call) /\ e \in Seq(Call)
  BY TokenCalls, FixedCalls, CallsMaybe, PlainIsCall DEF FixedStrings, FixedWords
<1>4. Len(a) >= 1 /\ a[1].do = "static"
  <2>1. PICK r : r = [do |-> "static", arg |-> "DELIM_MNEMONIC"]
    OBVIOUS
  <2>2. a = <<r>>
    BY <2>1, Zenon DEF Static
  <2>3. Len(<<r>>) = 1 /\ (<<r>>)[1] = r
    OBVIOUS
  <2>4. (<<r>>)[1].do = "static"
    BY <2>1, <2>3
  <2> HIDE DEF a
  <2> QED BY <2>2, <2>3, <2>4
<1> HIDE DEF a, b, d, e
<1>5. a \o b \in Seq(Call) /\ (a \o b)[1] = a[1] /\ Len(a \o b) >= 1
  BY <1>3, <1>4, FirstOfConcat, Zenon
<1>6. (a \o b) \o d \in Seq(Call) /\ ((a \o b) \o d)[1] = a[1] /\ Len((a \o b) \o d) >= 1
  BY <1>3, <1>5, FirstOfConcat
<1>7. Head(((a \o b) \o d) \o e) = a[1]
  BY <1>3, <1>6, FirstOfConcat
<1> QED BY <1>2, <1>4, <1>7

LEMMA RememberTells == Sound /\ Telling /\ RememberMnemonic => Telling'
<1> SUFFICES ASSUME Sound, Telling, RememberMnemonic PROVE Telling'
  OBVIOUS
<1>1. /\ phase = "Head" /\ todo = <<>> /\ whole /\ skipped = {} /\ at = 0
      /\ insn \in Instructions /\ kept \in Seq(GlyphSet) /\ kept \o Spell(todo) = Goal
  BY DEF RememberMnemonic, Ready, Telling, Typed
<1>2. /\ UNCHANGED <<f, hooks, insn, known, whole, kept, skipped, isTokenList, data, size>>
      /\ state_mnemonic' = Snapshot /\ todo' = FormatDfv(Context) /\ at' = First
      /\ phase' = "Operands"
  BY DEF RememberMnemonic, Remember, client, request, history
<1>3. kept = Mnemonic
  <2>1. kept \o <<>> = kept
    BY <1>1
  <2> QED BY <1>1, <2>1, SpellNone DEF Goal
<1>4. todo' = FormatDfv(ContextOf(<<>>))
  BY <1>1, <1>2, ContextHead
<1>5. todo' \in Seq(Call)
  BY <1>1, <1>4, ContextDescribes, HeadCalls, PlainIsCall
<1>6. Typed' /\ ~InOperand'
  BY <1>1, <1>2, <1>5 DEF Telling, Typed, InOperand
<1>7. /\ Mnemonic' = Mnemonic /\ Flags' = Flags /\ Count' = Count
      /\ \A n : Nth(n)' = Nth(n) /\ Front(n)' = Front(n)
  BY <1>2, SentenceSame
<1>8. First \in Int /\ Nth(First) = 1 /\ Count \in Nat
  BY <1>1, NthTwice, OperandsOf
<1>9. Nth(at)' = 1
  <2>1. Nth(at)' = Nth(First)
    BY <1>2 DEF Nth
  <2> QED BY <1>8, <2>1
<1>10. Passed'
  BY <1>1, <1>2 DEF Passed
<1>11. Snapshot' = Snapshot /\ Snapshot \in Nat /\ Len(Mnemonic) \in Nat
  <2>1. Mnemonic \in Seq(GlyphSet)
    BY <1>1, PartsAreGlyphs
  <2> QED BY <1>2, <2>1 DEF Snapshot, Sound, Placed
<1>12. Grown(Snapshot, kept)'
  BY <1>2, <1>3, <1>7, <1>11 DEF Grown
<1>13. Separated'
  BY <1>2, <1>4, DfvFirst DEF Separated
<1>14. kept' \o Spell(todo') = Goal'
  <2>1. Goal' = Front(Nth(at) - 1)'
    BY <1>2 DEF Goal
  <2>2. Front(Nth(at) - 1)' = Front(0)'
    <3>1. Nth(at)' - 1 = 0
      BY <1>9
    <3>2. InTurn(Clauses', Nth(at)' - 1) = InTurn(Clauses', 0)
      BY <3>1
    <3> QED BY <3>2 DEF Front
  <2>3. Front(0)' = Mnemonic \o Flags
    BY <1>1, <1>7, FrontGlyphs
  <2>4. Spell(todo') = Flags
    BY <1>4 DEF Flags
  <2> QED BY <1>2, <1>3, <2>1, <2>2, <2>3, <2>4
<1> QED BY <1>1, <1>2, <1>6, <1>7, <1>8, <1>9, <1>10, <1>12, <1>13, <1>14 DEF Telling

\* What moving on to the next operand leaves to be shown.
LEMMA NextTells ==
  ASSUME Telling, phase = "Operands" \/ (InOperand /\ whole), at \in 1 .. Count,
         UNCHANGED <<f, hooks, insn, known, whole, todo, state_mnemonic>>, todo = <<>>,
         at' = After(at), phase' = "Operands",
         skipped' = skipped \/ skipped' = skipped \cup {at},
         Grown(Snapshot, kept)', NEW j, j = Nth(at), kept' = Front(j)', kept' \in Seq(GlyphSet)
  PROVE  Telling'
<1>1. /\ whole /\ insn \in Instructions /\ Passed /\ Count \in Nat /\ at \in Int
  BY OperandsOf DEF Telling, Typed
<1>2. /\ Mnemonic' = Mnemonic /\ Flags' = Flags /\ Count' = Count
      /\ \A n : Nth(n)' = Nth(n)
  BY SentenceSame
<1>3. /\ Nth(at) \in 1 .. Count /\ After(at) \in Int /\ Nth(After(at)) = Nth(at) + 1
  BY <1>1, NthTwice
<1>4. Nth(at)' = Nth(at) + 1
  <2>1. Nth(at)' = Nth(After(at))
    BY DEF Nth
  <2> QED BY <1>3, <2>1
<1>5. Passed'
  <2> SUFFICES ASSUME NEW k \in skipped' PROVE k \in Int /\ Nth(k)' < Nth(at)'
    BY DEF Passed
  <2>1. CASE k \in skipped
    <3>1. k \in Int /\ Nth(k) < Nth(at)
      BY <1>1, <2>1 DEF Passed
    <3>2. Nth(k) \in Int
      BY <1>1, <3>1, NthTwice
    <3>3. Nth(k)' = Nth(k)
      BY <1>2
    <3> QED BY <1>3, <1>4, <3>1, <3>2, <3>3
  <2>2. CASE k = at
    <3>1. Nth(k)' = Nth(at)
      BY <2>2 DEF Nth
    <3> QED BY <1>1, <1>3, <1>4, <2>2, <3>1
  <2> QED BY <2>1, <2>2
<1>6. kept' \in Seq(GlyphSet) /\ kept' = Goal'
  <2>1. Goal' = Front(Nth(at) - 1)'
    BY DEF Goal
  <2>2. Nth(at)' - 1 = j
    BY <1>1, <1>3, <1>4
  <2>3. Front(Nth(at) - 1)' = Mnemonic' \o Flags' \o InTurn(Clauses', j)
    BY <2>2 DEF Front
  <2> QED BY <2>1, <2>3 DEF Front
<1>7. Typed' /\ ~InOperand' /\ Separated'
  BY <1>1, <1>6 DEF Telling, Typed, InOperand, Separated
<1>8. kept' \o Spell(todo') = Goal'
  <2>1. kept' \o <<>> = kept'
    BY <1>6
  <2> QED BY <1>6, <2>1, SpellNone
<1>9. at' \in Int /\ Nth(at)' \in 1 .. Count' + 1
  BY <1>1, <1>2, <1>3, <1>4
<1> QED BY <1>1, <1>5, <1>7, <1>8, <1>9 DEF Telling

LEMMA PassMaskTells == Telling /\ PassMask => Telling'
<1> SUFFICES ASSUME Telling, PassMask PROVE Telling'
  OBVIOUS
<1>1. /\ phase = "Operands" /\ todo = <<>> /\ at = 2 /\ IsMask(insn.operands[2])
      /\ at \in DOMAIN insn.operands /\ at' = After(at) /\ phase' = "Operands"
      /\ UNCHANGED <<vars, f, hooks, insn, known, whole, todo, state_mnemonic, kept, skipped>>
  BY DEF PassMask, Ready, client, request, history
<1>2. /\ insn \in Instructions /\ kept \in Seq(GlyphSet) /\ whole /\ Grown(Snapshot, kept)
      /\ kept \o Spell(todo) = Front(Nth(at) - 1)
  BY <1>1 DEF Telling, Typed, Goal
<1>3. at \in 1 .. Count
  BY <1>1, <1>2, OperandsOf
<1>4. PICK j : j = Nth(at)
  OBVIOUS
<1>5. at \in Int /\ j \in 1 .. Count /\ Nth(j) = at /\ Count \in Nat
  <2>1. at \in Int /\ Count \in Nat
    BY <1>2, <1>3, OperandsOf
  <2> QED BY <1>2, <1>3, <1>4, <2>1, NthTwice
<1>6. ~Wanted(j)
  BY <1>1, <1>5 DEF Wanted
<1>7. Front(j) = Front(j - 1)
  <2>1. PICK i : i = j - 1
    OBVIOUS
  <2>2. i \in 0 .. Count /\ i + 1 = j /\ i + 1 <= Count
    BY <1>5, <2>1
  <2>3. Front(i + 1) = Front(i) \o Clauses[i + 1] /\ Front(i) \in Seq(GlyphSet)
    BY <1>2, <2>2, FrontGlyphs
  <2>4. Clauses[j] = <<>>
    BY <1>2, <1>5, <1>6, ClauseGlyphs
  <2>5. Front(i) \o <<>> = Front(i)
    BY <2>3
  <2> QED BY <2>1, <2>2, <2>3, <2>4, <2>5
<1>8. kept = Front(j)
  <2>1. kept \o <<>> = kept
    BY <1>2
  <2>2. Front(Nth(at) - 1) = Front(j - 1)
    BY <1>4
  <2> QED BY <1>1, <1>2, <1>7, <2>1, <2>2, SpellNone
<1>9. Mnemonic' = Mnemonic /\ Front(j)' = Front(j) /\ Snapshot' = Snapshot
  BY <1>1, SentenceSame DEF Snapshot, vars
<1>10. Grown(Snapshot, kept)'
  BY <1>1, <1>2, <1>9 DEF Grown
<1>11. kept' = Front(j)' /\ kept' \in Seq(GlyphSet)
  BY <1>1, <1>2, <1>8, <1>9
<1> QED BY <1>1, <1>3, <1>4, <1>10, <1>11, NextTells

\* The buffer has not grown since the mnemonic exactly when neither flags nor
\* an operand have been printed.
LEMMA BeginOperandTells == Sound /\ Telling /\ BeginOperand => Telling'
<1> SUFFICES ASSUME Sound, Telling, BeginOperand PROVE Telling'
  OBVIOUS
<1>1. /\ phase = "Operands" /\ todo = <<>> /\ at \in DOMAIN insn.operands
      /\ ~(at = 2 /\ IsMask(insn.operands[at])) /\ phase' = "PreOperand"
      /\ todo' = Static(IF Snapshot # state_mnemonic THEN "DELIM_OPERAND" ELSE "DELIM_MNEMONIC")
      /\ buffer_state' = Snapshot /\ bufferKept' = kept
      /\ UNCHANGED <<isTokenList, data, size, f, hooks, insn, known, whole, at, state_mnemonic,
                     kept, skipped>>
  BY DEF BeginOperand, Ready, Remember, client, request
<1>2. /\ insn \in Instructions /\ kept \in Seq(GlyphSet) /\ whole /\ Grown(Snapshot, kept) /\ Passed
      /\ kept \o Spell(todo) = Front(Nth(at) - 1)
  BY <1>1 DEF Telling, Typed, Goal
<1>3. at \in 1 .. Count
  BY <1>1, <1>2, OperandsOf
<1>4. PICK j : j = Nth(at)
  OBVIOUS
<1>5. at \in Int /\ j \in 1 .. Count /\ Nth(j) = at /\ Count \in Nat /\ j - 1 \in 0 .. Count
  <2>1. at \in Int /\ Count \in Nat
    BY <1>2, <1>3, OperandsOf
  <2>2. j \in 1 .. Count /\ Nth(j) = at
    BY <1>2, <1>3, <1>4, <2>1, NthTwice
  <2> QED BY <2>1, <2>2
<1>6. kept = Front(j - 1)
  <2>1. kept \o <<>> = kept
    BY <1>2
  <2> QED BY <1>1, <1>2, <1>4, <2>1, SpellNone
<1>7. Wanted(j)
  <2>1. at \notin skipped
    <3>1. at \in skipped => Nth(at) < Nth(at)
      BY <1>2 DEF Passed
    <3> QED BY <1>4, <1>5, <3>1
  <2> QED BY <1>1, <1>5, <2>1 DEF Wanted
<1>8. Snapshot = state_mnemonic <=> Flags = <<>> /\ \A i \in 1 .. j - 1 : ~Wanted(i)
  BY <1>2, <1>5, <1>6, FrontLength DEF Grown
<1>9. Delimiter(j) = Spell(todo')
  BY <1>1, <1>8 DEF Delimiter
<1>10. /\ Mnemonic' = Mnemonic /\ Count' = Count /\ Snapshot' = Snapshot
       /\ Nth(at)' = j /\ Wanted(Nth(at))' /\ Front(Nth(at) - 1)' = Front(j - 1)
       /\ Delimiter(Nth(at))' = Delimiter(j)
  <2>1. /\ Mnemonic' = Mnemonic /\ Count' = Count /\ Nth(at)' = Nth(at)
        /\ Wanted(j)' = Wanted(j) /\ Front(j - 1)' = Front(j - 1) /\ Delimiter(j)' = Delimiter(j)
    <3>1. \A n : /\ Nth(n)' = Nth(n) /\ Wanted(n)' = Wanted(n) /\ Front(n)' = Front(n)
                 /\ Delimiter(n)' = Delimiter(n)
      BY <1>1, SentenceSame
    <3>2. Nth(at)' = Nth(at)
      BY <1>1 DEF Nth
    <3> QED BY <1>1, <3>1, <3>2, SentenceSame
  <2>2. /\ Wanted(Nth(at))' = Wanted(Nth(at)) /\ Front(Nth(at) - 1)' = Front(Nth(at) - 1)
        /\ Delimiter(Nth(at))' = Delimiter(Nth(at))
    BY <1>1 DEF Front, Mnemonic, Flags, Clauses, Wanted, Delimiter, Phrase, Nth, ContextOf
  <2> QED BY <1>1, <1>4, <1>7, <2>1, <2>2 DEF Snapshot
<1>11. todo' \in Seq(Call) /\ todo' # <<>> /\ Head(todo').do = "static"
  <2>1. PICK name \in GlyphSet : todo' = Static(name)
    BY <1>1, GlyphAssumption DEF FixedStrings
  <2> QED BY <2>1, StaticIsPrinted
<1>12. Typed' /\ InOperand'
  BY <1>1, <1>11 DEF Telling, Typed, InOperand
<1>13. Passed'
  BY <1>1, <1>2 DEF Passed, Nth
<1>14. Grown(Snapshot, kept)' /\ Grown(buffer_state, bufferKept)'
  BY <1>1, <1>2, <1>10 DEF Grown
<1>15. Separated'
  BY <1>1, <1>11 DEF Separated
<1>16. kept' \o Spell(todo') = Goal' /\ bufferKept' = Front(Nth(at) - 1)'
  <2>1. Opened' = Front(Nth(at) - 1)' \o Delimiter(Nth(at))'
    BY <1>1, <1>2 DEF Opened
  <2>2. Goal' = Opened'
    BY <1>1 DEF Goal
  <2> QED BY <1>1, <1>6, <1>9, <1>10, <2>1, <2>2
<1>17. at' \in 1 .. Count'
  BY <1>1, <1>3, <1>10
<1> QED BY <1>1, <1>2, <1>10, <1>12, <1>13, <1>14, <1>15, <1>16, <1>17 DEF Telling

LEMMA SkipOperandTells ==
  ASSUME Telling, InOperand, whole, todo = <<>>, SkipOperand
  PROVE  Telling'
<1>1. /\ at' = After(at) /\ phase' = "Operands" /\ kept' = bufferKept
      /\ skipped' = skipped \cup {at}
      /\ UNCHANGED <<f, hooks, insn, known, whole, todo, state_mnemonic>>
  BY DEF SkipOperand, client, request
<1>2. Snapshot' = buffer_state
  BY DEF SkipOperand, Restore, RestoreTokens, RestoreString, Snapshot
<1>3. /\ insn \in Instructions /\ at \in 1 .. Count
      /\ Grown(buffer_state, bufferKept) /\ bufferKept = Front(Nth(at) - 1)
  BY DEF Telling, Typed
<1>4. PICK j : j = Nth(at)
  OBVIOUS
<1>5. /\ at \in Int /\ j \in 1 .. Count /\ Nth(j) = at /\ Count \in Nat /\ j - 1 \in 0 .. Count
  <2>1. at \in Int /\ Count \in Nat
    BY <1>3, OperandsOf
  <2>2. j \in 1 .. Count /\ Nth(j) = at
    BY <1>3, <1>4, <2>1, NthTwice
  <2> QED BY <2>1, <2>2
<1>6. bufferKept = Front(j - 1) /\ bufferKept \in Seq(GlyphSet)
  BY <1>3, <1>4, <1>5, FrontGlyphs
<1>7. Front(j)' = Front(j - 1)
  BY <1>1, <1>3, <1>5, FrontSkipped
<1>8. Mnemonic' = Mnemonic
  BY <1>1, SentenceSame
<1>9. Grown(Snapshot, kept)'
  BY <1>1, <1>2, <1>3, <1>8 DEF Grown
<1>10. kept' = Front(j)' /\ kept' \in Seq(GlyphSet)
  BY <1>1, <1>6, <1>7
<1> QED BY <1>1, <1>3, <1>4, <1>9, <1>10, NextTells

\* Going on, with the calls of next to make, comes to the goal there.
Reaches(v, there, next) ==
  /\ v = "SUCCESS" \/ (v = "SKIP_TOKEN" /\ ~whole)
  /\ phase' = there /\ Formatted
  /\ UNCHANGED <<f, insn, known, whole, at, skipped>>
  => kept \o Spell(next) = Goal'

LEMMA ProceedTells ==
  ASSUME Telling, InOperand, todo = <<>>,
         NEW v, NEW there, NEW next, Proceed(v, there, next),
         there \in {"Format", "PostOperand"} \/ (there = "Decorators" /\ whole),
         next \in Seq(Call), there = "Format" => next = <<>>,
         Reaches(v, there, next)
  PROVE  Telling'
<1>1. CASE v = "SKIP_TOKEN" /\ whole /\ SkipOperand
  BY <1>1, SkipOperandTells
<1>2. CASE Return(v) /\ v = "FAILED" /\ UNCHANGED <<client, request, at, history>>
  <2>1. /\ UNCHANGED <<f, hooks, insn, known, whole, at, kept, skipped>>
        /\ phase' = "Done" /\ todo' = <<>> /\ result' # "SUCCESS"
    BY <1>2 DEF Return, client, request, history
  <2> QED BY <2>1, ReturnTells
<1>3. CASE /\ v = "SUCCESS" \/ (v = "SKIP_TOKEN" /\ ~whole)
           /\ phase' = there /\ todo' = next
           /\ UNCHANGED <<vars, client, request, at, state_mnemonic, buffer_state, result, history>>
  <2>1. UNCHANGED <<f, hooks, insn, known, whole, at, kept, skipped, bufferKept, isTokenList, data,
                    size, state_mnemonic, buffer_state>>
    BY <1>3 DEF vars, client, request, history
  <2>2. /\ insn \in Instructions /\ whole \in BOOLEAN /\ kept \in Seq(GlyphSet) /\ at \in 1 .. Count
    BY DEF Telling, Typed
  <2>3. Typed' /\ InOperand' /\ (Formatted' <=> Formatted)
    BY <1>3, <2>1, <2>2 DEF Typed, InOperand, Formatted
  <2>4. /\ Mnemonic' = Mnemonic /\ Count' = Count /\ Snapshot' = Snapshot
        /\ Wanted(Nth(at))' = Wanted(Nth(at)) /\ Front(Nth(at) - 1)' = Front(Nth(at) - 1)
    <3>1. Mnemonic' = Mnemonic /\ Count' = Count
      BY <2>1, SentenceSame
    <3>2. /\ Wanted(Nth(at))' = Wanted(Nth(at)) /\ Front(Nth(at) - 1)' = Front(Nth(at) - 1)
      BY <2>1 DEF Front, Mnemonic, Flags, Clauses, Wanted, Delimiter, Phrase, Nth, ContextOf
    <3> QED BY <2>1, <3>1, <3>2 DEF Snapshot
  <2>5. Formatted' => kept' \o Spell(todo') = Goal'
    BY <1>3, <2>1, <2>3 DEF Reaches
  <2>6. ASSUME whole
        PROVE  /\ Passed' /\ Grown(Snapshot, kept)' /\ Separated'
               /\ Wanted(Nth(at))' /\ Grown(buffer_state, bufferKept)'
               /\ bufferKept' = Front(Nth(at) - 1)'
    <3>1. /\ Passed /\ Grown(Snapshot, kept) /\ Separated /\ Wanted(Nth(at))
          /\ Grown(buffer_state, bufferKept) /\ bufferKept = Front(Nth(at) - 1)
      BY <2>6 DEF Telling
    <3>2. Passed'
      BY <2>1, <3>1 DEF Passed, Nth
    <3>3. Grown(Snapshot, kept)' /\ Grown(buffer_state, bufferKept)'
      BY <2>1, <2>4, <3>1 DEF Grown
    <3>4. Len(kept) # Len(Mnemonic)
      BY <3>1 DEF Separated, InOperand
    <3>5. Separated'
      BY <2>1, <2>4, <3>4 DEF Separated
    <3> QED BY <2>1, <2>4, <3>1, <3>2, <3>3, <3>5
  <2>7. phase' = "Format" => todo' = <<>>
    BY <1>3
  <2>8. phase' = "Decorators" => whole'
    BY <1>3, <2>1
  <2>9. phase' \in {"Format", "PostOperand", "Decorators"}
    BY <1>3
  <2>10. at' \in 1 .. Count'
    BY <2>1, <2>2, <2>4
  <2> QED BY <2>1, <2>3, <2>5, <2>6, <2>7, <2>8, <2>9, <2>10 DEF Telling
<1> QED BY <1>1, <1>2, <1>3 DEF Proceed

LEMMA OperandSame ==
  ASSUME UNCHANGED <<f, insn, known, whole, at, skipped>>
  PROVE  Opened' = Opened /\ TheOperand' = TheOperand /\ Phrase(at)' = Phrase(at)
<1>1. Opened' = Opened
  BY DEF Opened, Front, Mnemonic, Flags, Clauses, Wanted, Delimiter, Phrase, Nth, ContextOf
<1>2. TheOperand' = TheOperand
  BY DEF TheOperand, ContextOf
<1>3. Phrase(at)' = Phrase(at)
  BY DEF Phrase, ContextOf
<1> QED BY <1>1, <1>2, <1>3

LEMMA OperandContext ==
  ASSUME Telling, InOperand
  PROVE  /\ Context = TheOperand /\ insn \in Instructions /\ whole \in BOOLEAN
         /\ at \in 1 .. Count /\ (whole => Wanted(Nth(at)))
         /\ FormatOperand(TheOperand) \in Seq(Call)
         /\ FormatDecorators(TheOperand, at) \in Seq(Call)
<1>1. insn \in Instructions /\ whole \in BOOLEAN /\ at \in 1 .. Count /\ (whole => Wanted(Nth(at)))
  BY DEF Telling, Typed
<1>2. Context = TheOperand
  BY <1>1, OperandsOf DEF Context, TheOperand
<1>3. /\ Describes(TheOperand) /\ OperandFits(TheOperand.insn, TheOperand.op)
  BY <1>1, ContextDescribes DEF TheOperand
<1> QED BY <1>1, <1>2, <1>3, OperandCalls, DecorationCalls, PlainIsCall

LEMMA PreOperandTells == Telling /\ PreOperand => Telling'
<1> SUFFICES ASSUME Telling, PreOperand PROVE Telling'
  OBVIOUS
<1>1. phase = "PreOperand" /\ todo = <<>> /\ InOperand
  BY DEF PreOperand, Ready, InOperand
<1>2. PICK v : Proceed(v, "Format", <<>>)
  BY DEF PreOperand
<1>3. ASSUME phase' = "Format", Formatted, UNCHANGED <<f, insn, known, whole, at, skipped>>
      PROVE  kept \o Spell(<<>>) = Goal'
  <2>1. kept \o Spell(todo) = Opened
    BY <1>1, <1>3 DEF Telling, Goal
  <2>2. Goal' = Opened
    BY <1>3, OperandSame DEF Goal
  <2> QED BY <1>1, <2>1, <2>2
<1>4. <<>> \in Seq(Call)
  OBVIOUS
<1>5. Reaches(v, "Format", <<>>)
  BY <1>3 DEF Reaches
<1> QED BY <1>1, <1>2, <1>4, <1>5, ProceedTells

LEMMA FormatTheOperandTells == Telling /\ FormatTheOperand => Telling'
<1> SUFFICES ASSUME Telling, FormatTheOperand PROVE Telling'
  OBVIOUS
<1>1. phase = "Format" /\ todo = <<>> /\ InOperand
  BY DEF FormatTheOperand, Ready, InOperand
<1>2. PICK v \in Verdict("FORMAT_OPERAND") :
        Proceed(v, "PostOperand", Maybe(v = "SUCCESS", FormatOperand(TheOperand)))
  BY <1>1, OperandContext DEF FormatTheOperand
<1>3. PICK next : next = Maybe(v = "SUCCESS", FormatOperand(TheOperand))
  OBVIOUS
<1>4. next \in Seq(Call)
  BY <1>1, <1>3, OperandContext, CallsMaybe
<1>5. ASSUME v = "SUCCESS" \/ (v = "SKIP_TOKEN" /\ ~whole),
             phase' = "PostOperand", Formatted, UNCHANGED <<f, insn, known, whole, at, skipped>>
      PROVE  kept \o Spell(next) = Goal'
  <2>1. kept \o Spell(todo) = Opened /\ kept \in Seq(GlyphSet)
    BY <1>1, <1>5 DEF Telling, Goal, Typed
  <2>2. kept = Opened
    <3>1. kept \o <<>> = kept
      BY <2>1
    <3> QED BY <1>1, <2>1, <3>1, SpellNone
  <2>3. v = "SUCCESS"
    BY <1>2, <1>5 DEF Formatted, Verdict
  <2>4. next = FormatOperand(TheOperand)
    BY <1>3, <2>3 DEF Maybe
  <2>5. Goal' = Opened \o Spell(FormatOperand(TheOperand))
    <3>1. Goal' = Opened' \o Spell(FormatOperand(TheOperand))'
      BY <1>5 DEF Goal
    <3>2. Spell(FormatOperand(TheOperand))' = Spell(FormatOperand(TheOperand))
      BY <1>5, OperandSame
    <3> QED BY <1>5, <3>1, <3>2, OperandSame
  <2> QED BY <2>2, <2>4, <2>5
<1>6. Reaches(v, "PostOperand", next)
  BY <1>5 DEF Reaches
<1> QED BY <1>1, <1>2, <1>3, <1>4, <1>6, ProceedTells

LEMMA PostOperandTells == Telling /\ PostOperand => Telling'
<1> SUFFICES ASSUME Telling, PostOperand PROVE Telling'
  OBVIOUS
<1>1. phase = "PostOperand" /\ todo = <<>> /\ InOperand
  BY DEF PostOperand, Ready, InOperand
<1>2. PICK o, s, d : /\ o = Opened /\ s = Spell(FormatOperand(TheOperand))
                     /\ d = FormatDecorators(TheOperand, at)
  OBVIOUS
<1>3. kept \in Seq(GlyphSet) /\ (Formatted => kept = o \o s)
  <2>1. kept \in Seq(GlyphSet) /\ (Formatted => kept \o Spell(todo) = o \o s)
    BY <1>1, <1>2 DEF Telling, Goal, Typed
  <2>2. kept \o <<>> = kept
    BY <2>1
  <2> QED BY <1>1, <2>1, <2>2, SpellNone
<1>4. d \in Seq(Call) /\ o \in Seq(GlyphSet) /\ s \in Seq(GlyphSet) /\ Spell(d) \in Seq(GlyphSet)
  BY <1>1, <1>2, OperandContext, OpenedBegins, SpellGlyphs
<1>5. CASE whole
  <2>1. PICK v : Proceed(v, "Decorators", d)
    BY <1>1, <1>2, <1>5, OperandContext DEF PostOperand
  <2>2. ASSUME phase' = "Decorators", Formatted, UNCHANGED <<f, insn, known, whole, at, skipped>>
        PROVE  kept \o Spell(d) = Goal'
    <3>1. Goal' = Opened \o Phrase(at)
      <4>1. Goal' = Opened' \o Phrase(at)'
        BY <2>2 DEF Goal
      <4> QED BY <2>2, <4>1, OperandSame
    <3>2. Phrase(at) = s \o Spell(d)
      BY <1>2, <1>5 DEF Phrase, TheOperand, Maybe
    <3>3. PICK e : e = Spell(d)
      OBVIOUS
    <3>4. (o \o s) \o e = o \o (s \o e)
      BY <1>4, <3>3, GlyphsConcat
    <3> QED BY <1>2, <1>3, <2>2, <3>1, <3>2, <3>3, <3>4
  <2>3. Reaches(v, "Decorators", d)
    BY <2>2 DEF Reaches
  <2> QED BY <1>1, <1>4, <1>5, <2>1, <2>3, ProceedTells
<1>6. CASE ~whole
  <2>1. /\ phase' = "Done" /\ todo' = <<>>
        /\ UNCHANGED <<f, hooks, insn, known, whole, at, kept, skipped>>
    BY <1>6 DEF PostOperand, Return, client, request, history
  <2>2. Formatted => kept = Sentence
    BY <1>1, <1>2, <1>3, <1>6, OperandContext, OpenedBegins
  <2> QED BY <1>1, <2>1, <2>2, ReturnTells
<1> QED BY <1>5, <1>6

LEMMA EndOperandTells == Telling /\ EndOperand => Telling'
<1> SUFFICES ASSUME Telling, EndOperand PROVE Telling'
  OBVIOUS
<1>1. /\ phase = "Decorators" /\ todo = <<>> /\ InOperand /\ whole
      /\ at' = After(at) /\ phase' = "Operands"
      /\ UNCHANGED <<isTokenList, data, size, f, hooks, insn, known, whole, todo, state_mnemonic,
                     kept, skipped>>
  BY DEF EndOperand, Ready, InOperand, Telling, vars, client, request, history
<1>2. /\ insn \in Instructions /\ at \in 1 .. Count /\ Grown(Snapshot, kept)
      /\ kept \in Seq(GlyphSet) /\ kept \o Spell(todo) = Opened \o Phrase(at)
  BY <1>1 DEF Telling, Typed, Goal, Formatted
<1>3. kept = Front(Nth(at))
  <2>1. kept \o <<>> = kept
    BY <1>2
  <2> QED BY <1>1, <1>2, <2>1, OperandContext, OpenedBegins, SpellNone
<1>4. PICK j : j = Nth(at)
  OBVIOUS
<1>5. Mnemonic' = Mnemonic /\ Front(j)' = Front(j) /\ Snapshot' = Snapshot
  BY <1>1, SentenceSame DEF Snapshot
<1>6. Grown(Snapshot, kept)'
  BY <1>1, <1>2, <1>5 DEF Grown
<1>7. kept = Front(j)
  BY <1>3, <1>4
<1>8. kept' = Front(j)' /\ kept' \in Seq(GlyphSet)
  BY <1>1, <1>2, <1>5, <1>7
<1> QED BY <1>1, <1>2, <1>4, <1>6, <1>8, NextTells

LEMMA EndInstructionTells == Telling /\ EndInstruction => Telling'
<1> SUFFICES ASSUME Telling, EndInstruction PROVE Telling'
  OBVIOUS
<1>1. /\ phase = "Operands" /\ todo = <<>> /\ at \notin DOMAIN insn.operands
      /\ phase' = "Done" /\ todo' = <<>>
      /\ UNCHANGED <<f, hooks, insn, known, whole, at, kept, skipped>>
  BY DEF EndInstruction, Ready, Return, client, request, history
<1>2. /\ insn \in Instructions /\ whole /\ at \in Int /\ Nth(at) \in 1 .. Count + 1
      /\ kept \in Seq(GlyphSet) /\ kept \o Spell(todo) = Front(Nth(at) - 1)
  BY <1>1 DEF Telling, Typed, Goal
<1>3. Count \in Nat /\ Nth(at) = Count + 1
  <2>1. Count \in Nat /\ at \notin 1 .. Count
    BY <1>1, <1>2, OperandsOf
  <2>2. Nth(at) \notin 1 .. Count
    BY <1>2, <2>1, NthTwice
  <2> QED BY <1>2, <2>1, <2>2
<1>4. kept = Sentence
  <2>1. kept \o <<>> = kept
    BY <1>2
  <2>2. Nth(at) - 1 = Count
    BY <1>3
  <2>3. Front(Nth(at) - 1) = Sentence
    BY <1>2, <2>2 DEF Front, Sentence, Count
  <2> QED BY <1>1, <1>2, <2>1, <2>3, SpellNone
<1> QED BY <1>1, <1>4, ReturnTells

-----------------------------------------------------------------------------

LEMMA FormatterTells == Sound /\ Telling /\ [FormatterNext]_formatterVars => Telling'
<1> SUFFICES ASSUME Sound, Telling, [FormatterNext]_formatterVars PROVE Telling'
  OBVIOUS
<1>1. ASSUME Configure, UNCHANGED history PROVE Telling'
  <2>1. /\ phase = "Idle"
        /\ UNCHANGED <<insn, known, whole, at, phase, todo, kept, skipped>>
    BY <1>1 DEF Configure, request, history
  <2> QED BY <2>1, SettingTells
<1>2. ASSUME NEW property, NEW value, SetProperty(property, value) PROVE Telling'
  BY <1>1, <1>2 DEF SetProperty, Configure
<1>3. ASSUME NEW hook, SetHook(hook) PROVE Telling'
  BY <1>1, <1>3 DEF SetHook, Configure
<1>4. ASSUME Returned \/ UNCHANGED formatterVars PROVE Telling'
  <2>1. UNCHANGED <<f, hooks, insn, known, whole, at, phase, todo, kept, skipped, bufferKept,
                    isTokenList, data, size, state_mnemonic, buffer_state, result>>
    BY <1>4 DEF Returned, formatterVars, vars, client, request, history
  <2> QED BY <2>1, QuietTells
<1> QED BY <1>2, <1>3, <1>4, InstructionTells, OneOperandTells, RememberTells, PassMaskTells,
           BeginOperandTells, PreOperandTells, FormatTheOperandTells, PostOperandTells,
           EndOperandTells, EndInstructionTells, StepTells DEF FormatterNext

LEMMA InitTells == FormatterInit => Telling
<1> SUFFICES ASSUME FormatterInit PROVE Telling
  OBVIOUS
<1>1. <<>> \in Seq(GlyphSet) /\ <<>> \in Seq(Call)
  OBVIOUS
<1>2. Typed /\ ~InOperand
  BY <1>1 DEF FormatterInit, Typed, InOperand
<1> QED BY <1>2 DEF FormatterInit, Telling

(* For every instruction, every style, every setting, every set of hooks    *)
(* and every size of the buffer, a call of the formatter prints the         *)
(* sentence, and a call that ends in an error has printed a beginning of it *)
(* (FormatterIntel.c:90, FormatterATT.c:94).                                *)
THEOREM PrintsTheSentenceAlways == FormatterSpec => []PrintsTheSentence
<1>1. Telling => PrintsTheSentence
  <2> SUFFICES ASSUME Telling, phase = "Done", Formatted
               PROVE  /\ result = "SUCCESS" => kept = Sentence
                      /\ Len(kept) <= Len(Sentence) /\ kept = SubSeq(Sentence, 1, Len(kept))
    BY DEF PrintsTheSentence, WholeSentence, StopsAtTheError, Succeeded, Formatted
  <2>1. kept \in Seq(GlyphSet) /\ Beginning(kept, Sentence) /\ (result = "SUCCESS" => kept = Sentence)
    BY DEF Telling, Typed
  <2>2. Sentence \in Seq(GlyphSet)
    BY <2>1 DEF Beginning
  <2> QED BY <2>1, <2>2, BeginningLength
<1>2. Sound /\ Telling /\ [FormatterNext]_formatterVars => (Sound /\ Telling)'
  BY FormatterTells, StepSound
<1>3. FormatterInit => Sound /\ Telling
  BY InitInv, InitTells DEF FormatterInit, IInv
<1> QED BY <1>1, <1>2, <1>3, PTL DEF FormatterSpec

-----------------------------------------------------------------------------
(* What is never refused                                                    *)

\* The size of a broadcast is printed, where MASM cannot do without.
SizeGiven == f.style = "MASM" /\ DynamicBroadcast(insn) => f.force_memory_size

Willing == SizeGiven => /\ todo \in Seq(PlainCall)
                        /\ phase = "Done" => result # "INVALID_ARGUMENT"

LEMMA PlainSucceeds ==
  ASSUME NEW call \in PlainCall, Perform(call)
  PROVE  status' \in {"SUCCESS", "INSUFFICIENT_BUFFER_SIZE"}
<1>1. call.do # "fail"
  BY DEF PlainCall
<1> QED BY <1>1 DEF Perform, Append_, AppendNew, AppendSame, AppendFull, AppendPredefined,
             PredefinedNew, PredefinedFull, AppendText, TextNew, TextFull, Fails

LEMMA StepWilling == Willing /\ Step => Willing'
<1> SUFFICES ASSUME Willing, Step PROVE Willing'
  OBVIOUS
<1>1. PICK call : call = Head(todo)
  OBVIOUS
<1>2. /\ Perform(call) /\ todo # <<>> /\ UNCHANGED <<f, insn>>
      /\ \/ todo' = Tail(todo) /\ phase' = phase /\ result' = result
         \/ todo' = <<>> /\ result' = status'
  BY <1>1 DEF Step, Return, client, request
<1>3. SizeGiven' = SizeGiven
  BY <1>2 DEF SizeGiven
<1>4. ASSUME SizeGiven PROVE todo' \in Seq(PlainCall) /\ (phase' = "Done" => result' # "INVALID_ARGUMENT")
  <2>1. todo \in Seq(PlainCall) /\ (phase = "Done" => result # "INVALID_ARGUMENT")
    BY <1>4 DEF Willing
  <2>2. call \in PlainCall /\ Tail(todo) \in Seq(PlainCall) /\ <<>> \in Seq(PlainCall)
    BY <1>1, <1>2, <2>1
  <2>3. status' # "INVALID_ARGUMENT"
    BY <1>2, <2>2, PlainSucceeds
  <2> QED BY <1>2, <2>1, <2>2, <2>3
<1> QED BY <1>3, <1>4 DEF Willing

\* Every function prints what it can; nothing but the size can be missing.
LEMMA ProceedWilling ==
  ASSUME Willing, phase # "Done", NEW v, NEW there, NEW next, Proceed(v, there, next),
         there # "Done", SizeGiven => next \in Seq(PlainCall)
  PROVE  Willing'
<1>1. UNCHANGED <<f, insn>>
  BY DEF Proceed, SkipOperand, client, request
<1>2. SizeGiven' = SizeGiven
  BY <1>1 DEF SizeGiven
<1>3. \/ phase' = "Operands" /\ todo' = todo
      \/ todo' = <<>> /\ result' = "FAILED"
      \/ phase' = there /\ todo' = next
  BY DEF Proceed, SkipOperand, Return
<1>4. <<>> \in Seq(PlainCall)
  OBVIOUS
<1> QED BY <1>2, <1>3, <1>4 DEF Willing

LEMMA FormatterWilling == Telling /\ Willing /\ [FormatterNext]_formatterVars => Willing'
<1> SUFFICES ASSUME Telling, Willing, [FormatterNext]_formatterVars PROVE Willing'
  OBVIOUS
<1>1. insn \in Instructions /\ <<>> \in Seq(PlainCall)
  BY DEF Telling, Typed
<1>2. /\ Describes(Context) /\ Describes(ContextOf(<<>>))
      /\ FormatHead(Context) \in Seq(PlainCall) /\ FormatDfv(Context) \in Seq(PlainCall)
      /\ FormatDecorators(Context, at) \in Seq(PlainCall)
  <2>1. Describes(Context)
    BY <1>1, ContextDescribes DEF Context
  <2> QED BY <1>1, <2>1, ContextDescribes, HeadCalls, DecorationCalls
<1>3. \A name \in FixedStrings : Static(name) \in Seq(PlainCall)
  BY FixedCalls
<1>4. ASSUME UNCHANGED <<f, insn>>, SizeGiven => todo' \in Seq(PlainCall),
             phase' = "Done" => phase = "Done" \/ result' # "INVALID_ARGUMENT",
             phase = "Done" => result' = result
      PROVE  Willing'
  BY <1>4 DEF Willing, SizeGiven
<1>5. SizeGiven => todo \in Seq(PlainCall)
  BY DEF Willing
<1>6. ASSUME Configure PROVE Willing'
  <2>1. phase' = "Idle" /\ todo' = <<>>
    BY <1>6 DEF Configure, Telling
  <2> QED BY <1>1, <2>1 DEF Willing
<1>7. ASSUME NEW count, FormatInstruction(count) PROVE Willing'
  <2>1. UNCHANGED <<f, insn>> /\ phase = "Idle"
    BY <1>7 DEF FormatInstruction, client, request
  <2>2. \/ phase' = "Rejected" /\ todo' = todo
        \/ result' = "FAILED" /\ todo' = <<>>
        \/ phase' = "Head" /\ todo' = FormatHead(Context)
    BY <1>7 DEF FormatInstruction, Return
  <2> QED BY <1>1, <1>2, <1>4, <1>5, <2>1, <2>2
<1>8. ASSUME NEW n, FormatOneOperand(n) PROVE Willing'
  <2>1. UNCHANGED <<f, insn, todo>> /\ phase = "Idle" /\ phase' = "PreOperand"
    BY <1>8 DEF FormatOneOperand, client, request
  <2> QED BY <1>4, <1>5, <2>1
<1>9. CASE RememberMnemonic
  <2>1. UNCHANGED <<f, insn>> /\ phase = "Head" /\ phase' = "Operands" /\ todo' = FormatDfv(Context)
    BY <1>9 DEF RememberMnemonic, Ready, client, request
  <2> QED BY <1>2, <1>4, <2>1
<1>10. CASE PassMask \/ EndOperand
  <2>1. UNCHANGED <<f, insn, todo, result>> /\ phase' = "Operands" /\ phase # "Done"
    BY <1>10 DEF PassMask, EndOperand, Ready, client, request
  <2> QED BY <1>4, <1>5, <2>1
<1>11. CASE BeginOperand
  <2>1. /\ UNCHANGED <<f, insn, result>> /\ phase = "Operands" /\ phase' = "PreOperand"
        /\ todo' = Static(IF Snapshot # state_mnemonic THEN "DELIM_OPERAND" ELSE "DELIM_MNEMONIC")
    BY <1>11 DEF BeginOperand, Ready, client, request
  <2>2. todo' \in Seq(PlainCall)
    BY <1>3, <2>1 DEF FixedStrings
  <2> QED BY <1>4, <2>1, <2>2
<1>12. CASE PreOperand
  <2>1. phase = "PreOperand" /\ \E v : Proceed(v, "Format", <<>>)
    BY <1>12 DEF PreOperand, Ready
  <2> QED BY <1>1, <2>1, ProceedWilling
<1>13. CASE FormatTheOperand
  <2>1. /\ phase = "Format" /\ InOperand
        /\ \E v : Proceed(v, "PostOperand", Maybe(v = "SUCCESS", FormatOperand(Context)))
    BY <1>13 DEF FormatTheOperand, Ready, InOperand
  <2>2. PICK v : Proceed(v, "PostOperand", Maybe(v = "SUCCESS", FormatOperand(Context)))
    BY <2>1
  <2>3. SizeGiven => FormatOperand(Context) \in Seq(PlainCall)
    <3>1. Context = TheOperand /\ at \in 1 .. Count
      BY <2>1, OperandContext
    <3>2. OperandFits(TheOperand.insn, TheOperand.op)
      BY <1>1, <3>1, ContextDescribes DEF TheOperand
    <3>3. SizeGiven => Sized(TheOperand)
      BY DEF SizeGiven, Sized, TheOperand, ContextOf
    <3> QED BY <3>1, <3>2, <3>3, OperandCalls
  <2>4. SizeGiven => Maybe(v = "SUCCESS", FormatOperand(Context)) \in Seq(PlainCall)
    BY <2>3, CallsMaybe
  <2> QED BY <2>1, <2>2, <2>4, ProceedWilling
<1>14. CASE PostOperand
  <2>1. CASE whole
    <3>1. phase = "PostOperand" /\ \E v : Proceed(v, "Decorators", FormatDecorators(Context, at))
      BY <1>14, <2>1 DEF PostOperand, Ready
    <3> QED BY <1>2, <3>1, ProceedWilling
  <2>2. CASE ~whole
    <3>1. UNCHANGED <<f, insn>> /\ todo' = <<>> /\ phase = "PostOperand" /\ result' # "INVALID_ARGUMENT"
      BY <1>14, <2>2 DEF PostOperand, Ready, Return, client, request
    <3> QED BY <1>1, <1>4, <3>1
  <2> QED BY <2>1, <2>2
<1>15. CASE EndInstruction
  <2>1. UNCHANGED <<f, insn>> /\ todo' = <<>> /\ phase = "Operands" /\ result' # "INVALID_ARGUMENT"
    BY <1>15 DEF EndInstruction, Ready, Return, client, request
  <2> QED BY <1>1, <1>4, <2>1
<1>16. CASE Returned \/ UNCHANGED formatterVars
  <2>1. UNCHANGED <<f, insn, todo, phase, result>>
    BY <1>16 DEF Returned, formatterVars, client, request
  <2> QED BY <1>4, <1>5, <2>1
<1> QED BY <1>6, <1>7, <1>8, <1>9, <1>10, <1>11, <1>12, <1>13, <1>14, <1>15, <1>16, StepWilling
        DEF FormatterNext, SetProperty, SetHook

(* A decoded instruction is refused in one case only: MASM style, whose     *)
(* broadcasts need a size, without the setting that prints it               *)
(* (FormatterIntel.c:510); whatever else a client sets, and whatever the    *)
(* instruction, what the formatter asks for is there (FormatterBase.c:230,  *)
(* FormatterIntel.c:463).                                                   *)
THEOREM RefusesOnlyUnsizedBroadcasts == FormatterSpec => [](SizeGiven => NeverRefused)
<1>1. FormatterInit => Sound /\ Telling /\ Willing
  <2>1. FormatterInit => Willing
    BY DEF FormatterInit, Willing
  <2> QED BY <2>1, InitInv, InitTells DEF FormatterInit, IInv
<1>2. Sound /\ Telling /\ Willing /\ [FormatterNext]_formatterVars => (Sound /\ Telling /\ Willing)'
  BY FormatterTells, FormatterWilling, StepSound
<1>3. Willing => (SizeGiven => NeverRefused)
  BY DEF Willing, NeverRefused
<1> QED BY <1>1, <1>2, <1>3, PTL DEF FormatterSpec

\* No setting of the client takes the size away that the MASM preset prints.
SizesKept == \A setting \in Settings : setting[1] = "FORCE_SIZE" => setting[2] # FALSE

MasmSized == /\ {"style", "force_memory_size"} \subseteq DOMAIN f
             /\ f.style = "MASM" => f.force_memory_size

LEMMA SettingSized ==
  ASSUME MasmSized, NEW property, NEW value, SetProperty(property, value),
         property = "FORCE_SIZE" => value # FALSE
  PROVE  MasmSized'
<1>1. CASE ~Settable(property, value)
  BY <1>1 DEF SetProperty, MasmSized
<1>2. CASE Settable(property, value)
  <2> DEFINE field == IF property \in DOMAIN BooleanField THEN BooleanField[property]
                                                          ELSE SignednessField[property]
  <2>1. f' = [f EXCEPT ![field] = value]
    BY <1>2 DEF SetProperty, WithProperty
  <2>2. field # "style" /\ (field = "force_memory_size" => property = "FORCE_SIZE")
    BY <1>2 DEF Settable, BooleanField, SignednessField
  <2>3. property = "FORCE_SIZE" => value = TRUE
    BY <1>2 DEF Settable, BooleanField, SignednessField
  <2> HIDE DEF field
  <2>4. DOMAIN f' = DOMAIN f /\ f'["style"] = f["style"]
    BY <2>1, <2>2 DEF MasmSized
  <2>5. CASE field = "force_memory_size"
    <3>1. f'["force_memory_size"] = TRUE
      BY <2>1, <2>2, <2>3, <2>5 DEF MasmSized
    <3> QED BY <2>4, <3>1 DEF MasmSized
  <2>6. CASE field # "force_memory_size"
    <3>1. f'["force_memory_size"] = f["force_memory_size"]
      BY <2>1, <2>6 DEF MasmSized
    <3> QED BY <2>4, <3>1 DEF MasmSized
  <2> QED BY <2>5, <2>6
<1> QED BY <1>1, <1>2

LEMMA FormatterSized == SizesKept /\ MasmSized /\ [FormatterNext]_formatterVars => MasmSized'
<1> SUFFICES ASSUME SizesKept, MasmSized, [FormatterNext]_formatterVars PROVE MasmSized'
  OBVIOUS
<1>1. CASE \E setting \in Settings : SetProperty(setting[1], setting[2])
  BY <1>1, SettingSized DEF SizesKept
<1>2. CASE UNCHANGED f
  BY <1>2 DEF MasmSized
<1>3. (\E setting \in Settings : SetProperty(setting[1], setting[2])) \/ UNCHANGED f
  BY DEF FormatterNext, formatterVars, client, SetHook, FormatInstruction, FormatOneOperand,
         RememberMnemonic, PassMask, BeginOperand, PreOperand, FormatTheOperand, PostOperand,
         Proceed, SkipOperand, EndOperand, EndInstruction, Step, Returned
<1> QED BY <1>1, <1>2, <1>3

(* A client that leaves the sizes of the MASM style alone never has a       *)
(* decoded instruction refused, whatever else it sets and whatever its       *)
(* hooks return.                                                             *)
THEOREM NeverRefusedWithSizes ==
  ASSUME SizesKept
  PROVE  FormatterSpec => []NeverRefused
<1>1. FormatterInit => MasmSized
  <2> SUFFICES ASSUME NEW style, f = Preset(style) PROVE MasmSized
    BY DEF FormatterInit
  <2>1. /\ DOMAIN f = DOMAIN Preset(style)
        /\ f["style"] = style /\ f["force_memory_size"] = (style = "MASM")
    BY DEF Preset
  <2>2. {"style", "force_memory_size"} \subseteq DOMAIN Preset(style)
    BY DEF Preset
  <2> QED BY <2>1, <2>2 DEF MasmSized
<1>2. MasmSized /\ [FormatterNext]_formatterVars => MasmSized'
  BY FormatterSized
<1>3. MasmSized => SizeGiven
  BY DEF MasmSized, SizeGiven
<1>4. FormatterSpec => [](SizeGiven => NeverRefused)
  BY RefusesOnlyUnsizedBroadcasts
<1> QED BY <1>1, <1>2, <1>3, <1>4, PTL DEF FormatterSpec

-----------------------------------------------------------------------------
(* The tokens                                                               *)

\* The token whose text is at a has n bytes, its NUL included, and says what
\* comes after the first b glyphs of t.
Tells(m, t, a, b, n) ==
  /\ a \in Nat /\ a >= 2 /\ b \in Nat /\ n \in Nat /\ n >= 1 /\ b + n - 1 <= Len(t)
  /\ m[a + n - 1] = Nul
  /\ \A i \in 1 .. n - 1 : m[a + i - 1] = Code[t[b + i]]

\* The tokens at the places of P, each linked to the next, say t from the
\* token first on, and the last of them is the end of t.
Thread(P, b, n, m, t, first, last) ==
  /\ first \in P /\ last \in P
  /\ \A a \in P : first <= a /\ a <= last /\ Tells(m, t, a, b[a], n[a])
  /\ \A a \in P : a # last => /\ m[a - 1] = n[a] /\ a + 2 + n[a] \in P
                              /\ b[a + 2 + n[a]] = b[a] + n[a] - 1
  /\ m[last - 1] = 0
  /\ b[last] + n[last] - 1 = Len(t)

\* Glyphs are added behind those of t.
Longer(t, t2) == /\ Len(t) \in Nat /\ Len(t2) \in Nat /\ Len(t) <= Len(t2)
                 /\ \A i \in 1 .. Len(t) : t2[i] = t[i]

LEMMA TellsStill ==
  ASSUME NEW m, NEW m2, NEW t, NEW t2, NEW a, NEW b, NEW n, Tells(m, t, a, b, n), Longer(t, t2),
         \A i \in Nat : a <= i /\ i <= a + n - 1 => m2[i] = m[i]
  PROVE  Tells(m2, t2, a, b, n)
<1>1. /\ a \in Nat /\ b \in Nat /\ n \in Nat /\ n >= 1 /\ b + n - 1 <= Len(t)
      /\ Len(t) \in Nat /\ Len(t2) \in Nat /\ Len(t) <= Len(t2)
  BY DEF Tells, Longer
<1>2. m2[a + n - 1] = m[a + n - 1]
  <2>1. a + n - 1 \in Nat /\ a <= a + n - 1
    BY <1>1
  <2> QED BY <2>1
<1>3. ASSUME NEW i \in 1 .. n - 1
      PROVE  m2[a + i - 1] = m[a + i - 1] /\ t2[b + i] = t[b + i]
  <2>1. a + i - 1 \in Nat /\ a <= a + i - 1 /\ a + i - 1 <= a + n - 1 /\ b + i \in 1 .. Len(t)
    BY <1>1
  <2> QED BY <2>1 DEF Longer
<1>4. \A i \in 1 .. n - 1 : m2[a + i - 1] = Code[t2[b + i]]
  BY <1>3 DEF Tells
<1>5. m2[a + n - 1] = 0
  BY <1>2 DEF Tells
<1>6. a >= 2 /\ b + n - 1 <= Len(t2)
  BY <1>1 DEF Tells
<1> QED BY <1>1, <1>4, <1>5, <1>6 DEF Tells

\* A token in front of the last ends in front of the last one's header.
LEMMA InFront ==
  ASSUME NEW P, NEW b, NEW n, NEW m, NEW t, NEW first, NEW last,
         Thread(P, b, n, m, t, first, last), NEW a \in P, a # last
  PROVE  /\ a \in Nat /\ last \in Nat /\ n[a] \in Nat
         /\ a + n[a] - 1 < last - 2 /\ a - 1 < last - 2
<1>1. a + 2 + n[a] \in P /\ a \in Nat /\ n[a] \in Nat /\ last \in Nat /\ n[a] >= 1
  BY DEF Thread, Tells
<1>2. a + 2 + n[a] <= last
  BY <1>1 DEF Thread
<1> QED BY <1>1, <1>2

\* The last token is closed: its length is known, its text stays.
Closes(m, m2, last, length) ==
  /\ m2[last - 1] = length
  /\ \A i \in Nat : i <= last + length - 1 /\ i # last - 1 => m2[i] = m[i]

\* The last token is closed, and other tokens, c and k, are put behind it.
Joins(P, b, n, m, t, first, last, Q, c, k, m2, t2, next, last2) ==
  /\ Thread(P, b, n, m, t, first, last) /\ Longer(t, t2) /\ Closes(m, m2, last, n[last])
  /\ next = last + 2 + n[last]
  /\ Thread(Q, c, k, m2, t2, next, last2) /\ c[next] = Len(t)

\* There is a thread from first to last2, whose ends are the given ones.
ThreadBetween(S, m2, t2, first, begin, length, last2, length2) ==
  \E B, N : /\ Thread(S, B, N, m2, t2, first, last2)
            /\ N[last2] = length2 /\ B[first] = begin /\ N[first] = length

LEMMA ThreadJoins ==
  ASSUME NEW P, NEW b, NEW n, NEW m, NEW t, NEW first, NEW last,
         NEW m2, NEW t2, NEW Q, NEW c, NEW k, NEW next, NEW last2,
         Joins(P, b, n, m, t, first, last, Q, c, k, m2, t2, next, last2)
  PROVE  ThreadBetween(P \cup Q, m2, t2, first, b[first], n[first], last2, k[last2])
<1>0. /\ Thread(P, b, n, m, t, first, last) /\ Longer(t, t2) /\ Closes(m, m2, last, n[last])
      /\ next = last + 2 + n[last]
      /\ Thread(Q, c, k, m2, t2, next, last2) /\ c[next] = Len(t)
  BY DEF Joins
<1> USE <1>0
<1> DEFINE B == [a \in P \cup Q |-> IF a \in P THEN b[a] ELSE c[a]]
           N == [a \in P \cup Q |-> IF a \in P THEN n[a] ELSE k[a]]
<1>1. /\ last \in Nat /\ last >= 2 /\ n[last] \in Nat /\ n[last] >= 1 /\ first \in Nat
      /\ b[last] \in Nat /\ first <= last /\ next > last /\ next \in Nat
      /\ b[last] + n[last] - 1 = Len(t)
  <2>1. /\ Tells(m, t, last, b[last], n[last]) /\ Tells(m, t, first, b[first], n[first])
        /\ first <= last /\ b[last] + n[last] - 1 = Len(t)
    BY DEF Thread
  <2>2. /\ last \in Nat /\ last >= 2 /\ n[last] \in Nat /\ n[last] >= 1 /\ first \in Nat
        /\ b[last] \in Nat
    BY <2>1 DEF Tells
  <2> QED BY <2>1, <2>2
<1>2. \A a \in Q : a \in Nat /\ next <= a /\ a <= last2 /\ a \notin P
  <2> SUFFICES ASSUME NEW a \in Q PROVE a \in Nat /\ next <= a /\ a <= last2 /\ a \notin P
    OBVIOUS
  <2>1. a \in Nat /\ next <= a /\ a <= last2
    BY DEF Thread, Tells
  <2>2. a \in P => a <= last
    BY DEF Thread
  <2> QED BY <1>1, <2>1, <2>2
<1>3. /\ \A a \in P : B[a] = b[a] /\ N[a] = n[a]
      /\ \A a \in Q : B[a] = c[a] /\ N[a] = k[a]
  BY <1>2
<1> HIDE DEF B, N
<1>4. /\ first \in P /\ last \in P /\ next \in Q /\ last2 \in Q /\ last2 \in Nat /\ next <= last2
      /\ m2[last2 - 1] = 0 /\ c[last2] + k[last2] - 1 = Len(t2)
  BY <1>2 DEF Thread
<1>5. ASSUME NEW a \in P
      PROVE  /\ first <= a /\ a <= last2 /\ Tells(m2, t2, a, B[a], N[a]) /\ a # last2
             /\ m2[a - 1] = N[a] /\ a + 2 + N[a] \in P \cup Q
             /\ B[a + 2 + N[a]] = B[a] + N[a] - 1
  <2>1. /\ first <= a /\ a <= last /\ Tells(m, t, a, b[a], n[a])
        /\ a \in Nat /\ a >= 2 /\ n[a] \in Nat
    BY DEF Thread, Tells
  <2>2. B[a] = b[a] /\ N[a] = n[a] /\ a <= last2 /\ a # last2
    BY <1>1, <1>3, <1>4, <2>1
  <2>3. ASSUME NEW i \in Nat, a <= i, i <= a + n[a] - 1 PROVE m2[i] = m[i]
    <3>1. CASE a = last
      <4>1. i <= last + n[last] - 1 /\ i # last - 1
        BY <1>1, <2>3, <3>1
      <4> QED BY <4>1 DEF Closes
    <3>2. CASE a # last
      <4>1. a + n[a] - 1 < last - 2
        BY <3>2, InFront
      <4>2. i <= last + n[last] - 1 /\ i # last - 1
        BY <1>1, <2>1, <2>3, <4>1
      <4> QED BY <4>2 DEF Closes
    <3> QED BY <3>1, <3>2
  <2>4. Tells(m2, t2, a, b[a], n[a])
    BY <2>1, <2>3, TellsStill
  <2>5. CASE a = last
    <3>1. a + 2 + N[a] = next /\ B[next] = c[next] /\ m2[a - 1] = N[a]
      BY <1>3, <1>4, <2>2, <2>5 DEF Closes
    <3>2. B[next] = B[a] + N[a] - 1
      BY <1>1, <2>2, <2>5, <3>1
    <3> QED BY <1>4, <2>1, <2>2, <2>4, <3>1, <3>2
  <2>6. CASE a # last
    <3>1. m[a - 1] = n[a] /\ a + 2 + n[a] \in P /\ b[a + 2 + n[a]] = b[a] + n[a] - 1
      BY <2>6 DEF Thread
    <3>2. m2[a - 1] = m[a - 1]
      <4>1. a - 1 \in Nat /\ a - 1 < last - 2
        BY <2>1, <2>6, InFront
      <4>2. a - 1 <= last + n[last] - 1 /\ a - 1 # last - 1
        BY <1>1, <4>1
      <4> QED BY <4>1, <4>2 DEF Closes
    <3>3. B[a + 2 + n[a]] = b[a + 2 + n[a]]
      BY <1>3, <3>1
    <3> QED BY <2>1, <2>2, <2>4, <3>1, <3>2, <3>3
  <2> QED BY <2>5, <2>6
<1>6. ASSUME NEW a \in Q
      PROVE  /\ first <= a /\ a <= last2 /\ Tells(m2, t2, a, B[a], N[a])
             /\ a # last2 => /\ m2[a - 1] = N[a] /\ a + 2 + N[a] \in P \cup Q
                             /\ B[a + 2 + N[a]] = B[a] + N[a] - 1
  <2>1. /\ Tells(m2, t2, a, c[a], k[a])
        /\ a # last2 => /\ m2[a - 1] = k[a] /\ a + 2 + k[a] \in Q
                        /\ c[a + 2 + k[a]] = c[a] + k[a] - 1
    BY DEF Thread
  <2>2. B[a] = c[a] /\ N[a] = k[a] /\ (a # last2 => B[a + 2 + k[a]] = c[a + 2 + k[a]])
    BY <1>3, <2>1
  <2>3. first <= a /\ a <= last2
    BY <1>1, <1>2
  <2> QED BY <2>1, <2>2, <2>3
<1>7. B[last2] + N[last2] - 1 = Len(t2)
  BY <1>3, <1>4
<1>8. Thread(P \cup Q, B, N, m2, t2, first, last2)
  BY <1>4, <1>5, <1>6, <1>7 DEF Thread
<1>9. N[last2] = k[last2] /\ B[first] = b[first] /\ N[first] = n[first]
  BY <1>3, <1>4
<1> QED BY <1>8, <1>9 DEF ThreadBetween

\* A glyph is written at the end of the last token.
LEMMA ThreadWrites ==
  ASSUME NEW P, NEW b, NEW n, NEW m, NEW t, NEW first, NEW last,
         Thread(P, b, n, m, t, first, last),
         NEW m2, NEW t2, Longer(t, t2), Len(t2) = Len(t) + 1,
         \A i \in Nat : i < last + n[last] - 1 => m2[i] = m[i],
         m2[last + n[last] - 1] = Code[t2[Len(t2)]], m2[last + n[last]] = Nul
  PROVE  \E N : /\ Thread(P, b, N, m2, t2, first, last) /\ N[last] = n[last] + 1
                /\ \A a \in P : a # last => N[a] = n[a]
<1> DEFINE N == [a \in P |-> IF a = last THEN n[last] + 1 ELSE n[a]]
<1>1. /\ last \in Nat /\ last >= 2 /\ n[last] \in Nat /\ n[last] >= 1 /\ b[last] \in Nat
      /\ last \in P /\ Tells(m, t, last, b[last], n[last]) /\ b[last] + n[last] - 1 = Len(t)
  BY DEF Thread, Tells
<1>2. N[last] = n[last] + 1 /\ \A a \in P : a # last => N[a] = n[a]
  BY <1>1
<1> HIDE DEF N
<1>3. Tells(m2, t2, last, b[last], N[last])
  <2>1. b[last] + N[last] - 1 <= Len(t2) /\ m2[last + N[last] - 1] = Nul
    <3>1. last + N[last] - 1 = last + n[last]
      BY <1>1, <1>2
    <3> QED BY <1>1, <1>2, <3>1 DEF Longer
  <2>2. ASSUME NEW i \in 1 .. N[last] - 1 PROVE m2[last + i - 1] = Code[t2[b[last] + i]]
    <3>1. CASE i = n[last]
      <4>1. last + i - 1 = last + n[last] - 1 /\ b[last] + i = Len(t2)
        BY <1>1, <3>1 DEF Longer
      <4> QED BY <4>1
    <3>2. CASE i # n[last]
      <4>1. i \in 1 .. n[last] - 1
        BY <1>1, <1>2, <3>2
      <4>2. last + i - 1 \in Nat /\ last + i - 1 < last + n[last] - 1 /\ b[last] + i \in 1 .. Len(t)
        BY <1>1, <4>1
      <4>3. m[last + i - 1] = Code[t[b[last] + i]]
        BY <1>1, <4>1 DEF Tells
      <4> QED BY <4>2, <4>3 DEF Longer
    <3> QED BY <3>1, <3>2
  <2> QED BY <1>1, <1>2, <2>1, <2>2 DEF Tells
<1>4. ASSUME NEW a \in P, a # last
      PROVE  /\ Tells(m2, t2, a, b[a], N[a]) /\ m2[a - 1] = N[a] /\ a + 2 + N[a] \in P
             /\ b[a + 2 + N[a]] = b[a] + N[a] - 1
  <2>1. /\ Tells(m, t, a, b[a], n[a]) /\ m[a - 1] = n[a] /\ a + 2 + n[a] \in P
        /\ b[a + 2 + n[a]] = b[a] + n[a] - 1 /\ a >= 2
    BY <1>4 DEF Thread, Tells
  <2>2. /\ a \in Nat /\ n[a] \in Nat /\ a + n[a] - 1 < last - 2 /\ a - 1 < last - 2
    BY <1>4, InFront
  <2>3. \A i \in Nat : a <= i /\ i <= a + n[a] - 1 => m2[i] = m[i]
    BY <1>1, <2>2
  <2>4. m2[a - 1] = m[a - 1]
    <3>1. a - 1 \in Nat /\ a - 1 < last + n[last] - 1
      BY <1>1, <2>1, <2>2
    <3> QED BY <3>1
  <2>5. Tells(m2, t2, a, b[a], n[a])
    BY <2>1, <2>3, TellsStill
  <2> QED BY <1>2, <1>4, <2>1, <2>4, <2>5
<1>5. m2[last - 1] = 0
  <2>1. last - 1 \in Nat /\ last - 1 < last + n[last] - 1
    BY <1>1
  <2> QED BY <2>1 DEF Thread
<1>6. b[last] + N[last] - 1 = Len(t2)
  BY <1>1, <1>2 DEF Longer
<1>7. /\ first \in P /\ last \in P
      /\ \A a \in P : first <= a /\ a <= last /\ Tells(m2, t2, a, b[a], N[a])
  <2>1. first \in P /\ \A a \in P : first <= a /\ a <= last
    BY DEF Thread
  <2> QED BY <1>1, <1>3, <1>4, <2>1
<1>8. Thread(P, b, N, m2, t2, first, last)
  BY <1>4, <1>5, <1>6, <1>7 DEF Thread
<1> QED BY <1>2, <1>8

\* The equation of the walk over the token list.
Walked(w, a) == IF NextAt(a) = 0 \/ NextText(a) >= Length THEN TextAt(a)
                ELSE TextAt(a) \o w[NextText(a)]

LEMMA WalkedExists ==
  ASSUME NEW last \in Nat, last >= 2, last + 1 = Length, \A a \in 2 .. last : mem[a - 1] \in Nat
  PROVE  \E w : w = [a \in 2 .. last |-> Walked(w, a)]
<1> DEFINE Part(d) == (last - d) .. last
           S == {d \in Nat : last - d >= 2 => \E w : w = [a \in Part(d) |-> Walked(w, a)]}
<1>1. 0 \in S
  <2> SUFFICES \E w : w = [a \in Part(0) |-> Walked(w, a)]
    OBVIOUS
  <2> DEFINE w == [a \in Part(0) |-> TextAt(a)]
  <2>1. \A a \in Part(0) : a = last
    OBVIOUS
  <2>2. ASSUME NEW a \in Part(0) PROVE Walked(w, a) = TextAt(a)
    <3>1. NextAt(a) \in Nat /\ a \in Nat
      BY <2>1 DEF NextAt
    <3>2. NextText(a) >= Length
      BY <2>1, <3>1 DEF NextText
    <3> QED BY <3>2 DEF Walked
  <2>3. w = [a \in Part(0) |-> Walked(w, a)]
    BY <2>2
  <2> HIDE DEF w
  <2> QED BY <2>3
<1>2. ASSUME NEW d \in Nat, d \in S PROVE d + 1 \in S
  <2> SUFFICES ASSUME last - (d + 1) >= 2
               PROVE  \E w : w = [a \in Part(d + 1) |-> Walked(w, a)]
    OBVIOUS
  <2>1. PICK w : w = [a \in Part(d) |-> Walked(w, a)]
    BY <1>2
  <2> DEFINE b == last - (d + 1)
             v == [a \in Part(d + 1) |-> IF a = b THEN Walked(w, b) ELSE w[a]]
  <2>2. /\ b \in 2 .. last
        /\ \A a \in Part(d + 1) : a = b \/ a \in Part(d)
        /\ \A a \in Part(d) : a \in Part(d + 1) /\ a # b /\ a \in 2 .. last
    OBVIOUS
  <2>3. \A a \in Part(d) : v[a] = w[a]
    BY <2>2
  <2>4. ASSUME NEW a \in Part(d + 1)
        PROVE  NextText(a) \in Int /\ (NextText(a) < Length => NextText(a) \in Part(d))
    <3>1. a \in 2 .. last /\ mem[a - 1] \in Nat /\ a >= b
      BY <2>2
    <3>2. NextText(a) = a + mem[a - 1] + 2
      BY DEF NextText, NextAt
    <3>3. NextText(a) \in Int /\ NextText(a) >= last - d
      BY <3>1, <3>2
    <3> QED BY <3>3
  <2>5. ASSUME NEW a \in Part(d + 1) PROVE Walked(v, a) = Walked(w, a)
    <3>1. CASE NextText(a) >= Length
      BY <3>1 DEF Walked
    <3>2. CASE NextText(a) < Length
      <4>1. v[NextText(a)] = w[NextText(a)]
        BY <2>3, <2>4, <3>2
      <4> HIDE DEF v
      <4> QED BY <4>1 DEF Walked
    <3> QED BY <2>4, <3>1, <3>2
  <2>6. \A a \in Part(d + 1) : v[a] = Walked(w, a)
    BY <2>1, <2>2
  <2>7. v = [a \in Part(d + 1) |-> Walked(v, a)]
    <3>1. v = [a \in Part(d + 1) |-> v[a]]
      OBVIOUS
    <3> HIDE DEF v
    <3> QED BY <2>5, <2>6, <3>1
  <2> QED BY <2>7
<1> HIDE DEF S
<1>3. \A d \in Nat : d \in S
  BY <1>1, <1>2, SetInduction
<1>4. PICK d \in Nat : d = last - 2
  OBVIOUS
<1>5. last - d = 2
  BY <1>4
<1>6. \E w : w = [a \in Part(d) |-> Walked(w, a)]
  BY <1>3, <1>5 DEF S
<1> QED BY <1>5, <1>6

WalkedAll(w) == w = [a \in 2 .. Length - 1 |-> Walked(w, a)]

LEMMA SpelledWalks ==
  ASSUME Length \in Nat, Length > 2, \A a \in 2 .. Length - 1 : mem[a - 1] \in Nat
  PROVE  \E w : /\ WalkedAll(w)
                /\ Spelled = w[IF NextAt(2) # 0 THEN NextText(2) ELSE 2]
<1> DEFINE w == CHOOSE w : w = [a \in 2 .. Length - 1 |-> Walked(w, a)]
<1>1. w = [a \in 2 .. Length - 1 |-> Walked(w, a)]
  <2>1. PICK last \in Nat : last = Length - 1
    OBVIOUS
  <2>2. last >= 2 /\ last + 1 = Length /\ \A a \in 2 .. last : mem[a - 1] \in Nat
    BY <2>1
  <2>3. \E v : v = [a \in 2 .. last |-> Walked(v, a)]
    BY <2>2, WalkedExists
  <2> QED BY <2>1, <2>3
<1>2. Spelled = w[IF NextAt(2) # 0 THEN NextText(2) ELSE 2]
  BY DEF Spelled, Walked
<1> HIDE DEF w
<1> QED BY <1>1, <1>2 DEF WalkedAll

\* n - 1 glyphs behind the first b, as bytes.
Said(t, b, n) == [i \in 1 .. n - 1 |-> Code[t[b + i]]]

AllSaid(t) == [i \in 1 .. Len(t) |-> Code[t[i]]]

\* The bytes of a token up to its NUL.
LEMMA TextOfToken ==
  ASSUME NEW t, NEW a, NEW b, NEW n, Tells(mem, t, a, b, n), Length \in Nat, a + n - 1 <= Length,
         \A i \in 1 .. Len(t) : Code[t[i]] # 0, Len(t) \in Nat
  PROVE  TextAt(a) = Said(t, b, n)
<1>1. a \in Nat /\ b \in Nat /\ n \in Nat /\ n >= 1 /\ b + n - 1 <= Len(t) /\ mem[a + n - 1] = 0
  BY DEF Tells
<1> DEFINE Ends(e) == mem[e] = 0 /\ \A i \in a .. e - 1 : mem[i] # 0
           end == CHOOSE e \in a .. Length : Ends(e)
<1>2. ASSUME NEW i \in a .. a + n - 2 PROVE mem[i] # 0
  <2>1. PICK j \in 1 .. n - 1 : j = i - a + 1
    BY <1>1
  <2>2. a + j - 1 = i /\ b + j \in 1 .. Len(t)
    BY <1>1, <2>1
  <2> QED BY <2>2 DEF Tells
<1>3. a + n - 1 \in a .. Length /\ Ends(a + n - 1)
  <2>1. (a + n - 1) - 1 = a + n - 2
    BY <1>1
  <2> QED BY <1>1, <1>2, <2>1
<1>4. ASSUME NEW e \in a .. Length, Ends(e) PROVE e = a + n - 1
  <2>1. CASE e < a + n - 1
    <3>1. e \in a .. a + n - 2
      BY <1>1, <2>1
    <3> QED BY <1>2, <1>4, <3>1
  <2>2. CASE e > a + n - 1
    <3>1. a + n - 1 \in a .. e - 1
      BY <1>1, <2>2
    <3> QED BY <1>1, <1>4, <3>1
  <2> QED BY <1>1, <2>1, <2>2
<1>5. end = a + n - 1
  <2> HIDE DEF Ends
  <2> QED BY <1>3, <1>4
<1>6. TextAt(a) = [k \in 1 .. end - a |-> mem[a + k - 1]]
  BY DEF TextAt
<1> HIDE DEF end
<1>7. end - a = n - 1
  BY <1>1, <1>5
<1>8. \A k \in 1 .. n - 1 : mem[a + k - 1] = Code[t[b + k]]
  BY DEF Tells
<1> QED BY <1>6, <1>7, <1>8 DEF Said

\* Reading the tokens from any of them on gives what is left of the glyphs.
LEMMA ThreadReads ==
  ASSUME NEW P, NEW b, NEW n, NEW t, NEW w, WalkedAll(w), Length \in Nat, Length > 2,
         Thread(P, b, n, mem, t, 2, data), b[2] = 0, n[2] = 1, data + n[data] <= Length,
         Len(t) \in Nat, \A i \in 1 .. Len(t) : Code[t[i]] # 0
  PROVE  w[IF NextAt(2) # 0 THEN NextText(2) ELSE 2] = AllSaid(t)
<1> DEFINE Left(k) == [i \in 1 .. Len(t) - k |-> Code[t[k + i]]]
           S == {d \in Nat : \A a \in P : data - a <= d => w[a] = Left(b[a])}
<1>1. /\ 2 \in P /\ data \in P /\ mem[data - 1] = 0 /\ b[data] + n[data] - 1 = Len(t)
      /\ \A a \in P : 2 <= a /\ a <= data /\ Tells(mem, t, a, b[a], n[a])
      /\ \A a \in P : a # data => /\ mem[a - 1] = n[a] /\ a + 2 + n[a] \in P
                                  /\ b[a + 2 + n[a]] = b[a] + n[a] - 1
  BY DEF Thread
<1> HIDE DEF Left, S
<1>2. \A a \in P : /\ a \in Nat /\ a >= 2 /\ b[a] \in Nat /\ n[a] \in Nat /\ n[a] >= 1
                   /\ b[a] + n[a] - 1 <= Len(t) /\ a <= data /\ data \in Nat
  <2>1. \A a \in P : /\ a \in Nat /\ a >= 2 /\ b[a] \in Nat /\ n[a] \in Nat /\ n[a] >= 1
                     /\ b[a] + n[a] - 1 <= Len(t)
    BY <1>1 DEF Tells
  <2> QED BY <1>1, <2>1
<1>3. ASSUME NEW a \in P
      PROVE  /\ a + n[a] <= Length /\ a \in 2 .. Length - 1
             /\ TextAt(a) = [i \in 1 .. n[a] - 1 |-> Code[t[b[a] + i]]]
             /\ w[a] = Walked(w, a)
  <2>1. a + n[a] <= Length
    <3>1. a # data => a + 2 + n[a] <= data
      BY <1>1
    <3>2. data \in Nat /\ n[data] \in Nat /\ a \in Nat /\ n[a] \in Nat
      BY <1>1, <1>2
    <3> QED BY <3>1, <3>2
  <2>2. a \in 2 .. Length - 1
    BY <1>2, <2>1
  <2>3. w[a] = Walked(w, a)
    BY <2>2 DEF WalkedAll
  <2>4. a + n[a] - 1 <= Length
    BY <1>2, <2>1
  <2>5. Tells(mem, t, a, b[a], n[a])
    BY <1>1
  <2>6. TextAt(a) = Said(t, b[a], n[a])
    BY <2>4, <2>5, TextOfToken
  <2> QED BY <2>1, <2>2, <2>3, <2>6 DEF Said
<1>4. w[data] = Left(b[data])
  <2>1. w[data] = TextAt(data)
    BY <1>1, <1>3 DEF Walked, NextAt
  <2>2. Len(t) - b[data] = n[data] - 1
    BY <1>1, <1>2
  <2> QED BY <1>1, <1>3, <2>1, <2>2 DEF Left
<1>5. ASSUME NEW a \in P, a # data, w[a + 2 + n[a]] = Left(b[a + 2 + n[a]])
      PROVE  w[a] = Left(b[a])
  <2> DEFINE na == n[a]
  <2>0. a \in Nat /\ na \in Nat /\ na >= 1 /\ a + na + 2 = a + 2 + na
    BY <1>2
  <2>1. NextAt(a) = n[a] /\ NextText(a) = a + 2 + n[a] /\ NextText(a) \in P
    <3>1. NextAt(a) = n[a]
      BY <1>1, <1>5 DEF NextAt
    <3>2. NextText(a) = a + n[a] + 2
      BY <3>1 DEF NextText
    <3>3. NextText(a) = a + 2 + n[a]
      BY <2>0, <3>2
    <3> QED BY <1>1, <1>5, <3>1, <3>3
  <2>2. NextAt(a) # 0 /\ ~(NextText(a) >= Length)
    <3>1. NextText(a) \in 2 .. Length - 1
      BY <1>3, <2>1
    <3> QED BY <1>2, <2>1, <3>1
  <2>3. w[a] = TextAt(a) \o w[NextText(a)]
    BY <1>3, <2>2 DEF Walked
  <2>4. PICK k, p : k = n[a] - 1 /\ p = b[a]
    OBVIOUS
  <2>5. k \in Nat /\ p \in Nat /\ p + k <= Len(t) /\ b[a + 2 + n[a]] = p + k
    <3>1. b[a + 2 + n[a]] = b[a] + n[a] - 1 /\ b[a] + n[a] - 1 <= Len(t) /\ b[a] \in Nat
      BY <1>1, <1>2, <1>5
    <3> QED BY <2>0, <2>4, <3>1
  <2> DEFINE g(i) == Code[t[i]]
  <2>6. TextAt(a) = [i \in 1 .. k |-> g(p + i)] /\ w[NextText(a)] = [i \in 1 .. Len(t) - (p + k) |-> g((p + k) + i)]
    BY <1>3, <1>5, <2>1, <2>4, <2>5 DEF Left
  <2>7. Left(b[a]) = [i \in 1 .. Len(t) - p |-> g(p + i)]
    BY <2>4 DEF Left
  <2> HIDE DEF g
  <2>8. [i \in 1 .. k |-> g(p + i)] \o [i \in 1 .. Len(t) - (p + k) |-> g((p + k) + i)]
          = [i \in 1 .. Len(t) - p |-> g(p + i)]
    <3> DEFINE G == {g(i) : i \in 1 .. Len(t)}
               x == [i \in 1 .. k |-> g(p + i)]
               y == [i \in 1 .. Len(t) - (p + k) |-> g((p + k) + i)]
               z == [i \in 1 .. Len(t) - p |-> g(p + i)]
    <3>1. x \in [1 .. k -> G] /\ y \in [1 .. Len(t) - (p + k) -> G] /\ z \in [1 .. Len(t) - p -> G]
      <4>1. /\ \A i \in 1 .. k : p + i \in 1 .. Len(t)
            /\ \A i \in 1 .. Len(t) - (p + k) : (p + k) + i \in 1 .. Len(t)
            /\ \A i \in 1 .. Len(t) - p : p + i \in 1 .. Len(t)
        BY <2>5
      <4> QED BY <4>1
    <3>2. \A i \in 1 .. k : x[i] = g(p + i)
      OBVIOUS
    <3>3. \A i \in 1 .. Len(t) - (p + k) : y[i] = g((p + k) + i)
      OBVIOUS
    <3>4. \A i \in 1 .. Len(t) - p : z[i] = g(p + i)
      OBVIOUS
    <3> HIDE DEF G, x, y, z
    <3>5. x \in Seq(G) /\ y \in Seq(G) /\ z \in Seq(G) /\ Len(x) = k /\ Len(y) = Len(t) - (p + k)
          /\ Len(z) = Len(t) - p
      <4>1. Len(t) - (p + k) \in Nat /\ Len(t) - p \in Nat
        BY <2>5
      <4>2. \A j \in Nat : \A e \in [1 .. j -> G] : e \in Seq(G) /\ Len(e) = j
        OBVIOUS
      <4> QED BY <2>5, <3>1, <4>1, <4>2
    <3>6. x \o y \in Seq(G) /\ Len(x \o y) = Len(z)
      BY <2>5, <3>5
    <3>7. ASSUME NEW i \in 1 .. Len(z) PROVE (x \o y)[i] = z[i]
      <4>1. CASE i <= k
        BY <2>5, <3>2, <3>4, <3>5, <3>7, <4>1
      <4>2. CASE i > k
        <5>1. i - k \in 1 .. Len(t) - (p + k) /\ (p + k) + (i - k) = p + i /\ i \in 1 .. Len(t) - p
          BY <2>5, <3>5, <4>2
        <5>2. (x \o y)[i] = y[i - k]
          BY <2>5, <3>5, <4>2
        <5>3. y[i - k] = g((p + k) + (i - k))
          BY <3>3, <5>1
        <5> QED BY <3>4, <5>1, <5>2, <5>3
      <4>3. i <= k \/ i > k
        BY <2>5, <3>5
      <4> QED BY <4>1, <4>2, <4>3, Zenon
    <3>8. x \o y = z
      <4>1. \A i \in 1 .. Len(x \o y) : (x \o y)[i] = z[i]
        BY <3>6, <3>7
      <4> QED BY <3>5, <3>6, <4>1, SeqEqual
    <3> QED BY <3>8 DEF x, y, z
  <2> QED BY <2>3, <2>6, <2>7, <2>8
<1>6. 0 \in S
  <2>1. \A a \in P : data - a <= 0 => a = data
    BY <1>1, <1>2
  <2> QED BY <1>4, <2>1 DEF S
<1>7. ASSUME NEW d \in Nat, d \in S PROVE d + 1 \in S
  <2> SUFFICES ASSUME NEW a \in P, data - a <= d + 1 PROVE w[a] = Left(b[a])
    BY DEF S
  <2>1. CASE a = data
    BY <1>4, <2>1
  <2>2. CASE a # data
    <3>1. a + 2 + n[a] \in P
      BY <1>1, <2>2
    <3>2. data - (a + 2 + n[a]) <= d
      BY <1>2
    <3>3. w[a + 2 + n[a]] = Left(b[a + 2 + n[a]])
      BY <1>7, <3>1, <3>2 DEF S
    <3> QED BY <1>5, <2>2, <3>3
  <2> QED BY <2>1, <2>2
<1>8. \A d \in Nat : d \in S
  BY <1>6, <1>7, SetInduction
<1>9. \A a \in P : w[a] = Left(b[a])
  <2> SUFFICES ASSUME NEW a \in P PROVE w[a] = Left(b[a])
    OBVIOUS
  <2>1. PICK d \in Nat : d = data - a
    BY <1>2
  <2>2. d \in S /\ data - a <= d
    BY <1>8, <2>1
  <2> QED BY <2>2 DEF S
<1>10. PICK first : first = (IF NextAt(2) # 0 THEN NextText(2) ELSE 2)
  OBVIOUS
<1>11. first \in P /\ b[first] = 0
  <2>1. CASE data = 2
    <3>1. first = 2
      BY <1>1, <1>10, <2>1 DEF NextAt
    <3> QED BY <1>1, <3>1
  <2>2. CASE data # 2
    <3>1. NextAt(2) = 1 /\ 2 + 2 + 1 \in P /\ b[2 + 2 + 1] = 0
      BY <1>1, <2>2 DEF NextAt
    <3>2. first = 2 + 2 + 1
      BY <1>10, <3>1 DEF NextText
    <3> QED BY <3>1, <3>2
  <2> QED BY <2>1, <2>2
<1>12. w[first] = Left(0)
  BY <1>9, <1>11
<1>13. Left(0) = [i \in 1 .. Len(t) |-> Code[t[i]]]
  <2>1. Len(t) - 0 = Len(t) /\ \A i \in 1 .. Len(t) : 0 + i = i
    OBVIOUS
  <2> QED BY <2>1 DEF Left
<1> QED BY <1>10, <1>12, <1>13 DEF AllSaid

\* The tokens from the placeholder to the current one say t.
Reads(P, b, n, m, t, last, length) ==
  Thread(P, b, n, m, t, 2, last) /\ n[last] = length /\ b[2] = 0 /\ n[2] = 1

\* What Sound says of a token list, as numbers.
LEMMA TokenNumbers ==
  ASSUME Sound, isTokenList
  PROVE  /\ data \in Nat /\ data >= 2 /\ size \in Nat /\ size >= 1 /\ capacity \in Nat
         /\ Length \in Nat /\ data + size <= Length /\ size <= U8Max /\ U8Max \in Nat
         /\ data + capacity = Length /\ DOMAIN mem = Offsets /\ size % (U8Max + 1) = size
<1>1. /\ data \in Nat /\ data >= 2 /\ size \in Nat /\ size >= 1 /\ capacity \in Nat
      /\ Length \in Nat /\ data + size <= Length /\ U8Max \in Nat
      /\ data + capacity = Length /\ DOMAIN mem = Offsets
  BY LengthAssumption, ByteAssumption DEF Sound, Placed, Accounting
<1>2. size <= U8Max
  BY FitsByte DEF LengthFitsByte
<1>3. \A k \in Nat : \A j \in Nat : j <= k => j % (k + 1) = j
  OBVIOUS
<1> QED BY <1>1, <1>2, <1>3

\* Closing a token and writing behind it leaves the token's text, and all
\* that is in front of it.
LEMMA CloseKeeps ==
  ASSUME Sound, isTokenList, NEW w, NEW end \in Nat, end < Length,
         DOMAIN w = {data - 1} \cup (data + size) .. end, mem' = Poke(mem, w)
  PROVE  /\ \A i \in Nat : i <= data + size - 1 /\ i # data - 1 => mem'[i] = mem[i]
         /\ \A i \in DOMAIN w : mem'[i] = w[i]
<1>0. /\ data \in Nat /\ data >= 2 /\ size \in Nat /\ size >= 1 /\ Length \in Nat
      /\ data + size <= Length /\ DOMAIN mem = Offsets
  BY TokenNumbers
<1>1. DOMAIN w \subseteq Offsets
  <2>1. /\ \A i \in (data + size) .. end : i \in 0 .. Length - 1
        /\ data - 1 \in 0 .. Length - 1
    BY <1>0
  <2> QED BY <2>1 DEF Offsets
<1>2. /\ \A i \in DOMAIN w : mem'[i] = w[i]
      /\ \A i \in Offsets \ DOMAIN w : mem'[i] = mem[i]
  <2>1. /\ \A i \in DOMAIN w : Poke(mem, w)[i] = w[i]
        /\ \A i \in Offsets \ DOMAIN w : Poke(mem, w)[i] = mem[i]
    BY <1>0, <1>1, PokeInside
  <2> QED BY <2>1
<1>3. ASSUME NEW i \in Nat, i <= data + size - 1, i # data - 1 PROVE i \in Offsets \ DOMAIN w
  BY <1>0, <1>3 DEF Offsets
<1> QED BY <1>2, <1>3

\* The last token is closed, and the text goes on behind it.
Goes(m, t, last, length) == \E P, b, n : Reads(P, b, n, m, t, last, length)
GoesOn(m2, t2, last, length, b, last2, length2) ==
  \E Q, c, k : /\ Thread(Q, c, k, m2, t2, last + 2 + length, last2)
               /\ c[last + 2 + length] = b /\ k[last2] = length2

LEMMA ReadsOn ==
  ASSUME NEW m, NEW t, NEW last, NEW length, Goes(m, t, last, length),
         NEW m2, NEW t2, Longer(t, t2), Closes(m, m2, last, length),
         NEW last2, NEW length2, GoesOn(m2, t2, last, length, Len(t), last2, length2)
  PROVE  Goes(m2, t2, last2, length2)
<1>1. PICK P, b, n : Reads(P, b, n, m, t, last, length)
  BY DEF Goes
<1>2. PICK Q, c, k : /\ Thread(Q, c, k, m2, t2, last + 2 + length, last2)
                     /\ c[last + 2 + length] = Len(t) /\ k[last2] = length2
  BY DEF GoesOn
<1>3. Thread(P, b, n, m, t, 2, last) /\ n[last] = length /\ b[2] = 0 /\ n[2] = 1
  BY <1>1 DEF Reads
<1>4. PICK next : next = last + 2 + length
  OBVIOUS
<1>5. Thread(Q, c, k, m2, t2, next, last2) /\ c[next] = Len(t) /\ next = last + 2 + n[last]
  BY <1>2, <1>3, <1>4
<1>6. Closes(m, m2, last, n[last])
  BY <1>3
<1>7. Joins(P, b, n, m, t, 2, last, Q, c, k, m2, t2, next, last2)
  BY <1>3, <1>5, <1>6 DEF Joins
<1>8. ThreadBetween(P \cup Q, m2, t2, 2, b[2], n[2], last2, k[last2])
  BY <1>7, ThreadJoins
<1> QED BY <1>2, <1>3, <1>8 DEF Reads, Goes, ThreadBetween

LEMMA NewReads ==
  ASSUME Sound, isTokenList, NEW t, Len(t) \in Nat,
         Goes(mem, t, data, size), NEW type, AppendNew(type)
  PROVE  Goes(mem', t, data', size')
<1> DEFINE next == data + size + 2
           W == {data - 1} \cup (next - 2) .. next
           w == [i \in W |-> CASE i = data - 1 -> size % (U8Max + 1)
                               [] i = next - 2 -> type
                               [] i = next - 1 -> 0
                               [] i = next     -> 0]
           Q == {next}
           c == [a \in Q |-> Len(t)]
           k == [a \in Q |-> 1]
<1>1. /\ capacity > size + 2 /\ data' = next /\ size' = 1 /\ mem' = Poke(mem, w)
  BY DEF AppendNew
<1>2. /\ data \in Nat /\ data >= 2 /\ size \in Nat /\ size >= 1 /\ next \in Nat /\ next < Length
      /\ size % (U8Max + 1) = size /\ next - 2 = data + size
  <2>1. /\ data \in Nat /\ data >= 2 /\ size \in Nat /\ size >= 1 /\ capacity \in Nat
        /\ Length \in Nat /\ data + capacity = Length /\ size % (U8Max + 1) = size
    BY TokenNumbers
  <2>2. capacity > size + 2
    BY <1>1
  <2> HIDE DEF w
  <2> QED BY <2>1, <2>2
<1>3. DOMAIN w = {data - 1} \cup (data + size) .. next
  BY <1>2
<1>4. w[data - 1] = size /\ w[next - 1] = 0 /\ w[next] = 0
  BY <1>2
<1>5. c[next] = Len(t) /\ k[next] = 1
  OBVIOUS
<1> HIDE DEF w, c, k
<1>6. /\ \A i \in Nat : i <= data + size - 1 /\ i # data - 1 => mem'[i] = mem[i]
      /\ mem'[data - 1] = size /\ mem'[next - 1] = 0 /\ mem'[next] = 0
  <2>1. /\ \A i \in Nat : i <= data + size - 1 /\ i # data - 1 => mem'[i] = mem[i]
        /\ \A i \in DOMAIN w : mem'[i] = w[i]
    BY <1>1, <1>2, <1>3, CloseKeeps
  <2>2. data - 1 \in DOMAIN w /\ next - 1 \in DOMAIN w /\ next \in DOMAIN w
    BY <1>2, <1>3
  <2> QED BY <1>4, <2>1, <2>2
<1>7. Thread(Q, c, k, mem', t, next, next)
  <2>1. Tells(mem', t, next, c[next], k[next])
    <3>1. next + 1 - 1 = next /\ 1 .. 1 - 1 = {} /\ next >= 2
      BY <1>2
    <3> QED BY <1>2, <1>5, <1>6, <3>1 DEF Tells
  <2> QED BY <1>2, <1>5, <1>6, <2>1 DEF Thread
<1>8. Longer(t, t)
  BY DEF Longer
<1>9. GoesOn(mem', t, data, size, Len(t), next, 1)
  <2>1. next = data + 2 + size
    BY <1>2
  <2>2. Thread(Q, c, k, mem', t, data + 2 + size, next) /\ c[data + 2 + size] = Len(t)
    BY <1>5, <1>7, <2>1
  <2> HIDE DEF next, Q
  <2> QED BY <1>5, <2>2 DEF GoesOn
<1>10. Closes(mem, mem', data, size)
  BY <1>6 DEF Closes
<1> HIDE DEF next, Q
<1>11. Goes(mem', t, next, 1)
  BY <1>8, <1>9, <1>10, ReadsOn
<1> QED BY <1>1, <1>11

LEMMA TextReads ==
  ASSUME Sound, isTokenList, NEW t, Len(t) \in Nat, Goes(mem, t, data, size), NEW g, TextNew(1, Code[g]),
         NEW t2, Longer(t, t2), Len(t2) = Len(t) + 1, t2[Len(t2)] = g
  PROVE  Goes(mem', t2, data', size')
<1> DEFINE end == data + size
           w == [i \in (data + size - 1) .. (data + size + 1 - 1) |->
                   IF i = data + size + 1 - 1 THEN 0 ELSE Code[g]]
<1>1. /\ HasString /\ size + 1 <= limit /\ size' = size + 1 /\ data' = data
      /\ mem' = Poke(mem, w)
  BY DEF TextNew
<1>2. /\ data \in Nat /\ data >= 2 /\ size \in Nat /\ size >= 1 /\ Length \in Nat
      /\ DOMAIN mem = Offsets /\ data + size < Length
  BY <1>1, TokenNumbers DEF Sound, Placed, Accounting
<1>3. data # 2
  BY <1>1 DEF HasString, Sound, Placeholder, TypeAt
<1>4. DOMAIN w = (data + size - 1) .. (data + size) /\ w[data + size] = 0 /\ w[data + size - 1] = Code[g]
  BY <1>2
<1> HIDE DEF w
<1>5. /\ \A i \in Nat : i < data + size - 1 => mem'[i] = mem[i]
      /\ mem'[data + size] = 0 /\ mem'[data + size - 1] = Code[g]
  <2>1. DOMAIN w \subseteq Offsets
    BY <1>2, <1>4 DEF Offsets
  <2>2. /\ \A i \in DOMAIN w : mem'[i] = w[i]
        /\ \A i \in Offsets \ DOMAIN w : mem'[i] = mem[i]
    BY <1>1, <1>2, <2>1, PokeInside
  <2>3. data + size \in DOMAIN w /\ data + size - 1 \in DOMAIN w
    BY <1>2, <1>4
  <2>4. \A i \in Nat : i < data + size - 1 => i \in Offsets \ DOMAIN w
    BY <1>2, <1>4 DEF Offsets
  <2> QED BY <1>4, <2>2, <2>3, <2>4
<1>6. PICK P, b, n : Thread(P, b, n, mem, t, 2, data) /\ n[data] = size /\ b[2] = 0 /\ n[2] = 1
  BY DEF Goes, Reads
<1>7. \E N : /\ Thread(P, b, N, mem', t2, 2, data) /\ N[data] = n[data] + 1
             /\ \A a \in P : a # data => N[a] = n[a]
  BY <1>5, <1>6, ThreadWrites
<1>8. 2 \in P
  BY <1>6 DEF Thread
<1> QED BY <1>1, <1>3, <1>6, <1>7, <1>8 DEF Reads, Goes

\* The bytes of a fixed string's block: token j is four bytes, its type, the
\* distance to the next one, the glyph and a NUL.
LEMMA BlockBytes ==
  ASSUME NEW name, Len(StaticTypes(name)) \in 1 .. 4, NEW j \in 1 .. Len(StaticTypes(name))
  PROVE  /\ Block(name).data[4 * j - 3] = IF j = Len(StaticTypes(name)) THEN 0 ELSE 2
         /\ Block(name).data[4 * j - 2] = Code[name]
         /\ Block(name).data[4 * j - 1] = 0
         /\ Block(name).size = 4 * Len(StaticTypes(name))
         /\ Block(name).next = (4 * Len(StaticTypes(name))) - 2
<1> DEFINE types == StaticTypes(name)
           last == Len(types)
           byte(i) == LET k == (i \div 4) + 1 IN
                      CASE i % 4 = 0 -> TokenType[types[k]]
                        [] i % 4 = 1 -> IF k = last THEN 0 ELSE 2
                        [] i % 4 = 2 -> Code[name]
                        [] i % 4 = 3 -> 0
           bytes == [i \in 0 .. (4 * last) - 1 |-> byte(i)]
<1>1. Block(name) = [size |-> 4 * last, next |-> (4 * last) - 2, data |-> bytes]
  BY DEF Block
<1> HIDE DEF types
<1>2. last \in 1 .. 4 /\ j \in 1 .. last
  BY DEF types
<1> HIDE DEF last
<1>3. /\ (4 * j - 3) % 4 = 1 /\ (4 * j - 3) \div 4 = j - 1
      /\ (4 * j - 2) % 4 = 2
      /\ (4 * j - 1) % 4 = 3
  <2>1. j = 1 \/ j = 2 \/ j = 3 \/ j = 4
    BY <1>2
  <2> QED BY <2>1
<1>4. 4 * j - 3 \in 0 .. (4 * last) - 1 /\ 4 * j - 2 \in 0 .. (4 * last) - 1
      /\ 4 * j - 1 \in 0 .. (4 * last) - 1
  BY <1>2
<1>5. byte(4 * j - 3) = IF j = last THEN 0 ELSE 2
  <2>1. PICK i : i = 4 * j - 3
    OBVIOUS
  <2>2. i % 4 = 1 /\ i \div 4 + 1 = j
    BY <1>2, <1>3, <2>1
  <2>3. byte(i) = IF i \div 4 + 1 = last THEN 0 ELSE 2
    BY <2>2
  <2> HIDE DEF byte
  <2> QED BY <2>1, <2>2, <2>3
<1>6. byte(4 * j - 2) = Code[name]
  BY <1>3
<1>7. byte(4 * j - 1) = 0
  BY <1>3
<1> HIDE DEF byte
<1>8. /\ bytes[4 * j - 3] = byte(4 * j - 3) /\ bytes[4 * j - 2] = byte(4 * j - 2)
      /\ bytes[4 * j - 1] = byte(4 * j - 1)
  BY <1>4
<1> HIDE DEF bytes
<1> QED BY <1>1, <1>5, <1>6, <1>7, <1>8 DEF last, types

\* The block of a fixed string of so many tokens is laid at block.
TokenLaid(m, start, link, code) ==
  m[start + 1] = link /\ m[start + 2] = code /\ m[start + 3] = Nul
Laid(m, block, last, name) ==
  \A j \in 1 .. last :
    TokenLaid(m, block + 4 * (j - 1), IF j = last THEN 0 ELSE 2, Code[name])
\* It says as many glyphs, from the first one on.
LaidThread(m, t2, block, last, first) ==
  \E Q, c, k : /\ Thread(Q, c, k, m, t2, block + 2, block + 4 * last - 2)
               /\ c[block + 2] = first /\ k[block + 4 * last - 2] = 2
\* t2 has the glyph so many times behind t.
Repeats(t, t2, last, name) ==
  Longer(t, t2) /\ Len(t2) = Len(t) + last /\ \A j \in 1 .. last : t2[Len(t) + j] = name

\* A fixed string is a thread of its own, of one glyph for each token.
LEMMA BlockThread ==
  ASSUME NEW m, NEW t, NEW t2, NEW block \in Nat, NEW last \in 1 .. 4, NEW name,
         Repeats(t, t2, last, name), Laid(m, block, last, name)
  PROVE  LaidThread(m, t2, block, last, Len(t))
<1> DEFINE place(j) == block + 4 * j - 2
           Q == {place(j) : j \in 1 .. last}
           c == [a \in Q |-> CHOOSE x \in Nat : \E j \in 1 .. last : a = place(j) /\ x = Len(t) + j - 1]
           k == [a \in Q |-> 2]
<1>1. Len(t2) = Len(t) + last /\ \A j \in 1 .. last : t2[Len(t) + j] = name
  BY DEF Repeats
<1>2. ASSUME NEW j \in 1 .. last
       PROVE  /\ m[block + 4 * j - 3] = IF j = last THEN 0 ELSE 2
              /\ m[block + 4 * j - 2] = Code[name]
              /\ m[block + 4 * j - 1] = 0
  <2>1. PICK start, link : start = block + 4 * (j - 1) /\ link = IF j = last THEN 0 ELSE 2
    OBVIOUS
  <2>2. TokenLaid(m, start, link, Code[name])
    BY <2>1, Zenon DEF Laid
  <2>3. block + 4 * j - 3 = start + 1 /\ block + 4 * j - 2 = start + 2 /\ block + 4 * j - 1 = start + 3
    BY <2>1
  <2>4. m[start + 1] = link /\ m[start + 2] = Code[name] /\ m[start + 3] = 0
    BY <2>2 DEF TokenLaid
  <2> QED BY <2>1, <2>3, <2>4
<1>3. Len(t) \in Nat /\ Len(t2) \in Nat
  BY DEF Longer, Repeats
<1>4. \A j \in 1 .. last : place(j) \in Nat /\ place(j) >= 2 /\ place(j) \in Q
  OBVIOUS
<1>5. ASSUME NEW j \in 1 .. last PROVE c[place(j)] = Len(t) + j - 1 /\ k[place(j)] = 2
  <2>1. \A i \in 1 .. last : place(j) = place(i) => i = j
    OBVIOUS
  <2>2. Len(t) + j - 1 \in Nat
    BY <1>3
  <2>3. c[place(j)] = CHOOSE x \in Nat : \E i \in 1 .. last : place(j) = place(i) /\ x = Len(t) + i - 1
    BY <1>4
  <2>4. \A x \in Nat : (\E i \in 1 .. last : place(j) = place(i) /\ x = Len(t) + i - 1)
                       <=> x = Len(t) + j - 1
    BY <2>1
  <2> HIDE DEF place
  <2> QED BY <1>4, <2>2, <2>3, <2>4
<1> HIDE DEF c, k
<1>6. \A a \in Q : \E j \in 1 .. last : a = place(j)
  OBVIOUS
<1>7. ASSUME NEW j \in 1 .. last
      PROVE  Tells(m, t2, place(j), c[place(j)], k[place(j)])
  <2>1. /\ m[place(j) + 2 - 1] = 0 /\ m[place(j)] = Code[name]
    <3>1. place(j) + 2 - 1 = block + 4 * j - 1 /\ place(j) = block + 4 * j - 2
      OBVIOUS
    <3> QED BY <1>2, <3>1
  <2>2. ASSUME NEW i \in 1 .. 2 - 1
        PROVE  m[place(j) + i - 1] = Code[t2[Len(t) + j - 1 + i]]
    <3>1. i = 1 /\ place(j) + i - 1 = place(j) /\ Len(t) + j - 1 + i = Len(t) + j
      BY <1>3, <1>4
    <3> QED BY <1>1, <2>1, <3>1
  <2>3. Len(t) + j - 1 \in Nat /\ Len(t) + j - 1 + 2 - 1 <= Len(t2)
    BY <1>3, <1>1
  <2>4. place(j) \in Nat /\ place(j) >= 2
    BY <1>4
  <2> HIDE DEF place
  <2>5. Tells(m, t2, place(j), Len(t) + j - 1, 2)
    BY <2>1, <2>2, <2>3, <2>4 DEF Tells
  <2> QED BY <1>5, <2>5
<1>8. ASSUME NEW j \in 1 .. last, j # last
      PROVE  /\ m[place(j) - 1] = k[place(j)] /\ place(j) + 2 + k[place(j)] \in Q
             /\ c[place(j) + 2 + k[place(j)]] = c[place(j)] + k[place(j)] - 1
  <2>1. j + 1 \in 1 .. last /\ place(j) + 2 + 2 = place(j + 1) /\ place(j) - 1 = block + 4 * j - 3
    BY <1>8
  <2>2. m[place(j) - 1] = 2
    BY <1>2, <1>8, <2>1
  <2>3. c[place(j + 1)] = Len(t) + (j + 1) - 1 /\ c[place(j)] = Len(t) + j - 1 /\ k[place(j)] = 2
    BY <1>5, <2>1
  <2>4. place(j + 1) \in Q
    BY <1>4, <2>1
  <2>5. Len(t) + (j + 1) - 1 = Len(t) + j - 1 + 2 - 1
    BY <1>3
  <2> HIDE DEF place, Q
  <2> QED BY <2>1, <2>2, <2>3, <2>4, <2>5
<1>9. /\ place(1) = block + 2 /\ place(last) = block + 4 * last - 2 /\ 1 \in 1 .. last
      /\ last \in 1 .. last /\ m[place(last) - 1] = 0
      /\ \A j \in 1 .. last : place(1) <= place(j) /\ place(j) <= place(last)
      /\ \A j \in 1 .. last : place(j) # place(last) => j # last
  <2>1. place(last) - 1 = block + 4 * last - 3
    OBVIOUS
  <2>2. m[place(last) - 1] = 0
    BY <1>2, <2>1
  <2> QED BY <2>2
<1> HIDE DEF place
<1>10. c[place(last)] + k[place(last)] - 1 = Len(t2)
  BY <1>3, <1>1, <1>5, <1>9
<1>11. c[place(1)] = Len(t) /\ k[place(last)] = 2
  BY <1>3, <1>5, <1>9
<1>12. Thread(Q, c, k, m, t2, place(1), place(last))
  <2>1. place(1) \in Q /\ place(last) \in Q
    BY <1>4, <1>9
  <2> HIDE DEF Q
  <2>2. \A a \in Q : /\ place(1) <= a /\ a <= place(last) /\ Tells(m, t2, a, c[a], k[a])
                     /\ a # place(last) => /\ m[a - 1] = k[a] /\ a + 2 + k[a] \in Q
                                           /\ c[a + 2 + k[a]] = c[a] + k[a] - 1
    <3> SUFFICES ASSUME NEW a \in Q
                 PROVE  /\ place(1) <= a /\ a <= place(last) /\ Tells(m, t2, a, c[a], k[a])
                        /\ a # place(last) => /\ m[a - 1] = k[a] /\ a + 2 + k[a] \in Q
                                              /\ c[a + 2 + k[a]] = c[a] + k[a] - 1
      OBVIOUS
    <3>1. PICK j \in 1 .. last : a = place(j)
      BY <1>6
    <3> QED BY <1>7, <1>8, <1>9, <3>1
  <2> QED BY <1>9, <1>10, <2>1, <2>2 DEF Thread
<1> HIDE DEF Q
<1>13. Thread(Q, c, k, m, t2, block + 2, block + 4 * last - 2)
  BY <1>9, <1>12, Zenon
<1> QED BY <1>9, <1>11, <1>13 DEF LaidThread

LEMMA BlockReads ==
  ASSUME Sound, isTokenList, NEW t, Len(t) \in Nat, Goes(mem, t, data, size),
         NEW name, NEW last, last = Len(StaticTypes(name)), last \in 1 .. 4,
         PredefinedNew(Block(name)),
         NEW t2, Repeats(t, t2, last, name)
  PROVE  Goes(mem', t2, data', size')
<1> DEFINE p == Block(name)
           block == data + size
           w == [i \in {data - 1} \cup block .. (block + p.size - 1) |->
                         IF i = data - 1 THEN size % (U8Max + 1)
                                         ELSE p.data[i - block]]
<1>1. /\ capacity > size + p.size /\ data' = block + p.next /\ size' = p.size - p.next
      /\ mem' = Poke(mem, w)
  BY Zenon DEF PredefinedNew
<1>2. /\ p.size = 4 * last /\ p.next = (4 * last) - 2
      /\ \A j \in 1 .. last : /\ p.data[4 * j - 3] = IF j = last THEN 0 ELSE 2
                              /\ p.data[4 * j - 2] = Code[name]
                              /\ p.data[4 * j - 1] = 0
  <2>1. 1 \in 1 .. last
    OBVIOUS
  <2> HIDE DEF p
  <2>2. ASSUME NEW j \in 1 .. last
        PROVE  /\ p.data[4 * j - 3] = IF j = last THEN 0 ELSE 2
               /\ p.data[4 * j - 2] = Code[name] /\ p.data[4 * j - 1] = 0
               /\ p.size = 4 * last /\ p.next = (4 * last) - 2
    BY BlockBytes DEF p
  <2> QED BY <2>1, <2>2
<1> HIDE DEF p
<1>3. /\ data \in Nat /\ data >= 2 /\ size \in Nat /\ size >= 1 /\ Length \in Nat
      /\ data + capacity = Length /\ capacity \in Nat /\ size % (U8Max + 1) = size
  BY TokenNumbers
<1>4. PICK end : end = block + 4 * last - 1
  OBVIOUS
<1>5. end \in Nat /\ end < Length /\ block \in Nat /\ block + p.size - 1 = end
  <2> HIDE DEF w
  <2> QED BY <1>1, <1>2, <1>3, <1>4
<1>6. DOMAIN w = {data - 1} \cup (data + size) .. end
  BY <1>5
<1>7. w[data - 1] = size
  BY <1>3
<1>8. \A i \in block .. end : w[i] = p.data[i - block]
  BY <1>3, <1>5
<1> HIDE DEF w
<1>9. /\ \A i \in Nat : i <= data + size - 1 /\ i # data - 1 => mem'[i] = mem[i]
      /\ \A i \in DOMAIN w : mem'[i] = w[i]
  BY <1>1, <1>5, <1>6, CloseKeeps
<1>10. mem'[data - 1] = size /\ \A i \in block .. end : mem'[i] = p.data[i - block]
  BY <1>6, <1>7, <1>8, <1>9
<1>11. PICK m2 : m2 = mem'
  OBVIOUS
<1>12. ASSUME NEW j \in 1 .. last
       PROVE  TokenLaid(m2, block + 4 * (j - 1), IF j = last THEN 0 ELSE 2, Code[name])
  <2>1. PICK start : start = block + 4 * (j - 1)
    OBVIOUS
  <2>2. /\ start + 1 \in block .. end /\ (start + 1) - block = 4 * j - 3
        /\ start + 2 \in block .. end /\ (start + 2) - block = 4 * j - 2
        /\ start + 3 \in block .. end /\ (start + 3) - block = 4 * j - 1
    <3> HIDE DEF block
    <3> QED BY <1>4, <1>5, <2>1
  <2>3. /\ p.data[4 * j - 3] = IF j = last THEN 0 ELSE 2
        /\ p.data[4 * j - 2] = Code[name] /\ p.data[4 * j - 1] = 0
    BY <1>2
  <2>4. \A i \in block .. end : m2[i] = p.data[i - block]
    BY <1>10, <1>11
  <2> HIDE DEF block
  <2>5. m2[start + 1] = p.data[(start + 1) - block]
    BY <2>2, <2>4, Zenon
  <2>6. m2[start + 2] = p.data[(start + 2) - block]
    BY <2>2, <2>4, Zenon
  <2>7. m2[start + 3] = p.data[(start + 3) - block]
    BY <2>2, <2>4, Zenon
  <2>8. m2[start + 1] = p.data[4 * j - 3] /\ m2[start + 2] = p.data[4 * j - 2] /\ m2[start + 3] = p.data[4 * j - 1]
    BY <2>2, <2>5, <2>6, <2>7, Zenon
  <2>9. TokenLaid(m2, start, IF j = last THEN 0 ELSE 2, Code[name])
    BY <2>3, <2>8 DEF TokenLaid
  <2> QED BY <2>1, <2>9, Zenon
<1>13. Closes(mem, m2, data, size)
  BY <1>9, <1>10, <1>11 DEF Closes
<1>14. data' = block + 4 * last - 2 /\ size' = 2
  BY <1>1, <1>2, <1>5
<1> HIDE DEF block
<1>15. GoesOn(m2, t2, data, size, Len(t), block + 4 * last - 2, 2)
  <2>1. PICK here : here = block
    OBVIOUS
  <2>2. LaidThread(m2, t2, here, last, Len(t))
    <3>1. here \in Nat
      BY <1>5, <2>1
    <3>2. Laid(m2, here, last, name)
      BY <1>12, <2>1, Zenon DEF Laid
    <3> QED BY <3>1, <3>2, BlockThread
  <2>3. here + 2 = data + 2 + size
    BY <1>3, <2>1 DEF block
  <2> QED BY <2>1, <2>2, <2>3 DEF GoesOn, LaidThread
<1>16. Goes(m2, t2, block + 4 * last - 2, 2)
  BY <1>13, <1>15, ReadsOn DEF Repeats
<1> QED BY <1>11, <1>14, <1>16

-----------------------------------------------------------------------------
(* The bytes are numbers                                                    *)

Numbers == \A i \in Offsets : mem[i] \in Nat

LEMMA CodeNumber == \A g \in GlyphSet : Code[g] \in Nat /\ Code[g] # 0
<1> SUFFICES ASSUME NEW g \in GlyphSet PROVE Code[g] \in Nat /\ Code[g] # 0
  OBVIOUS
<1>1. DOMAIN Glyphs = 1 .. Len(Glyphs) /\ Len(Glyphs) \in Nat
  BY GlyphAssumption
<1>2. \E k : k \in DOMAIN Glyphs /\ Glyphs[k] = g
  BY DEF GlyphSet
<1>3. PICK k : k = CHOOSE i \in DOMAIN Glyphs : Glyphs[i] = g
  OBVIOUS
<1>4. k \in DOMAIN Glyphs
  BY <1>2, <1>3, Zenon
<1>5. Code[g] = k
  BY <1>3 DEF Code
<1> QED BY <1>1, <1>4, <1>5

LEMMA TypeNumbers == \A type \in DOMAIN TokenType : TokenType[type] \in Nat
BY DEF TokenType

LEMMA StaticTypesKnown ==
  ASSUME NEW name, NEW k \in 1 .. Len(StaticTypes(name))
  PROVE  StaticTypes(name)[k] \in DOMAIN TokenType
<1> DEFINE Known == {"WHITESPACE", "DELIMITER", "PARENTHESIS_OPEN", "PARENTHESIS_CLOSE", "PREFIX",
                     "REGISTER", "ADDRESS_REL", "IMMEDIATE", "TYPECAST", "DECORATOR"}
<1>1. Known \subseteq DOMAIN TokenType
  BY DEF TokenType
<1>2. /\ "WHITESPACE" \in Known /\ "DELIMITER" \in Known /\ "PARENTHESIS_OPEN" \in Known
      /\ "PARENTHESIS_CLOSE" \in Known /\ "PREFIX" \in Known /\ "ADDRESS_REL" \in Known
      /\ "TYPECAST" \in Known /\ "DECORATOR" \in Known
      /\ (name \in {"REGISTER", "IMMEDIATE"} => name \in Known)
  OBVIOUS
<1> HIDE DEF Known
<1>3. \/ \E a \in Known : StaticTypes(name) = <<a>>
      \/ \E a, b \in Known : StaticTypes(name) = <<a, b>>
      \/ \E a, b, c, d \in Known : StaticTypes(name) = <<a, b, c, d>>
  BY <1>2, ZenonT(40) DEF StaticTypes
<1>4. /\ \A a \in Known : <<a>> \in Seq(Known)
      /\ \A a, b \in Known : <<a, b>> \in Seq(Known)
      /\ \A a, b, c, d \in Known : <<a, b, c, d>> \in Seq(Known)
  OBVIOUS
<1>5. StaticTypes(name) \in Seq(Known)
  BY <1>3, <1>4, Zenon
<1> QED BY <1>1, <1>5

LEMMA BlockNumbers ==
  ASSUME NEW name \in GlyphSet, NEW i \in 0 .. Block(name).size - 1
  PROVE  Block(name).data[i] \in Nat
<1> DEFINE types == StaticTypes(name)
           last == Len(types)
           byte(n) == LET k == (n \div 4) + 1 IN
                      CASE n % 4 = 0 -> TokenType[types[k]]
                        [] n % 4 = 1 -> IF k = last THEN 0 ELSE 2
                        [] n % 4 = 2 -> Code[name]
                        [] n % 4 = 3 -> 0
           bytes == [n \in 0 .. (4 * last) - 1 |-> byte(n)]
<1>1. Block(name) = [size |-> 4 * last, next |-> (4 * last) - 2, data |-> bytes]
  BY DEF Block
<1>2. last \in 1 .. 4
  BY StaticTypesLength
<1>3. Code[name] \in Nat
  BY CodeNumber
<1>4. \A k \in 1 .. last : TokenType[types[k]] \in Nat
  BY StaticTypesKnown, TypeNumbers
<1> HIDE DEF last, types
<1>5. Block(name).size = 4 * last /\ Block(name).data = bytes
  BY <1>1
<1>6. i \in 0 .. (4 * last) - 1
  BY <1>5
<1>7. i \div 4 + 1 \in 1 .. last /\ i % 4 \in 0 .. 3
  BY <1>2, <1>6
<1>8. byte(i) \in Nat
  <2>1. PICK k, r : k = i \div 4 + 1 /\ r = i % 4
    OBVIOUS
  <2>2. k \in 1 .. last /\ r \in 0 .. 3 /\ TokenType[types[k]] \in Nat
    BY <1>4, <1>7, <2>1
  <2>3. byte(i) = CASE r = 0 -> TokenType[types[k]]
                    [] r = 1 -> IF k = last THEN 0 ELSE 2
                    [] r = 2 -> Code[name]
                    [] r = 3 -> 0
    BY <2>1
  <2> HIDE DEF byte
  <2>4. r = 0 \/ r = 1 \/ r = 2 \/ r = 3
    BY <2>2
  <2> QED BY <1>3, <2>2, <2>3, <2>4
<1> HIDE DEF byte
<1> QED BY <1>5, <1>6, <1>8

\* Numbers written over numbers leave numbers.
LEMMA PokeNumbers ==
  ASSUME Numbers, DOMAIN mem = Offsets, NEW w, mem' = Poke(mem, w),
         \A i \in DOMAIN w : w[i] \in Nat
  PROVE  Numbers'
<1> SUFFICES ASSUME NEW i \in Offsets PROVE mem'[i] \in Nat
  BY DEF Numbers, Offsets
<1>1. mem'[i] = IF i \in DOMAIN w THEN w[i] ELSE mem[i]
  BY DEF Poke
<1> QED BY <1>1 DEF Numbers

LEMMA SameNumbers == Numbers /\ UNCHANGED mem => Numbers'
BY DEF Numbers, Offsets

LEMMA PerformNumbers ==
  ASSUME Sound, Numbers, NEW call \in Call, Perform(call)
  PROVE  Numbers'
<1>1. DOMAIN mem = Offsets /\ size \in Nat /\ data \in Nat /\ size % (U8Max + 1) \in Nat
  BY ByteAssumption DEF Sound, Placed
<1>2. \/ call.do = "token" /\ call.arg \in DOMAIN TokenType
      \/ call.do \in {"static", "text"} /\ call.arg \in GlyphSet
      \/ call.do = "fail"
  BY DEF Call, PlainCall
<1>3. ASSUME NEW type \in Nat, Append_(type) PROVE Numbers'
  <2>1. CASE AppendNew(type)
    <3> DEFINE next == data + size + 2
               w == [i \in {data - 1} \cup (next - 2) .. next |->
                         CASE i = data - 1 -> size % (U8Max + 1)
                           [] i = next - 2 -> type
                           [] i = next - 1 -> 0
                           [] i = next     -> 0]
    <3>1. mem' = Poke(mem, w)
      BY <2>1 DEF AppendNew
    <3>2. \A i \in DOMAIN w : w[i] \in Nat
      BY <1>1, <1>3
    <3> HIDE DEF w
    <3> QED BY <1>1, <3>1, <3>2, PokeNumbers
  <2>2. CASE AppendSame(type) \/ AppendFull(type)
    BY <2>2, SameNumbers DEF AppendSame, AppendFull, Fails
  <2> QED BY <1>3, <2>1, <2>2 DEF Append_
<1>4. ASSUME call.arg \in GlyphSet, AppendPredefined(Block(call.arg)) PROVE Numbers'
  <2>1. CASE PredefinedNew(Block(call.arg))
    <3> DEFINE p == Block(call.arg)
               block == data + size
               w == [i \in {data - 1} \cup block .. (block + p.size - 1) |->
                         IF i = data - 1 THEN size % (U8Max + 1)
                                         ELSE p.data[i - block]]
    <3>1. mem' = Poke(mem, w)
      BY <2>1, Zenon DEF PredefinedNew
    <3>2. p.size \in Nat /\ \A i \in 0 .. p.size - 1 : p.data[i] \in Nat
      BY <1>4, BlockFits, BlockNumbers DEF Fits
    <3> HIDE DEF p
    <3>3. ASSUME NEW i \in DOMAIN w PROVE w[i] \in Nat
      <4>1. i = data - 1 \/ i - block \in 0 .. p.size - 1
        BY <1>1, <3>2
      <4> QED BY <1>1, <3>2, <4>1
    <3> HIDE DEF w
    <3> QED BY <1>1, <3>1, <3>3, PokeNumbers
  <2>2. CASE PredefinedFull(Block(call.arg))
    BY <2>2, SameNumbers DEF PredefinedFull, Fails
  <2> QED BY <1>4, <2>1, <2>2 DEF AppendPredefined
<1>5. ASSUME NEW n, NEW c \in Nat, AppendText(n, c) PROVE Numbers'
  <2>1. CASE TextNew(n, c)
    <3> DEFINE w == [i \in (data + size - 1) .. (data + size + n - 1) |->
                         IF i = data + size + n - 1 THEN 0 ELSE c]
    <3>1. mem' = Poke(mem, w)
      BY <2>1 DEF TextNew
    <3>2. \A i \in DOMAIN w : w[i] \in Nat
      BY <1>5
    <3> HIDE DEF w
    <3> QED BY <1>1, <3>1, <3>2, PokeNumbers
  <2>2. CASE TextFull(n)
    BY <2>2, SameNumbers DEF TextFull, Fails
  <2> QED BY <1>5, <2>1, <2>2 DEF AppendText
<1>6. ASSUME Fails(call.arg) PROVE Numbers'
  BY <1>6, SameNumbers DEF Fails
<1>7. CASE call.do = "token"
  BY <1>2, <1>3, <1>7, TypeNumbers DEF Perform
<1>8. CASE call.do = "static"
  BY <1>2, <1>4, <1>5, <1>8, CodeNumber DEF Perform
<1>9. CASE call.do = "text"
  BY <1>2, <1>5, <1>9, CodeNumber DEF Perform
<1>10. CASE call.do = "fail"
  BY <1>6, <1>10 DEF Perform
<1> QED BY <1>2, <1>7, <1>8, <1>9, <1>10

LEMMA RestoreNumbers ==
  ASSUME Sound, Numbers, NEW state, Restore(state)
  PROVE  Numbers'
<1>1. DOMAIN mem = Offsets
  BY DEF Sound, Placed
<1>2. \E j : mem' = Poke(mem, [i \in {j} |-> 0])
  BY DEF Restore, RestoreTokens, RestoreString
<1> QED BY <1>1, <1>2, PokeNumbers

LEMMA NumbersStep == Sound /\ Telling /\ Numbers /\ [FormatterNext]_formatterVars => Numbers'
<1> SUFFICES ASSUME Sound, Telling, Numbers, [FormatterNext]_formatterVars PROVE Numbers'
  OBVIOUS
<1>1. CASE UNCHANGED vars
  BY <1>1, SameNumbers DEF vars
<1>2. CASE RememberMnemonic \/ BeginOperand
  <2>1. UNCHANGED mem
    BY <1>2 DEF RememberMnemonic, BeginOperand, Remember
  <2> QED BY <2>1, SameNumbers
<1>3. CASE SkipOperand
  BY <1>3, RestoreNumbers DEF SkipOperand
<1>4. CASE Step
  <2>1. Head(todo) \in Call /\ Perform(Head(todo))
    BY <1>4 DEF Step, Telling, Typed
  <2> QED BY <2>1, PerformNumbers
<1>5. CASE PreOperand \/ FormatTheOperand \/ PostOperand
  <2>1. SkipOperand \/ UNCHANGED vars
    BY <1>5 DEF PreOperand, FormatTheOperand, PostOperand, Proceed
  <2> QED BY <1>1, <1>3, <2>1
<1>6. ASSUME NEW setting \in Settings, SetProperty(setting[1], setting[2])
      PROVE  UNCHANGED vars
  BY <1>6 DEF SetProperty, Configure
<1>7. ASSUME NEW hook \in Hookable, SetHook(hook) PROVE UNCHANGED vars
  BY <1>7 DEF SetHook, Configure
<1>8. ASSUME NEW count, FormatInstruction(count) PROVE UNCHANGED vars
  BY <1>8 DEF FormatInstruction
<1>9. ASSUME NEW n, FormatOneOperand(n) PROVE UNCHANGED vars
  BY <1>9 DEF FormatOneOperand
<1>10. CASE PassMask \/ EndOperand \/ EndInstruction \/ Returned
            \/ UNCHANGED formatterVars
  BY <1>1, <1>10 DEF PassMask, EndOperand, EndInstruction, Returned, formatterVars
<1> QED BY <1>1, <1>2, <1>4, <1>5, <1>6, <1>7, <1>8, <1>9, <1>10 DEF FormatterNext

LEMMA InitNumbers == FormatterInit => Numbers
<1>1. Junk \in Nat
  BY ByteAssumption DEF Byte
<1> QED BY <1>1 DEF FormatterInit, Init, InitString, InitTokenized, Numbers

-----------------------------------------------------------------------------
(* The token list                                                           *)

\* As long as no operand was skipped, the tokens say what was printed.
Told == isTokenList /\ skipped = {} => Goes(mem, kept, data, size)

LEMMA PrintedReads ==
  ASSUME NEW t, NEW call \in Call, t \in Seq(GlyphSet)
  PROVE  /\ Longer(t, t \o Printed(call))
         /\ call.do = "token" => t \o Printed(call) = t
         /\ call.do = "static" =>
              Repeats(t, t \o Printed(call), Len(StaticTypes(call.arg)), call.arg)
         /\ call.do = "text" => /\ Len(t \o Printed(call)) = Len(t) + 1
                                /\ (t \o Printed(call))[Len(t) + 1] = call.arg
<1>1. PICK g : g = Printed(call)
  OBVIOUS
<1>2. g \in Seq(GlyphSet) /\ t \in Seq(GlyphSet)
  BY <1>1, PrintedGlyphs
<1>3. PICK u : u = t \o g
  OBVIOUS
<1>4. /\ Len(u) = Len(t) + Len(g) /\ Len(t) \in Nat /\ Len(g) \in Nat
      /\ \A i \in 1 .. Len(t) : u[i] = t[i]
      /\ \A i \in 1 .. Len(g) : u[Len(t) + i] = g[i]
  BY <1>2, <1>3
<1>5. Longer(t, u)
  BY <1>4 DEF Longer
<1>6. CASE call.do = "token"
  <2>1. g = <<>>
    BY <1>1, <1>6 DEF Printed
  <2>2. t \o <<>> = t
    BY <1>2
  <2> QED BY <1>1, <1>3, <1>5, <1>6, <2>1, <2>2
<1>7. CASE call.do = "static"
  <2>1. PICK last \in 1 .. 4 : /\ last = Len(StaticTypes(call.arg))
                               /\ DOMAIN StaticTypes(call.arg) = 1 .. last
    BY StaticTypesLength, StaticTypesSequence
  <2>2. g = [k \in 1 .. last |-> call.arg]
    BY <1>1, <1>7, <2>1 DEF Printed
  <2>3. Len(g) = last /\ \A j \in 1 .. last : g[j] = call.arg
    BY <2>2
  <2>4. Repeats(t, u, last, call.arg)
    BY <1>4, <1>5, <2>3 DEF Repeats
  <2> QED BY <1>1, <1>3, <1>5, <1>7, <2>1, <2>4
<1>8. CASE call.do = "text"
  <2>1. g = <<call.arg>>
    BY <1>1, <1>8 DEF Printed
  <2>2. Len(g) = 1 /\ g[1] = call.arg
    BY <2>1
  <2>3. Len(u) = Len(t) + 1 /\ u[Len(t) + 1] = call.arg
    BY <1>4, <2>2
  <2> QED BY <1>1, <1>3, <1>5, <1>8, <2>3
<1>9. call.do \in {"token", "static", "text", "fail"}
  BY DEF Call, PlainCall
<1> QED BY <1>1, <1>3, <1>5, <1>6, <1>7, <1>8, <1>9

LEMMA PerformReads ==
  ASSUME Sound, isTokenList, kept \in Seq(GlyphSet), Goes(mem, kept, data, size),
         NEW call \in Call, Perform(call), status' = "SUCCESS"
  PROVE  Goes(mem', kept \o Printed(call), data', size')
<1>1. PICK t2 : t2 = kept \o Printed(call)
  OBVIOUS
<1>2. Len(kept) \in Nat
  OBVIOUS
<1>3. CASE call.do = "token"
  <2>1. PICK type : Append_(type)
    BY <1>3 DEF Perform
  <2>2. CASE AppendNew(type)
    BY <1>2, <1>3, <2>2, NewReads, PrintedReads
  <2>3. CASE AppendSame(type)
    BY <1>3, <2>3, PrintedReads DEF AppendSame, Fails
  <2>4. ~AppendFull(type)
    BY DEF AppendFull, Fails
  <2> QED BY <2>1, <2>2, <2>3, <2>4 DEF Append_
<1>4. CASE call.do = "static"
  <2>1. PredefinedNew(Block(call.arg))
    BY <1>4 DEF Perform, AppendPredefined, PredefinedFull, Fails
  <2>2. PICK name, last : name = call.arg /\ last = Len(StaticTypes(name))
    OBVIOUS
  <2>3. last \in 1 .. 4 /\ PredefinedNew(Block(name)) /\ Repeats(kept, t2, last, name)
    BY <1>1, <1>4, <2>1, <2>2, StaticTypesLength, PrintedReads
  <2> QED BY <1>1, <1>2, <2>2, <2>3, BlockReads
<1>5. CASE call.do = "text"
  <2>1. PICK g : g = call.arg
    OBVIOUS
  <2>2. TextNew(1, Code[g])
    BY <1>5, <2>1 DEF Perform, AppendText, TextFull, Fails
  <2>3. Longer(kept, t2) /\ Len(t2) = Len(kept) + 1 /\ t2[Len(t2)] = g
    BY <1>1, <1>5, <2>1, PrintedReads
  <2> QED BY <1>1, <1>2, <2>2, <2>3, TextReads
<1>6. CASE call.do = "fail"
  <2>1. call.arg = "INVALID_ARGUMENT"
    BY <1>6 DEF Call, PlainCall
  <2> QED BY <1>6, <2>1 DEF Perform, Fails
<1>7. call.do \in {"token", "static", "text", "fail"}
  BY DEF Call, PlainCall
<1> QED BY <1>3, <1>4, <1>5, <1>6, <1>7

\* What fails does nothing.
LEMMA PerformFails ==
  ASSUME NEW call, Perform(call)
  PROVE  /\ isTokenList' = isTokenList
         /\ status' # "SUCCESS" => UNCHANGED <<mem, data, size>>
<1>1. ASSUME NEW type, Append_(type)
      PROVE  isTokenList' = isTokenList /\ (status' # "SUCCESS" => UNCHANGED <<mem, data, size>>)
  BY <1>1 DEF Append_, AppendSame, AppendFull, AppendNew, Fails
<1>2. ASSUME NEW p, AppendPredefined(p)
      PROVE  isTokenList' = isTokenList /\ (status' # "SUCCESS" => UNCHANGED <<mem, data, size>>)
  BY <1>2 DEF AppendPredefined, PredefinedFull, PredefinedNew, Fails
<1>3. ASSUME NEW n, NEW c, AppendText(n, c)
      PROVE  isTokenList' = isTokenList /\ (status' # "SUCCESS" => UNCHANGED <<mem, data, size>>)
  BY <1>3 DEF AppendText, TextFull, TextNew, Fails
<1> QED BY <1>1, <1>2, <1>3 DEF Perform, Fails

LEMMA ToldStep == Sound /\ Telling /\ Told /\ [FormatterNext]_formatterVars => Told'
<1> SUFFICES ASSUME Sound, Telling, Told, [FormatterNext]_formatterVars PROVE Told'
  OBVIOUS
<1>1. ASSUME UNCHANGED <<isTokenList, mem, data, size, kept, skipped>> PROVE Told'
  BY <1>1 DEF Told
<1>2. CASE RememberMnemonic \/ BeginOperand
  BY <1>1, <1>2 DEF RememberMnemonic, BeginOperand, Remember, history
<1>3. CASE SkipOperand
  <2>1. skipped' # {}
    BY <1>3 DEF SkipOperand
  <2> QED BY <2>1 DEF Told
<1>4. CASE Step
  <2>1. PICK call : call = Head(todo)
    OBVIOUS
  <2>2. call \in Call /\ Perform(call) /\ kept \in Seq(GlyphSet)
    BY <1>4, <2>1 DEF Step, Telling, Typed
  <2>3. skipped' = skipped /\ isTokenList' = isTokenList
    BY <1>4, <2>2, PerformFails DEF Step
  <2>4. CASE status' = "SUCCESS"
    <3>1. kept' = kept \o Printed(call)
      BY <1>4, <2>1, <2>4 DEF Step
    <3>2. isTokenList /\ skipped = {} => Goes(mem', kept', data', size')
      BY <2>2, <2>4, <3>1, PerformReads DEF Told
    <3> QED BY <2>3, <3>2 DEF Told
  <2>5. CASE status' # "SUCCESS"
    <3>1. kept' = kept
      BY <1>4, <2>5 DEF Step
    <3>2. UNCHANGED <<mem, data, size>>
      BY <2>2, <2>5, PerformFails
    <3> QED BY <1>1, <2>3, <3>1, <3>2
  <2> QED BY <2>4, <2>5
<1>5. CASE PreOperand \/ FormatTheOperand \/ PostOperand
  <2>1. SkipOperand \/ (UNCHANGED vars /\ UNCHANGED history)
    BY <1>5 DEF PreOperand, FormatTheOperand, PostOperand, Proceed
  <2> QED BY <1>1, <1>3, <2>1 DEF vars, history
<1>6. ASSUME NEW setting \in Settings, SetProperty(setting[1], setting[2]) PROVE Told'
  BY <1>1, <1>6 DEF SetProperty, Configure, vars, history
<1>7. ASSUME NEW hook \in Hookable, SetHook(hook) PROVE Told'
  BY <1>1, <1>7 DEF SetHook, Configure, vars, history
<1>8. ASSUME NEW count, FormatInstruction(count) PROVE Told'
  BY <1>1, <1>8 DEF FormatInstruction, vars, history
<1>9. ASSUME NEW n, FormatOneOperand(n) PROVE Told'
  BY <1>1, <1>9 DEF FormatOneOperand, vars, history
<1>10. CASE PassMask \/ EndOperand \/ EndInstruction \/ Returned
            \/ UNCHANGED formatterVars
  BY <1>1, <1>10 DEF PassMask, EndOperand, EndInstruction, Returned, formatterVars, vars, history
<1> QED BY <1>2, <1>4, <1>5, <1>6, <1>7, <1>8, <1>9, <1>10 DEF FormatterNext

LEMMA InitTold == FormatterInit => Told
<1> SUFFICES ASSUME FormatterInit, isTokenList PROVE Goes(mem, kept, data, size)
  BY DEF Told
<1>1. /\ kept = <<>> /\ data = 2 /\ size = 1 /\ mem[1] = 0 /\ mem[2] = 0
  BY LengthAssumption DEF FormatterInit, Init, InitString, InitTokenized, Offsets
<1> DEFINE b == [a \in {2} |-> 0]
           n == [a \in {2} |-> 1]
<1>2. Len(<<>>) = 0
  OBVIOUS
<1>3. Tells(mem, <<>>, 2, 0, 1)
  <2>1. 2 + 1 - 1 = 2 /\ 1 .. 1 - 1 = {} /\ 0 + 1 - 1 <= 0
    OBVIOUS
  <2> QED BY <1>1, <1>2, <2>1 DEF Tells
<1>4. Thread({2}, b, n, mem, <<>>, 2, 2)
  BY <1>1, <1>2, <1>3 DEF Thread
<1>5. Reads({2}, b, n, mem, <<>>, 2, 1)
  BY <1>4 DEF Reads
<1> HIDE DEF b, n
<1> QED BY <1>1, <1>5 DEF Goes

(* For every instruction, every style, every setting and every size of the  *)
(* buffer, the token list of a successful call, read as                     *)
(* ZydisFormatterTokenNext reads it, spells the string that was printed,    *)
(* unless an operand was skipped (Formatter.c:561, FormatterBase.h:255).    *)
THEOREM TokensAreKeptAlways == FormatterSpec => []TokensAreKept
<1>1. FormatterInit => Sound /\ Telling /\ Numbers /\ Told
  BY InitInv, InitTells, InitNumbers, InitTold DEF FormatterInit, IInv
<1>2. Sound /\ Telling /\ Numbers /\ Told /\ [FormatterNext]_formatterVars
      => (Sound /\ Telling /\ Numbers /\ Told)'
  BY FormatterTells, NumbersStep, ToldStep, StepSound
<1>3. Sound /\ Telling /\ Numbers /\ Told => TokensAreKept
  <2> SUFFICES ASSUME Sound, Telling, Numbers, Told, isTokenList, skipped = {}
               PROVE  Spelled = KeptBytes
    BY DEF TokensAreKept
  <2>1. PICK P, b, n : Reads(P, b, n, mem, kept, data, size)
    BY DEF Told, Goes
  <2>2. /\ Thread(P, b, n, mem, kept, 2, data) /\ b[2] = 0 /\ n[2] = 1 /\ n[data] = size
    BY <2>1 DEF Reads
  <2>3. Length \in Nat /\ Length > 2 /\ data + n[data] <= Length
    BY <2>2, LengthAssumption, TokenNumbers
  <2>4. \A a \in 2 .. Length - 1 : mem[a - 1] \in Nat
    <3>1. \A a \in 2 .. Length - 1 : a - 1 \in Offsets
      BY <2>3 DEF Offsets
    <3> QED BY <3>1 DEF Numbers
  <2>5. PICK w : WalkedAll(w) /\ Spelled = w[IF NextAt(2) # 0 THEN NextText(2) ELSE 2]
    BY <2>3, <2>4, SpelledWalks
  <2>6. kept \in Seq(GlyphSet)
    BY DEF Telling, Typed
  <2>7. Len(kept) \in Nat /\ \A i \in 1 .. Len(kept) : Code[kept[i]] # 0
    BY <2>6, CodeNumber
  <2>8. w[IF NextAt(2) # 0 THEN NextText(2) ELSE 2] = AllSaid(kept)
    BY <2>2, <2>3, <2>5, <2>7, ThreadReads
  <2>9. DOMAIN kept = 1 .. Len(kept)
    BY <2>6
  <2> QED BY <2>5, <2>8, <2>9 DEF KeptBytes, AllSaid
<1> QED BY <1>1, <1>2, <1>3, PTL DEF FormatterSpec

-----------------------------------------------------------------------------
(* How often a glyph is printed                                             *)

Occurrences(s, glyph) == {k \in DOMAIN s : s[k] = glyph}
Often(s, glyph) == Cardinality(Occurrences(s, glyph))

LEMMA OftenIsNat ==
  \A s \in Seq(GlyphSet) : \A glyph :
    IsFiniteSet(Occurrences(s, glyph)) /\ Often(s, glyph) \in Nat
<1> SUFFICES ASSUME NEW s \in Seq(GlyphSet), NEW glyph
             PROVE  IsFiniteSet(Occurrences(s, glyph)) /\ Often(s, glyph) \in Nat
  OBVIOUS
<1>1. 1 \in Int /\ Len(s) \in Int /\ DOMAIN s = 1 .. Len(s)
  OBVIOUS
<1>2. IsFiniteSet(1 .. Len(s))
  BY <1>1, FS_Interval
<1>3. Occurrences(s, glyph) \in SUBSET (1 .. Len(s))
  BY <1>1 DEF Occurrences
<1>4. IsFiniteSet(Occurrences(s, glyph))
  BY <1>2, <1>3, FS_Subset
<1> QED BY <1>4, FS_CardinalityType DEF Often

LEMMA OftenConcat ==
  ASSUME NEW s \in Seq(GlyphSet), NEW t \in Seq(GlyphSet), NEW glyph
  PROVE  Often(s \o t, glyph) = Often(s, glyph) + Often(t, glyph)
<1> DEFINE m == Len(s)
           A == Occurrences(s, glyph)
           B == Occurrences(t, glyph)
           C == {k \in m + 1 .. m + Len(t) : t[k - m] = glyph}
<1>1. m \in Nat /\ Len(t) \in Nat /\ DOMAIN s = 1 .. m /\ DOMAIN t = 1 .. Len(t)
  OBVIOUS
<1>2. /\ DOMAIN (s \o t) = 1 .. m + Len(t)
      /\ \A k \in 1 .. m : (s \o t)[k] = s[k]
      /\ \A k \in m + 1 .. m + Len(t) : (s \o t)[k] = t[k - m]
  OBVIOUS
<1>3. IsFiniteSet(A) /\ IsFiniteSet(B) /\ Cardinality(A) \in Nat /\ Cardinality(B) \in Nat
  BY OftenIsNat DEF Often
<1> HIDE DEF m
<1>4. Occurrences(s \o t, glyph) = A \cup C
  <2>1. \A k : k \in 1 .. m + Len(t) <=> k \in 1 .. m \/ k \in m + 1 .. m + Len(t)
    BY <1>1
  <2> QED BY <1>1, <1>2, <2>1, Zenon DEF Occurrences
<1>5. A \cap C = {}
  <2>1. \A k \in 1 .. m : k \notin m + 1 .. m + Len(t)
    BY <1>1
  <2> QED BY <1>1, <2>1 DEF Occurrences
<1>6. ExistsBijection(B, C)
  <2> DEFINE shift == [k \in B |-> k + m]
  <2>1. \A k \in B : k \in Nat /\ k \in 1 .. Len(t) /\ t[k] = glyph
    BY <1>1 DEF Occurrences
  <2>2. \A k \in B : k + m \in C
    BY <1>1, <2>1
  <2>3. shift \in [B -> C]
    BY <2>2
  <2>4. \A j, k \in B : shift[j] = shift[k] => j = k
    BY <1>1, <2>1
  <2>5. \A i \in C : \E k \in B : shift[k] = i
    <3> SUFFICES ASSUME NEW i \in C PROVE \E k \in B : shift[k] = i
      OBVIOUS
    <3>1. i - m \in 1 .. Len(t) /\ t[i - m] = glyph /\ (i - m) + m = i
      BY <1>1
    <3>2. i - m \in B
      BY <1>1, <3>1 DEF Occurrences
    <3> QED BY <3>1, <3>2
  <2> HIDE DEF shift, B, C
  <2>6. shift \in Bijection(B, C)
    BY <2>3, <2>4, <2>5 DEF Bijection, Injection, IsInjective, Surjection
  <2> QED BY <2>6 DEF ExistsBijection
<1>7. IsFiniteSet(C) /\ Cardinality(C) = Cardinality(B)
  BY <1>3, <1>6, FS_Bijection
<1>8. Cardinality(A \cup C) = Cardinality(A) + Cardinality(C) - Cardinality(A \cap C)
  BY <1>3, <1>7, FS_Union
<1>9. Cardinality({}) = 0
  BY FS_EmptySet
<1> HIDE DEF A, B, C
<1>10. Cardinality(A \cup C) = Cardinality(A) + Cardinality(B) - 0
  BY <1>5, <1>7, <1>8, <1>9, Zenon
<1>11. Cardinality(A \cup C) = Cardinality(A) + Cardinality(B)
  BY <1>3, <1>10
<1> QED BY <1>4, <1>11 DEF Often, A, B

LEMMA OftenNever ==
  /\ \A glyph : Often(<<>>, glyph) = 0
  /\ \A M, s, glyph : s \in Seq(GlyphSet \ M) /\ glyph \in M => Often(s, glyph) = 0
<1>1. Cardinality({}) = 0
  BY FS_EmptySet
<1>2. \A glyph : Occurrences(<<>>, glyph) = {}
  BY DEF Occurrences
<1>3. ASSUME NEW M, NEW s \in Seq(GlyphSet \ M), NEW glyph \in M
      PROVE  Occurrences(s, glyph) = {}
  <2>1. \A k \in DOMAIN s : s[k] \in GlyphSet \ M
    OBVIOUS
  <2> QED BY <2>1 DEF Occurrences
<1> QED BY <1>1, <1>2, <1>3 DEF Often

LEMMA OftenRepeated ==
  ASSUME NEW n \in 1 .. 4, NEW name, NEW glyph
  PROVE  Often([k \in 1 .. n |-> name], glyph) = IF glyph = name THEN n ELSE 0
<1> DEFINE s == [k \in 1 .. n |-> name]
<1>1. CASE glyph = name
  <2>1. Occurrences(s, glyph) = 1 .. n
    BY <1>1 DEF Occurrences
  <2>2. Cardinality(1 .. n) = IF 1 > n THEN 0 ELSE n - 1 + 1
    <3>1. 1 \in Int /\ n \in Int
      OBVIOUS
    <3> QED BY <3>1, FS_Interval
  <2>3. Cardinality(1 .. n) = n
    BY <2>2
  <2> QED BY <1>1, <2>1, <2>3 DEF Often
<1>2. CASE glyph # name
  <2>1. Occurrences(s, glyph) = {}
    BY <1>2 DEF Occurrences
  <2> QED BY <1>2, <2>1, FS_EmptySet DEF Often
<1> QED BY <1>1, <1>2

\* Of n sequences, those in S have the glyph m times.
OftenIn(lists, n, glyph, m, S) ==
  /\ n \in Nat /\ m \in 1 .. 4 /\ S \subseteq 1 .. n
  /\ \A k \in 1 .. n : /\ lists[k] \in Seq(GlyphSet)
                       /\ Often(lists[k], glyph) = IF k \in S THEN m ELSE 0

LEMMA OftenInTurn ==
  ASSUME NEW lists, NEW n, NEW glyph, NEW m, NEW S, OftenIn(lists, n, glyph, m, S)
  PROVE  Often(InTurn(lists, n), glyph) = m * Cardinality(S)
<1> DEFINE Upto(k) == {j \in 1 .. k : j \in S}
           T == {k \in Nat : k <= n => Often(InTurn(lists, k), glyph) = m * Cardinality(Upto(k))}
<1> n \in Nat /\ m \in 1 .. 4 /\ S \subseteq 1 .. n
  BY DEF OftenIn
<1>0. \A k \in 1 .. n : /\ lists[k] \in Seq(GlyphSet)
                       /\ Often(lists[k], glyph) = IF k \in S THEN m ELSE 0
  BY DEF OftenIn
<1>1. \A k \in 0 .. n : InTurn(lists, k) \in Seq(GlyphSet)
  BY <1>0, InTurnIn
<1>2. 0 \in T
  <2>1. Upto(0) = {}
    OBVIOUS
  <2>2. Often(InTurn(lists, 0), glyph) = 0
    BY InTurnNone, OftenNever
  <2>3. m * 0 = 0
    OBVIOUS
  <2> QED BY <2>1, <2>2, <2>3, FS_EmptySet
<1>3. ASSUME NEW k \in Nat, k \in T PROVE k + 1 \in T
  <2> SUFFICES ASSUME k + 1 <= n
               PROVE  Often(InTurn(lists, k + 1), glyph) = m * Cardinality(Upto(k + 1))
    OBVIOUS
  <2>1. /\ k \in 0 .. n /\ k + 1 \in 1 .. n
        /\ Often(InTurn(lists, k), glyph) = m * Cardinality(Upto(k))
    BY <1>3
  <2>2. InTurn(lists, k + 1) = InTurn(lists, k) \o lists[k + 1]
    BY InTurnNext
  <2>3. Often(InTurn(lists, k + 1), glyph) = Often(InTurn(lists, k), glyph) + Often(lists[k + 1], glyph)
    <3>1. PICK s, t : s = InTurn(lists, k) /\ t = lists[k + 1]
      OBVIOUS
    <3>2. s \in Seq(GlyphSet) /\ t \in Seq(GlyphSet)
      BY <1>0, <1>1, <2>1, <3>1
    <3>3. Often(s \o t, glyph) = Often(s, glyph) + Often(t, glyph)
      BY <3>2, OftenConcat
    <3> QED BY <2>2, <3>1, <3>3
  <2>4. IsFiniteSet(Upto(k)) /\ Cardinality(Upto(k)) \in Nat
    <3>1. 1 \in Int /\ k \in Int /\ Upto(k) \in SUBSET (1 .. k)
      OBVIOUS
    <3>2. IsFiniteSet(1 .. k)
      BY <3>1, FS_Interval
    <3>3. IsFiniteSet(Upto(k))
      BY <3>1, <3>2, FS_Subset
    <3> QED BY <3>3, FS_CardinalityType
  <2>5. CASE k + 1 \in S
    <3>1. Upto(k + 1) = Upto(k) \cup {k + 1} /\ k + 1 \notin Upto(k)
      BY <2>5
    <3>2. Cardinality(Upto(k) \cup {k + 1}) = Cardinality(Upto(k)) + 1
      BY <2>4, <3>1, FS_AddElement
    <3>3. Often(lists[k + 1], glyph) = m
      BY <1>0, <2>1, <2>5
    <3>4. \A c \in Nat : m * (c + 1) = m * c + m
      OBVIOUS
    <3> HIDE DEF Upto
    <3> QED BY <2>1, <2>3, <2>4, <3>1, <3>2, <3>3, <3>4
  <2>6. CASE k + 1 \notin S
    <3>1. Upto(k + 1) = Upto(k)
      BY <2>6
    <3>2. Often(lists[k + 1], glyph) = 0
      BY <1>0, <2>1, <2>6
    <3>3. \A c \in Nat : m * c + 0 = m * c
      OBVIOUS
    <3> HIDE DEF Upto
    <3> QED BY <2>1, <2>3, <2>4, <3>1, <3>2, <3>3
  <2> QED BY <2>5, <2>6
<1> HIDE DEF T
<1>4. \A k \in Nat : k \in T
  BY <1>2, <1>3, SetInduction
<1>5. Upto(n) = S
  OBVIOUS
<1> HIDE DEF Upto
<1> QED BY <1>4, <1>5 DEF T

-----------------------------------------------------------------------------
(* How often calls print a glyph                                            *)

LEMMA SpellConcat ==
  ASSUME NEW s \in Seq(Call), NEW t \in Seq(Call)
  PROVE  Spell(s \o t) = Spell(s) \o Spell(t)
<1> DEFINE m == Len(s)
           both == [n \in DOMAIN (s \o t) |-> Printed((s \o t)[n])]
           front == [n \in DOMAIN s |-> Printed(s[n])]
           rest == [n \in DOMAIN t |-> Printed(t[n])]
           S == {k \in Nat : k <= Len(t) => InTurn(both, m + k) = InTurn(front, m) \o InTurn(rest, k)}
<1>1. /\ m \in Nat /\ Len(t) \in Nat /\ Len(s \o t) = m + Len(t)
      /\ DOMAIN s = 1 .. m /\ DOMAIN t = 1 .. Len(t) /\ DOMAIN (s \o t) = 1 .. m + Len(t)
      /\ \A k \in 1 .. m : (s \o t)[k] = s[k]
      /\ \A k \in 1 .. Len(t) : (s \o t)[m + k] = t[k] /\ m + k \in 1 .. m + Len(t)
  OBVIOUS
<1>2. \A k \in 1 .. m : both[k] = front[k] /\ front[k] \in Seq(GlyphSet)
  <2> SUFFICES ASSUME NEW k \in 1 .. m
               PROVE  both[k] = front[k] /\ front[k] \in Seq(GlyphSet)
    OBVIOUS
  <2>1. k \in 1 .. m + Len(t) /\ s[k] \in Call
    BY <1>1
  <2> QED BY <1>1, <2>1, PrintedGlyphs
<1>3. \A k \in 1 .. Len(t) : both[m + k] = rest[k] /\ rest[k] \in Seq(GlyphSet)
  <2> SUFFICES ASSUME NEW k \in 1 .. Len(t)
               PROVE  both[m + k] = rest[k] /\ rest[k] \in Seq(GlyphSet)
    OBVIOUS
  <2>1. t[k] \in Call
    BY <1>1
  <2> QED BY <1>1, <2>1, PrintedGlyphs
<1>4. Spell(s \o t) = InTurn(both, m + Len(t)) /\ Spell(s) = InTurn(front, m)
      /\ Spell(t) = InTurn(rest, Len(t))
  BY <1>1 DEF Spell
<1> HIDE DEF both, front, rest, m
<1>5. InTurn(both, m) = InTurn(front, m)
  BY <1>1, <1>2, InTurnSame
<1>6. InTurn(front, m) \in Seq(GlyphSet) /\ \A k \in 0 .. Len(t) : InTurn(rest, k) \in Seq(GlyphSet)
  <2>1. m \in 0 .. m
    BY <1>1
  <2> QED BY <1>1, <1>2, <1>3, <2>1, InTurnIn
<1>7. 0 \in S
  <2>1. m + 0 = m
    BY <1>1
  <2>2. InTurn(front, m) \o <<>> = InTurn(front, m)
    BY <1>6
  <2> QED BY <1>5, <2>1, <2>2, InTurnNone
<1>8. ASSUME NEW k \in Nat, k \in S PROVE k + 1 \in S
  <2> SUFFICES ASSUME k + 1 <= Len(t)
               PROVE  InTurn(both, m + (k + 1)) = InTurn(front, m) \o InTurn(rest, k + 1)
    OBVIOUS
  <2>1. /\ k <= Len(t) /\ k \in 0 .. Len(t) /\ k + 1 \in 1 .. Len(t)
        /\ m + k \in Nat /\ m + (k + 1) = (m + k) + 1
    BY <1>1
  <2>2. InTurn(both, (m + k) + 1) = InTurn(both, m + k) \o both[(m + k) + 1]
    BY <2>1, InTurnNext
  <2>3. both[(m + k) + 1] = rest[k + 1] /\ rest[k + 1] \in Seq(GlyphSet)
    BY <1>3, <2>1
  <2>4. InTurn(both, m + k) = InTurn(front, m) \o InTurn(rest, k)
    BY <1>8, <2>1
  <2>5. InTurn(rest, k + 1) = InTurn(rest, k) \o rest[k + 1]
    BY InTurnNext
  <2>6. (InTurn(front, m) \o InTurn(rest, k)) \o rest[k + 1]
          = InTurn(front, m) \o (InTurn(rest, k) \o rest[k + 1])
    BY <1>6, <2>1, <2>3, GlyphsConcat
  <2> QED BY <2>1, <2>2, <2>3, <2>4, <2>5, <2>6
<1> HIDE DEF S
<1>9. \A k \in Nat : k \in S
  BY <1>7, <1>8, SetInduction
<1>10. InTurn(both, m + Len(t)) = InTurn(front, m) \o InTurn(rest, Len(t))
  BY <1>1, <1>9 DEF S
<1> QED BY <1>4, <1>10

Says(s, glyph) == Often(Spell(s), glyph)

LEMMA SaysConcat ==
  \A s, t \in Seq(Call) : \A glyph :
    /\ s \o t \in Seq(Call)
    /\ Says(s, glyph) \in Nat
    /\ Says(s \o t, glyph) = Says(s, glyph) + Says(t, glyph)
<1> SUFFICES ASSUME NEW s \in Seq(Call), NEW t \in Seq(Call), NEW glyph
             PROVE  /\ s \o t \in Seq(Call)
                    /\ Says(s, glyph) \in Nat
                    /\ Says(s \o t, glyph) = Says(s, glyph) + Says(t, glyph)
  OBVIOUS
<1>1. Spell(s) \in Seq(GlyphSet) /\ Spell(t) \in Seq(GlyphSet)
  BY SpellGlyphs
<1>2. Spell(s \o t) = Spell(s) \o Spell(t) /\ s \o t \in Seq(Call)
  BY SpellConcat, CallsConcat
<1>3. Often(Spell(s) \o Spell(t), glyph) = Often(Spell(s), glyph) + Often(Spell(t), glyph)
  BY <1>1, OftenConcat
<1>4. Often(Spell(s), glyph) \in Nat
  BY <1>1, OftenIsNat
<1> QED BY <1>2, <1>3, <1>4 DEF Says

LEMMA SaysMaybe ==
  \A b, s, glyph : Says(Maybe(b, s), glyph) = IF b THEN Says(s, glyph) ELSE 0
BY SpellNone, OftenNever DEF Says, Maybe

LEMMA SaysStatic ==
  \A name \in GlyphSet : \A glyph :
    /\ Static(name) \in Seq(Call)
    /\ Says(Static(name), glyph) = IF glyph = name THEN Len(StaticTypes(name)) ELSE 0
<1> SUFFICES ASSUME NEW name \in GlyphSet, NEW glyph
             PROVE  /\ Static(name) \in Seq(Call)
                    /\ Says(Static(name), glyph)
                         = IF glyph = name THEN Len(StaticTypes(name)) ELSE 0
  OBVIOUS
<1>1. PICK s : s = Static(name)
  OBVIOUS
<1>2. s \in Seq(Call) /\ s # <<>> /\ Tail(s) = <<>> /\ Head(s) = [do |-> "static", arg |-> name]
      /\ Head(s) \in Call
  <2>1. s \in Seq(Call) /\ Len(s) = 1 /\ Head(s) = [do |-> "static", arg |-> name]
    BY <1>1, StaticIsPrinted DEF Static
  <2>2. s # <<>> /\ Head(s) \in Call /\ Tail(s) \in Seq(Call) /\ Len(Tail(s)) = 0
    BY <2>1
  <2> QED BY <2>1, <2>2, EmptySeq
<1>3. Printed(Head(s)) \in Seq(GlyphSet)
  BY <1>2, PrintedGlyphs
<1>4. Spell(s) = Printed(Head(s))
  <2>1. Spell(s) = Printed(Head(s)) \o <<>>
    BY <1>2, SpellFirst, SpellNone
  <2> QED BY <1>3, <2>1
<1>5. PICK n \in 1 .. 4 : n = Len(StaticTypes(name)) /\ DOMAIN StaticTypes(name) = 1 .. n
  BY StaticTypesLength, StaticTypesSequence
<1>6. Printed(Head(s)) = [k \in 1 .. n |-> name]
  BY <1>2, <1>5 DEF Printed
<1>7. Often([k \in 1 .. n |-> name], glyph) = IF glyph = name THEN n ELSE 0
  BY OftenRepeated
<1>8. Says(s, glyph) = IF glyph = name THEN n ELSE 0
  BY <1>4, <1>6, <1>7 DEF Says
<1> QED BY <1>1, <1>2, <1>5, <1>8

\* Calls that print none of the glyphs of M.
Quiet(M) == {call \in Call : call.do \in {"static", "text"} => call.arg \notin M}

LEMMA SaysQuiet ==
  \A M : \A s \in Seq(Quiet(M)) : s \in Seq(Call) /\ \A glyph \in M : Says(s, glyph) = 0
<1> SUFFICES ASSUME NEW M, NEW s \in Seq(Quiet(M))
             PROVE  s \in Seq(Call) /\ \A glyph \in M : Says(s, glyph) = 0
  OBVIOUS
<1>1. s \in Seq(Call)
  <2>1. Quiet(M) \subseteq Call
    BY DEF Quiet
  <2> QED BY <2>1
<1>2. ASSUME NEW call \in Quiet(M) PROVE Printed(call) \in Seq(GlyphSet \ M)
  <2>0. call \in Call
    BY DEF Quiet
  <2>1. CASE call.do = "static"
    <3>1. call.arg \in GlyphSet \ M
      BY <2>0, <2>1 DEF Quiet, Call, PlainCall
    <3>2. PICK n \in 1 .. 4 : DOMAIN StaticTypes(call.arg) = 1 .. n
      BY StaticTypesLength, StaticTypesSequence
    <3>3. Printed(call) = [k \in 1 .. n |-> call.arg]
      BY <2>1, <3>2 DEF Printed
    <3> QED BY <3>1, <3>2, <3>3
  <2>2. CASE call.do = "text"
    <3>1. call.arg \in GlyphSet \ M
      BY <2>0, <2>2 DEF Quiet, Call, PlainCall
    <3> QED BY <2>2, <3>1 DEF Printed
  <2>3. CASE call.do \notin {"static", "text"}
    BY <2>3 DEF Printed
  <2> QED BY <2>1, <2>2, <2>3
<1>3. Spell(s) \in Seq(GlyphSet \ M)
  <2> DEFINE lists == [n \in DOMAIN s |-> Printed(s[n])]
  <2>1. \A k \in 1 .. Len(s) : lists[k] \in Seq(GlyphSet \ M)
    BY <1>2
  <2>2. Len(s) \in Nat /\ Len(s) \in 0 .. Len(s)
    OBVIOUS
  <2> HIDE DEF lists
  <2>3. InTurn(lists, Len(s)) \in Seq(GlyphSet \ M)
    BY <2>1, <2>2, InTurnIn
  <2> QED BY <2>3 DEF Spell, lists
<1> QED BY <1>1, <1>3, OftenNever DEF Says

LEMMA QuietConcat ==
  \A M : /\ \A s, t \in Seq(Quiet(M)) : s \o t \in Seq(Quiet(M))
         /\ \A b, s : (b => s \in Seq(Quiet(M))) => Maybe(b, s) \in Seq(Quiet(M))
         /\ \A s, t : \A b : s \in Seq(Quiet(M)) /\ t \in Seq(Quiet(M)) =>
              (IF b THEN s ELSE t) \in Seq(Quiet(M))
BY DEF Maybe

\* The single calls.
LEMMA QuietCalls ==
  \A M : /\ \A type \in DOMAIN TokenType : Token(type) \in Seq(Quiet(M))
         /\ \A name \in GlyphSet \ M : Static(name) \in Seq(Quiet(M)) /\ Text(name) \in Seq(Quiet(M))
         /\ Fail \in Seq(Quiet(M))
<1> SUFFICES ASSUME NEW M
             PROVE  /\ \A type \in DOMAIN TokenType : Token(type) \in Seq(Quiet(M))
                    /\ \A name \in GlyphSet \ M : /\ Static(name) \in Seq(Quiet(M))
                                                  /\ Text(name) \in Seq(Quiet(M))
                    /\ Fail \in Seq(Quiet(M))
  OBVIOUS
<1>1. ASSUME NEW type \in DOMAIN TokenType PROVE Token(type) \in Seq(Quiet(M))
  <2>1. [do |-> "token", arg |-> type] \in Quiet(M)
    BY DEF Quiet, Call, PlainCall
  <2> QED BY <2>1 DEF Token
<1>2. ASSUME NEW name \in GlyphSet \ M
      PROVE  Static(name) \in Seq(Quiet(M)) /\ Text(name) \in Seq(Quiet(M))
  <2>1. [do |-> "static", arg |-> name] \in Quiet(M) /\ [do |-> "text", arg |-> name] \in Quiet(M)
    BY DEF Quiet, Call, PlainCall
  <2> QED BY <2>1 DEF Static, Text
<1>3. Fail \in Seq(Quiet(M))
  <2>1. [do |-> "fail", arg |-> "INVALID_ARGUMENT"] \in Quiet(M)
    BY DEF Quiet, Call
  <2> QED BY <2>1 DEF Fail
<1> QED BY <1>1, <1>2, <1>3

LEMMA QuietEmpty == \A M : <<>> \in Seq(Quiet(M))
OBVIOUS

-----------------------------------------------------------------------------
(* What prints no prefix and no decorator                                   *)

Ordinary == Quiet(Modifiers)

LEMMA OrdinaryConcat ==
  /\ \A s, t \in Seq(Ordinary) : s \o t \in Seq(Ordinary)
  /\ \A b, s : (b => s \in Seq(Ordinary)) => Maybe(b, s) \in Seq(Ordinary)
  /\ <<>> \in Seq(Ordinary) /\ Fail \in Seq(Ordinary)
BY QuietConcat, QuietEmpty, QuietCalls DEF Ordinary

LEMMA OrdinaryTokens ==
  \A type \in {"WHITESPACE", "DELIMITER", "PARENTHESIS_OPEN", "PARENTHESIS_CLOSE", "PREFIX",
     "MNEMONIC", "REGISTER", "ADDRESS_ABS", "ADDRESS_REL", "DISPLACEMENT", "IMMEDIATE", "TYPECAST",
     "DECORATOR"} : Token(type) \in Seq(Ordinary)
BY QuietCalls DEF Ordinary, TokenType

LEMMA OrdinaryStrings ==
  /\ \A name \in {"ADD", "SUB", "MUL", "DELIM_MEMORY", "DELIM_SEGMENT", "DELIM_MNEMONIC",
                  "DELIM_OPERAND", "MEMORY_BEGIN", "MEMORY_END", "REGISTER", "IMMEDIATE",
                  "ADDR_RELATIVE", "SIZE", "SIZE_BCST", "DECO_END", "REX"} :
       Static(name) \in Seq(Ordinary)
  /\ \A name \in FixedWords : Text(name) \in Seq(Ordinary)
<1>1. /\ FixedWords \subseteq GlyphSet \ Modifiers
      /\ {"ADD", "SUB", "MUL", "DELIM_MEMORY", "DELIM_SEGMENT", "DELIM_MNEMONIC",
          "DELIM_OPERAND", "MEMORY_BEGIN", "MEMORY_END", "REGISTER", "IMMEDIATE",
          "ADDR_RELATIVE", "SIZE", "SIZE_BCST", "DECO_END", "REX"} \subseteq GlyphSet \ Modifiers
  BY GlyphAssumption
     DEF FixedWords, FixedStrings, Modifiers, PrefixStrings, DecoratorStrings
<1> QED BY <1>1, QuietCalls DEF Ordinary

LEMMA OrdinaryRegister ==
  \A c : /\ \A reg \in GlyphSet \ Modifiers : PrintRegister(c, reg) \in Seq(Ordinary)
         /\ PrintSegment(c) \in Seq(Ordinary)
<1> SUFFICES ASSUME NEW c
             PROVE  /\ \A reg \in GlyphSet \ Modifiers : PrintRegister(c, reg) \in Seq(Ordinary)
                    /\ PrintSegment(c) \in Seq(Ordinary)
  OBVIOUS
<1>1. /\ Static("REGISTER") \in Seq(Ordinary) /\ Token("REGISTER") \in Seq(Ordinary)
      /\ Static("DELIM_SEGMENT") \in Seq(Ordinary)
  BY OrdinaryStrings, OrdinaryTokens
<1>2. ASSUME NEW reg \in GlyphSet \ Modifiers PROVE PrintRegister(c, reg) \in Seq(Ordinary)
  <2>1. Text(reg) \in Seq(Ordinary)
    BY QuietCalls DEF Ordinary
  <2> QED BY <1>1, <2>1, OrdinaryConcat DEF PrintRegister
<1>3. {"ES", "CS", "FS", "GS", "SS", "DS"} \subseteq GlyphSet \ Modifiers
  BY GlyphAssumption DEF FixedStrings, Modifiers, PrefixStrings, DecoratorStrings
<1>4. PrintSegment(c) \in Seq(Ordinary)
  <2>1. \A name \in {"ES", "CS", "FS", "GS", "SS", "DS"} :
          PrintRegister(c, name) \o Static("DELIM_SEGMENT") \in Seq(Ordinary)
    BY <1>1, <1>2, <1>3, OrdinaryConcat
  <2> QED BY <2>1, OrdinaryConcat DEF PrintSegment
<1> QED BY <1>2, <1>4

LEMMA OrdinaryNumbers ==
  \A c : /\ PrintAddressABS(c) \in Seq(Ordinary) /\ PrintAddressREL(c) \in Seq(Ordinary)
         /\ PrintIMM(c) \in Seq(Ordinary) /\ Token("IMMEDIATE") \o Text("NUMBER") \in Seq(Ordinary)
         /\ IntelPrintDISP(c) \in Seq(Ordinary) /\ ATTPrintDISP(c) \in Seq(Ordinary)
         /\ PrintTypecast(c) \in Seq(Ordinary)
<1> SUFFICES ASSUME NEW c
             PROVE  /\ PrintAddressABS(c) \in Seq(Ordinary) /\ PrintAddressREL(c) \in Seq(Ordinary)
                    /\ PrintIMM(c) \in Seq(Ordinary)
                    /\ Token("IMMEDIATE") \o Text("NUMBER") \in Seq(Ordinary)
                    /\ IntelPrintDISP(c) \in Seq(Ordinary) /\ ATTPrintDISP(c) \in Seq(Ordinary)
                    /\ PrintTypecast(c) \in Seq(Ordinary)
  OBVIOUS
<1>1. /\ \A type \in {"ADDRESS_ABS", "ADDRESS_REL", "DISPLACEMENT", "IMMEDIATE"} :
           Token(type) \in Seq(Ordinary)
      /\ \A name \in {"ADD", "SUB", "IMMEDIATE", "ADDR_RELATIVE", "SIZE", "SIZE_BCST"} :
           Static(name) \in Seq(Ordinary)
      /\ \A name \in {"NUMBER", "ADDRESS", "PLUS"} : Text(name) \in Seq(Ordinary)
  BY OrdinaryStrings, OrdinaryTokens DEF FixedWords
<1>2. PrintAddressMASM(c) \in Seq(Ordinary)
  BY <1>1, OrdinaryConcat DEF PrintAddressMASM
<1>3. PrintAddressABS(c) \in Seq(Ordinary)
  BY <1>1, <1>2, OrdinaryConcat DEF PrintAddressABS
<1>4. PrintAddressREL(c) \in Seq(Ordinary)
  BY <1>1, <1>2, OrdinaryConcat DEF PrintAddressREL
<1>5. PrintIMM(c) \in Seq(Ordinary)
  BY <1>1, OrdinaryConcat DEF PrintIMM
<1>6. IntelPrintDISP(c) \in Seq(Ordinary)
  <2>1. \A b : (IF b THEN Static("SUB") ELSE Static("ADD")) \in Seq(Ordinary)
    BY <1>1
  <2>2. \A b : Static(IF b THEN "SUB" ELSE "ADD") \in Seq(Ordinary)
    BY <1>1
  <2> QED BY <1>1, <2>2, OrdinaryConcat DEF IntelPrintDISP
<1>7. ATTPrintDISP(c) \in Seq(Ordinary) /\ Token("IMMEDIATE") \o Text("NUMBER") \in Seq(Ordinary)
  BY <1>1, OrdinaryConcat DEF ATTPrintDISP
<1>8. PrintTypecast(c) \in Seq(Ordinary)
  BY <1>1, OrdinaryConcat DEF PrintTypecast
<1> QED BY <1>3, <1>4, <1>5, <1>6, <1>7, <1>8

\* The operand has registers that are not called like a modifier.
Named(c) == /\ OperandFits(c.insn, c.op)
            /\ {c.op.reg, c.op.base, c.op.index} \cap Modifiers = {}

LEMMA OrdinaryMemory ==
  \A c : Named(c) /\ c.op.type = "MEMORY" =>
    IntelFormatOperandMEM(c) \in Seq(Ordinary) /\ ATTFormatOperandMEM(c) \in Seq(Ordinary)
<1> SUFFICES ASSUME NEW c, Named(c), c.op.type = "MEMORY"
             PROVE  /\ IntelFormatOperandMEM(c) \in Seq(Ordinary)
                    /\ ATTFormatOperandMEM(c) \in Seq(Ordinary)
  OBVIOUS
<1> DEFINE op == c.op
<1>1. \A name \in {"ADD", "MUL", "MEMORY_BEGIN", "MEMORY_END", "DELIM_MEMORY"} :
        /\ Static(name) \in Seq(Ordinary)
        /\ \A b : Maybe(b, Static(name)) \in Seq(Ordinary)
  BY OrdinaryStrings, OrdinaryConcat
<1>2. op.index # "NONE" => PrintRegister(c, op.index) \in Seq(Ordinary)
  BY OrdinaryRegister DEF Named, OperandFits
<1>3. Maybe(op.base # "NONE", PrintRegister(c, op.base)) \in Seq(Ordinary)
  BY OrdinaryRegister, OrdinaryConcat DEF Named, OperandFits
<1>4. /\ Token("IMMEDIATE") \in Seq(Ordinary) /\ Text("NUMBER") \in Seq(Ordinary)
      /\ Token("DELIMITER") \in Seq(Ordinary)
  BY OrdinaryTokens, OrdinaryStrings DEF FixedWords
<1>5. /\ PrintAddressABS(c) \in Seq(Ordinary) /\ PrintTypecast(c) \in Seq(Ordinary)
      /\ IntelPrintDISP(c) \in Seq(Ordinary) /\ ATTPrintDISP(c) \in Seq(Ordinary)
      /\ PrintSegment(c) \in Seq(Ordinary)
  BY OrdinaryNumbers, OrdinaryRegister
<1>6. IntelFormatOperandMEM(c) \in Seq(Ordinary)
  <2> DEFINE scale == Maybe(HasScale(c), Static("MUL") \o Token("IMMEDIATE") \o Text("NUMBER"))
             index == Maybe(op.index # "NONE",
                        Maybe(op.base # "NONE", Static("ADD")) \o PrintRegister(c, op.index)
                          \o scale)
             tail == CASE Bare(op) -> PrintAddressABS(c)
                       [] ~Bare(op) /\ op.disp \in {"POSITIVE", "NEGATIVE"} -> IntelPrintDISP(c)
                       [] OTHER -> <<>>
             place == IF AsAddress(c) THEN PrintAddressABS(c)
                      ELSE Maybe(op.base # "NONE", PrintRegister(c, op.base)) \o index \o tail
             cast == Maybe(op.mem \in {"MEM", "AGEN", "VSIB"}, PrintTypecast(c))
             all == cast \o PrintSegment(c) \o Static("MEMORY_BEGIN") \o place
                      \o Static("MEMORY_END")
  <2>1. scale \in Seq(Ordinary)
    BY <1>1, <1>4, OrdinaryConcat
  <2> HIDE DEF scale
  <2>2. index \in Seq(Ordinary)
    BY <1>1, <1>2, <2>1, OrdinaryConcat
  <2>3. tail \in Seq(Ordinary)
    BY <1>5, OrdinaryConcat
  <2> HIDE DEF index, tail
  <2>4. place \in Seq(Ordinary)
    BY <1>3, <1>5, <2>2, <2>3, OrdinaryConcat
  <2>5. cast \in Seq(Ordinary)
    BY <1>5, OrdinaryConcat
  <2>6. IntelFormatOperandMEM(c) = all
    BY DEF IntelFormatOperandMEM, index, tail, scale
  <2> HIDE DEF cast, place
  <2>7. all \in Seq(Ordinary)
    BY <1>1, <1>5, <2>4, <2>5, OrdinaryConcat
  <2> QED BY <2>6, <2>7
<1>7. ATTFormatOperandMEM(c) \in Seq(Ordinary)
  <2> DEFINE scale == Maybe(HasScale(c), Token("DELIMITER") \o Static("DELIM_MEMORY")
                                           \o Token("IMMEDIATE") \o Text("NUMBER"))
             index == Maybe(op.index # "NONE",
                        Static("DELIM_MEMORY") \o PrintRegister(c, op.index) \o scale)
             disp == Maybe(op.disp \in {"POSITIVE", "NEGATIVE"}, ATTPrintDISP(c))
             place == IF AsAddress(c) \/ Bare(op) THEN PrintAddressABS(c)
                      ELSE disp \o Static("MEMORY_BEGIN")
                             \o Maybe(op.base # "NONE", PrintRegister(c, op.base)) \o index
                             \o Static("MEMORY_END")
             all == Maybe(c.insn.branch # "NONE", Static("MUL")) \o PrintSegment(c) \o place
  <2>1. scale \in Seq(Ordinary)
    BY <1>1, <1>4, OrdinaryConcat
  <2> HIDE DEF scale
  <2>2. index \in Seq(Ordinary)
    BY <1>1, <1>2, <2>1, OrdinaryConcat
  <2>3. disp \in Seq(Ordinary)
    BY <1>5, OrdinaryConcat
  <2> HIDE DEF index, disp
  <2>4. place \in Seq(Ordinary)
    BY <1>1, <1>3, <1>5, <2>2, <2>3, OrdinaryConcat
  <2>5. ATTFormatOperandMEM(c) = all
    BY DEF ATTFormatOperandMEM, index, disp, scale
  <2> HIDE DEF place
  <2>6. all \in Seq(Ordinary)
    BY <1>1, <1>5, <2>4, OrdinaryConcat
  <2> QED BY <2>5, <2>6
<1> QED BY <1>6, <1>7

(* An operand prints no modifier.                                           *)
LEMMA OrdinaryOperand == \A c : Named(c) => FormatOperand(c) \in Seq(Ordinary)
<1> SUFFICES ASSUME NEW c, Named(c) PROVE FormatOperand(c) \in Seq(Ordinary)
  OBVIOUS
<1>1. CASE c.op.type = "REGISTER"
  <2>1. PrintRegister(c, c.op.reg) \in Seq(Ordinary)
    BY <1>1, OrdinaryRegister DEF Named, OperandFits
  <2>2. \A b : Maybe(b, Static("MUL")) \in Seq(Ordinary)
    BY OrdinaryStrings, OrdinaryConcat
  <2>3. FormatOperandREG(c) \in Seq(Ordinary)
    BY <2>1, <2>2, OrdinaryConcat DEF FormatOperandREG
  <2> QED BY <1>1, <2>3 DEF FormatOperand
<1>2. CASE c.op.type = "MEMORY"
  BY <1>2, OrdinaryMemory DEF FormatOperand
<1>3. CASE c.op.type = "POINTER"
  <2>1. /\ Static("DELIM_SEGMENT") \in Seq(Ordinary) /\ Token("IMMEDIATE") \in Seq(Ordinary)
        /\ Text("NUMBER") \in Seq(Ordinary)
    BY OrdinaryStrings, OrdinaryTokens DEF FixedWords
  <2>2. FormatOperandPTR(c) \in Seq(Ordinary)
    BY <2>1, OrdinaryConcat DEF FormatOperandPTR
  <2> QED BY <1>3, <2>2 DEF FormatOperand
<1>4. CASE c.op.type = "IMMEDIATE"
  <2>1. FormatOperandIMM(c) \in Seq(Ordinary)
    BY OrdinaryNumbers DEF FormatOperandIMM
  <2> QED BY <1>4, <2>1 DEF FormatOperand
<1> QED BY <1>1, <1>2, <1>3, <1>4 DEF Named, OperandFits

(* Nor do the mnemonic, the default flags as an operand and the delimiters.  *)
LEMMA OrdinaryHead ==
  \A c : /\ PrintMnemonic(c) \in Seq(Ordinary) /\ FormatDfv(c) \in Seq(Ordinary)
         /\ \A b : Static(IF b THEN "DELIM_MNEMONIC" ELSE "DELIM_OPERAND") \in Seq(Ordinary)
<1> SUFFICES ASSUME NEW c
             PROVE  /\ PrintMnemonic(c) \in Seq(Ordinary) /\ FormatDfv(c) \in Seq(Ordinary)
                    /\ \A b : Static(IF b THEN "DELIM_MNEMONIC" ELSE "DELIM_OPERAND") \in Seq(Ordinary)
  OBVIOUS
<1>1. /\ Token("MNEMONIC") \in Seq(Ordinary) /\ Token("IMMEDIATE") \in Seq(Ordinary)
      /\ \A word \in {"NAME", "FAR", "SHORT", "NEAR", "NF", "SIZE", "NUMBER"} :
           /\ Text(word) \in Seq(Ordinary)
           /\ \A b : Maybe(b, Text(word)) \in Seq(Ordinary)
      /\ \A name \in {"DELIM_MNEMONIC", "DELIM_OPERAND", "IMMEDIATE"} :
           /\ Static(name) \in Seq(Ordinary)
           /\ \A b : Maybe(b, Static(name)) \in Seq(Ordinary)
  BY OrdinaryTokens, OrdinaryStrings, OrdinaryConcat DEF FixedWords
<1>2. BranchSize(c) \in Seq(Ordinary)
  <2>1. c.insn.branch \in {"SHORT", "NEAR"} => Text(c.insn.branch) \in Seq(Ordinary)
    BY <1>1
  <2> QED BY <2>1, OrdinaryConcat DEF BranchSize
<1>3. Suffix(c) \in Seq(Ordinary)
  BY <1>1 DEF Suffix
<1>4. IntelPrintMnemonic(c) \in Seq(Ordinary)
  BY <1>1, <1>2, <1>3, OrdinaryConcat DEF IntelPrintMnemonic
<1>5. ATTPrintMnemonic(c) \in Seq(Ordinary)
  BY <1>1, <1>2, <1>3, OrdinaryConcat DEF ATTPrintMnemonic
<1>6. FormatDfv(c) \in Seq(Ordinary)
  BY <1>1, OrdinaryConcat DEF FormatDfv
<1>7. ASSUME NEW b PROVE Static(IF b THEN "DELIM_MNEMONIC" ELSE "DELIM_OPERAND") \in Seq(Ordinary)
  BY <1>1
<1> QED BY <1>4, <1>5, <1>6, <1>7 DEF PrintMnemonic

-----------------------------------------------------------------------------
(* The prefixes                                                             *)

LEMMA SpellInTurn ==
  ASSUME NEW lists, NEW n \in Nat, \A k \in 1 .. n : lists[k] \in Seq(Call)
  PROVE  Spell(InTurn(lists, n)) = InTurn([k \in 1 .. n |-> Spell(lists[k])], n)
<1> DEFINE spelled == [k \in 1 .. n |-> Spell(lists[k])]
           S == {k \in Nat : k <= n => Spell(InTurn(lists, k)) = InTurn(spelled, k)}
<1>1. \A k \in 0 .. n : InTurn(lists, k) \in Seq(Call)
  BY InTurnIn
<1>2. 0 \in S
  BY InTurnNone, SpellNone
<1>3. ASSUME NEW k \in Nat, k \in S PROVE k + 1 \in S
  <2> SUFFICES ASSUME k + 1 <= n PROVE Spell(InTurn(lists, k + 1)) = InTurn(spelled, k + 1)
    OBVIOUS
  <2>1. k \in 0 .. n /\ k + 1 \in 1 .. n /\ Spell(InTurn(lists, k)) = InTurn(spelled, k)
    BY <1>3
  <2>2. InTurn(lists, k + 1) = InTurn(lists, k) \o lists[k + 1]
    BY InTurnNext
  <2>3. InTurn(spelled, k + 1) = InTurn(spelled, k) \o spelled[k + 1]
    BY InTurnNext
  <2>4. Spell(InTurn(lists, k) \o lists[k + 1]) = Spell(InTurn(lists, k)) \o Spell(lists[k + 1])
    BY <1>1, <2>1, SpellConcat
  <2> QED BY <2>1, <2>2, <2>3, <2>4
<1> HIDE DEF S
<1>4. \A k \in Nat : k \in S
  BY <1>2, <1>3, SetInduction
<1> QED BY <1>4 DEF S

\* Of n sequences of calls, those in S print the glyph m times.
SaysIn(lists, n, glyph, m, S) ==
  /\ n \in Nat /\ m \in 1 .. 4 /\ S \subseteq 1 .. n
  /\ \A k \in 1 .. n : /\ lists[k] \in Seq(Call)
                       /\ Says(lists[k], glyph) = IF k \in S THEN m ELSE 0

LEMMA SaysInTurn ==
  ASSUME NEW lists, NEW n, NEW glyph, NEW m, NEW S, SaysIn(lists, n, glyph, m, S)
  PROVE  Says(InTurn(lists, n), glyph) = m * Cardinality(S)
<1> DEFINE spelled == [k \in 1 .. n |-> Spell(lists[k])]
<1>1. Spell(InTurn(lists, n)) = InTurn(spelled, n)
  BY SpellInTurn DEF SaysIn
<1>2. OftenIn(spelled, n, glyph, m, S)
  BY SpellGlyphs DEF SaysIn, OftenIn, Says
<1> HIDE DEF spelled
<1>3. Often(InTurn(spelled, n), glyph) = m * Cardinality(S)
  BY <1>2, OftenInTurn
<1> QED BY <1>1, <1>3 DEF Says

LEMMA ModifierGlyphs ==
  /\ PrefixStrings \subseteq GlyphSet /\ DecoratorStrings \subseteq GlyphSet
  /\ PrefixStrings \cap DecoratorStrings = {}
  /\ PrefixStrings \subseteq Modifiers /\ DecoratorStrings \subseteq Modifiers
  /\ \A name \in PrefixStrings : Len(StaticTypes(name)) = 2
<1>1. \A name \in PrefixStrings : StaticTypes(name) = <<"PREFIX", "WHITESPACE">>
  BY DEF StaticTypes, PrefixStrings
<1> QED BY <1>1, GlyphAssumption DEF FixedStrings, Modifiers, PrefixStrings, DecoratorStrings

LEMMA SaysPrefix ==
  \A name \in PrefixStrings : \A glyph :
    /\ Static(name) \in Seq(Call) /\ Static(name) \in Seq(Quiet(DecoratorStrings))
    /\ Says(Static(name), glyph) = IF glyph = name THEN 2 ELSE 0
    /\ \A b : /\ Maybe(b, Static(name)) \in Seq(Call)
              /\ Maybe(b, Static(name)) \in Seq(Quiet(DecoratorStrings))
              /\ Says(Maybe(b, Static(name)), glyph) = IF b /\ glyph = name THEN 2 ELSE 0
<1> SUFFICES ASSUME NEW name \in PrefixStrings, NEW glyph
             PROVE  /\ Static(name) \in Seq(Call) /\ Static(name) \in Seq(Quiet(DecoratorStrings))
                    /\ Says(Static(name), glyph) = IF glyph = name THEN 2 ELSE 0
                    /\ \A b : /\ Maybe(b, Static(name)) \in Seq(Call)
                              /\ Maybe(b, Static(name)) \in Seq(Quiet(DecoratorStrings))
                              /\ Says(Maybe(b, Static(name)), glyph)
                                   = IF b /\ glyph = name THEN 2 ELSE 0
  OBVIOUS
<1>1. name \in GlyphSet \ DecoratorStrings /\ Len(StaticTypes(name)) = 2
  BY ModifierGlyphs
<1>2. Static(name) \in Seq(Call) /\ Says(Static(name), glyph) = IF glyph = name THEN 2 ELSE 0
  BY <1>1, SaysStatic
<1>3. Static(name) \in Seq(Quiet(DecoratorStrings))
  BY <1>1, QuietCalls
<1> QED BY <1>2, <1>3, SaysMaybe, CallsMaybe, QuietConcat

LEMMA OrdinaryIsQuiet ==
  \A s \in Seq(Ordinary) : /\ s \in Seq(Call) /\ s \in Seq(Quiet(DecoratorStrings))
                           /\ s \in Seq(Quiet(PrefixStrings))
                           /\ \A glyph \in Modifiers : Says(s, glyph) = 0
<1>1. /\ Ordinary \subseteq Quiet(DecoratorStrings) /\ Ordinary \subseteq Quiet(PrefixStrings)
      /\ Ordinary \subseteq Call
  BY ModifierGlyphs DEF Ordinary, Quiet
<1> QED BY <1>1, SaysQuiet DEF Ordinary

\* A byte that is ignored.
LEMMA SaysIgnored ==
  \A value : /\ PrintIgnored(value) \in Seq(Call)
             /\ PrintIgnored(value) \in Seq(Quiet(DecoratorStrings))
             /\ \A glyph \in PrefixStrings :
                  Says(PrintIgnored(value), glyph) = IF value = "LOCK" /\ glyph = "LOCK" THEN 2 ELSE 0
<1> SUFFICES ASSUME NEW value
             PROVE  /\ PrintIgnored(value) \in Seq(Call)
                    /\ PrintIgnored(value) \in Seq(Quiet(DecoratorStrings))
                    /\ \A glyph \in PrefixStrings :
                         Says(PrintIgnored(value), glyph)
                           = IF value = "LOCK" /\ glyph = "LOCK" THEN 2 ELSE 0
  OBVIOUS
<1>1. CASE value = "LOCK"
  <2>1. PrintIgnored(value) = Static("LOCK") /\ "LOCK" \in PrefixStrings
    BY <1>1 DEF PrintIgnored, PrefixStrings
  <2> QED BY <1>1, <2>1, SaysPrefix
<1>2. CASE value # "LOCK"
  <2>1. {"REX", "CS", "SS", "DS", "ES", "FS", "GS"} \subseteq GlyphSet \ Modifiers
    BY GlyphAssumption DEF FixedStrings, Modifiers, PrefixStrings, DecoratorStrings
  <2>2. \A name \in {"REX", "CS", "SS", "DS", "ES", "FS", "GS"} : Static(name) \in Seq(Ordinary)
    BY <2>1, QuietCalls DEF Ordinary
  <2>3. /\ Token("PREFIX") \in Seq(Ordinary) /\ Token("WHITESPACE") \in Seq(Ordinary)
        /\ Text("NUMBER") \in Seq(Ordinary) /\ Text("SPACE") \in Seq(Ordinary)
    BY OrdinaryTokens, OrdinaryStrings DEF FixedWords
  <2>4. PrintIgnored(value) \in Seq(Ordinary)
    BY <1>2, <2>2, <2>3, OrdinaryConcat DEF PrintIgnored
  <2> QED BY <1>2, <2>4, OrdinaryIsQuiet, ModifierGlyphs
<1> QED BY <1>1, <1>2

\* A byte that has an effect.
LEMMA SaysEffective ==
  \A attributes, value :
    LET shown == PrintEffective(attributes, value) IN
    /\ shown \in Seq(Call) /\ shown \in Seq(Quiet(DecoratorStrings))
    /\ Says(shown, "LOCK") = IF value = "LOCK" THEN 2 ELSE 0
    /\ \A glyph \in {"XACQUIRE", "BND"} :
         Says(shown, glyph) = IF value = "F2" /\ glyph \in attributes THEN 2 ELSE 0
    /\ Says(shown, "XRELEASE") = IF value = "F3" /\ "XRELEASE" \in attributes THEN 2 ELSE 0
<1> SUFFICES ASSUME NEW attributes, NEW value, NEW shown, shown = PrintEffective(attributes, value)
             PROVE  /\ shown \in Seq(Call) /\ shown \in Seq(Quiet(DecoratorStrings))
                    /\ Says(shown, "LOCK") = IF value = "LOCK" THEN 2 ELSE 0
                    /\ \A glyph \in {"XACQUIRE", "BND"} :
                         Says(shown, glyph) = IF value = "F2" /\ glyph \in attributes THEN 2 ELSE 0
                    /\ Says(shown, "XRELEASE")
                         = IF value = "F3" /\ "XRELEASE" \in attributes THEN 2 ELSE 0
  OBVIOUS
<1> DEFINE Effect(name) == Maybe(name \in attributes, Static(name))
<1>1. \A name \in {"LOCK", "XACQUIRE", "XRELEASE", "REP", "REPE", "REPNE", "BND"} :
        name \in PrefixStrings
  BY DEF PrefixStrings
<1>2. \A name \in {"LOCK", "XACQUIRE", "XRELEASE", "REP", "REPE", "REPNE", "BND"} : \A glyph :
        /\ Effect(name) \in Seq(Call) /\ Effect(name) \in Seq(Quiet(DecoratorStrings))
        /\ Says(Effect(name), glyph) = IF name \in attributes /\ glyph = name THEN 2 ELSE 0
  BY <1>1, SaysPrefix
<1> HIDE DEF Effect
<1>3. CASE value = "LOCK"
  <2>1. shown = Static("LOCK")
    BY <1>3 DEF PrintEffective
  <2> QED BY <1>1, <1>3, <2>1, SaysPrefix
<1>4. CASE value = "F2"
  <2>1. shown = (Effect("XACQUIRE") \o Effect("REPNE")) \o Effect("BND")
    BY <1>4 DEF PrintEffective, Effect
  <2>2. \A glyph : Says(shown, glyph)
          = Says(Effect("XACQUIRE"), glyph) + Says(Effect("REPNE"), glyph) + Says(Effect("BND"), glyph)
    <3>1. /\ Effect("XACQUIRE") \in Seq(Call) /\ Effect("REPNE") \in Seq(Call)
          /\ Effect("BND") \in Seq(Call)
      BY <1>2
    <3>2. /\ Effect("XACQUIRE") \o Effect("REPNE") \in Seq(Call)
          /\ \A glyph : Says(Effect("XACQUIRE") \o Effect("REPNE"), glyph)
                         = Says(Effect("XACQUIRE"), glyph) + Says(Effect("REPNE"), glyph)
      BY <3>1, SaysConcat
    <3>3. \A glyph : Says(shown, glyph)
            = Says(Effect("XACQUIRE") \o Effect("REPNE"), glyph) + Says(Effect("BND"), glyph)
      <4>1. PICK both : both = Effect("XACQUIRE") \o Effect("REPNE")
        OBVIOUS
      <4>2. both \in Seq(Call) /\ shown = both \o Effect("BND")
        BY <2>1, <3>2, <4>1
      <4>3. \A glyph : Says(shown, glyph) = Says(both, glyph) + Says(Effect("BND"), glyph)
        BY <3>1, <4>2, SaysConcat
      <4> QED BY <4>1, <4>3
    <3> QED BY <3>2, <3>3
  <2>3. shown \in Seq(Call) /\ shown \in Seq(Quiet(DecoratorStrings))
    BY <1>2, <2>1, QuietConcat, CallsConcat
  <2>4. \A glyph : Says(shown, glyph)
          = (IF "XACQUIRE" \in attributes /\ glyph = "XACQUIRE" THEN 2 ELSE 0)
              + (IF "REPNE" \in attributes /\ glyph = "REPNE" THEN 2 ELSE 0)
              + (IF "BND" \in attributes /\ glyph = "BND" THEN 2 ELSE 0)
    BY <1>2, <2>2
  <2> HIDE DEF Effect
  <2> QED BY <1>4, <2>3, <2>4
<1>5. CASE value = "F3"
  <2>1. shown = (Effect("XRELEASE") \o Effect("REP")) \o Effect("REPE")
    BY <1>5 DEF PrintEffective, Effect
  <2>2. \A glyph : Says(shown, glyph)
          = Says(Effect("XRELEASE"), glyph) + Says(Effect("REP"), glyph) + Says(Effect("REPE"), glyph)
    <3>1. /\ Effect("XRELEASE") \in Seq(Call) /\ Effect("REP") \in Seq(Call)
          /\ Effect("REPE") \in Seq(Call)
      BY <1>2
    <3>2. /\ Effect("XRELEASE") \o Effect("REP") \in Seq(Call)
          /\ \A glyph : Says(Effect("XRELEASE") \o Effect("REP"), glyph)
                         = Says(Effect("XRELEASE"), glyph) + Says(Effect("REP"), glyph)
      BY <3>1, SaysConcat
    <3>3. \A glyph : Says(shown, glyph)
            = Says(Effect("XRELEASE") \o Effect("REP"), glyph) + Says(Effect("REPE"), glyph)
      <4>1. PICK both : both = Effect("XRELEASE") \o Effect("REP")
        OBVIOUS
      <4>2. both \in Seq(Call) /\ shown = both \o Effect("REPE")
        BY <2>1, <3>2, <4>1
      <4>3. \A glyph : Says(shown, glyph) = Says(both, glyph) + Says(Effect("REPE"), glyph)
        BY <3>1, <4>2, SaysConcat
      <4> QED BY <4>1, <4>3
    <3> QED BY <3>2, <3>3
  <2>3. shown \in Seq(Call) /\ shown \in Seq(Quiet(DecoratorStrings))
    BY <1>2, <2>1, QuietConcat, CallsConcat
  <2>4. \A glyph : Says(shown, glyph)
          = (IF "XRELEASE" \in attributes /\ glyph = "XRELEASE" THEN 2 ELSE 0)
              + (IF "REP" \in attributes /\ glyph = "REP" THEN 2 ELSE 0)
              + (IF "REPE" \in attributes /\ glyph = "REPE" THEN 2 ELSE 0)
    BY <1>2, <2>2
  <2> HIDE DEF Effect
  <2> QED BY <1>5, <2>3, <2>4
<1>6. CASE value \notin {"LOCK", "F2", "F3"}
  <2>1. shown = <<>>
    BY <1>6 DEF PrintEffective
  <2> QED BY <1>6, <2>1, OrdinaryConcat, OrdinaryIsQuiet, OftenNever, SpellNone DEF Says
<1> QED BY <1>3, <1>4, <1>5, <1>6

LEMMA SingleIsOne == /\ \A S : Single(S) => Cardinality(S) = 1
                     /\ Cardinality({}) = 0
BY FS_Singleton, FS_EmptySet DEF Single

LEMMA SaysSix ==
  ASSUME NEW s1 \in Seq(Call), NEW s2 \in Seq(Call), NEW s3 \in Seq(Call), NEW s4 \in Seq(Call),
         NEW s5 \in Seq(Call), NEW s6 \in Seq(Call), NEW glyph
  PROVE  Says(s1 \o s2 \o s3 \o s4 \o s5 \o s6, glyph)
           = Says(s1, glyph) + Says(s2, glyph) + Says(s3, glyph) + Says(s4, glyph)
               + Says(s5, glyph) + Says(s6, glyph)
<1>1. PICK t2 : t2 = s1 \o s2
  OBVIOUS
<1>2. t2 \in Seq(Call) /\ Says(t2, glyph) = Says(s1, glyph) + Says(s2, glyph)
  BY <1>1, SaysConcat
<1>3. PICK t3 : t3 = t2 \o s3
  OBVIOUS
<1>4. t3 \in Seq(Call) /\ Says(t3, glyph) = Says(t2, glyph) + Says(s3, glyph)
  BY <1>2, <1>3, SaysConcat
<1>5. PICK t4 : t4 = t3 \o s4
  OBVIOUS
<1>6. t4 \in Seq(Call) /\ Says(t4, glyph) = Says(t3, glyph) + Says(s4, glyph)
  BY <1>4, <1>5, SaysConcat
<1>7. PICK t5 : t5 = t4 \o s5
  OBVIOUS
<1>8. t5 \in Seq(Call) /\ Says(t5, glyph) = Says(t4, glyph) + Says(s5, glyph)
  BY <1>6, <1>7, SaysConcat
<1>9. Says(t5 \o s6, glyph) = Says(t5, glyph) + Says(s6, glyph)
  BY <1>8, SaysConcat
<1> QED BY <1>1, <1>2, <1>3, <1>4, <1>5, <1>6, <1>7, <1>8, <1>9

\* The first of the REP group.
LEMMA SaysFirst ==
  ASSUME NEW attributes, \A name, other \in {"REP", "REPE", "REPNE"} \cap attributes : name = other
  PROVE  LET first == FirstNamed(attributes, <<"REP", "REPE", "REPNE">>) IN
         /\ first \in Seq(Call) /\ first \in Seq(Quiet(DecoratorStrings))
         /\ \A glyph \in PrefixStrings :
              Says(first, glyph)
                = IF glyph \in {"REP", "REPE", "REPNE"} /\ glyph \in attributes THEN 2 ELSE 0
<1> DEFINE names == <<"REP", "REPE", "REPNE">>
           has == {k \in DOMAIN names : names[k] \in attributes}
           first == CHOOSE k \in has : \A j \in has : k <= j
           printed == FirstNamed(attributes, names)
<1>1. /\ has \subseteq 1 .. 3 /\ \A k \in 1 .. 3 : k \in has <=> names[k] \in attributes
      /\ names[1] = "REP" /\ names[2] = "REPE" /\ names[3] = "REPNE"
  OBVIOUS
<1>2. printed = Maybe(has # {}, Static(names[first]))
  BY DEF FirstNamed
<1> HIDE DEF has, names, first, printed
<1>3. \A j, k \in has : j = k
  BY <1>1
<1>4. CASE has = {}
  <2>1. printed = <<>>
    BY <1>2, <1>4 DEF Maybe
  <2>2. \A glyph \in {"REP", "REPE", "REPNE"} : glyph \notin attributes
    BY <1>1, <1>4
  <2>3. <<>> \in Seq(Call) /\ <<>> \in Seq(Quiet(DecoratorStrings))
    OBVIOUS
  <2>4. \A glyph : Says(printed, glyph) = 0
    BY <2>1, OftenNever, SpellNone DEF Says
  <2> QED BY <2>1, <2>2, <2>3, <2>4 DEF printed, names
<1>5. CASE has # {}
  <2>1. PICK k \in has : TRUE
    BY <1>5
  <2>2. k \in 1 .. 3 /\ has = {k}
    BY <1>1, <1>3, <2>1
  <2>3. first = k
    BY <2>2 DEF first
  <2>4. /\ names[k] \in PrefixStrings /\ names[k] \in attributes
        /\ names[k] \in {"REP", "REPE", "REPNE"}
    BY <1>1, <2>1, <2>2 DEF PrefixStrings
  <2>5. printed = Static(names[k])
    BY <1>2, <1>5, <2>3 DEF Maybe
  <2>6. \A glyph \in {"REP", "REPE", "REPNE"} : glyph \in attributes => glyph = names[k]
    BY <2>4
  <2>7. /\ printed \in Seq(Call) /\ printed \in Seq(Quiet(DecoratorStrings))
        /\ \A glyph : Says(printed, glyph) = IF glyph = names[k] THEN 2 ELSE 0
    BY <2>4, <2>5, SaysPrefix
  <2> QED BY <2>4, <2>6, <2>7 DEF printed, names
<1> QED BY <1>4, <1>5

LEMMA SaysNamedPrefixes ==
  \A c : Describes(c) /\ ~c.f.detailed_prefixes =>
    /\ PrintPrefixes(c) \in Seq(Call) /\ PrintPrefixes(c) \in Seq(Quiet(DecoratorStrings))
    /\ \A glyph \in PrefixStrings :
         Says(PrintPrefixes(c), glyph) = IF glyph \in c.insn.attributes THEN 2 ELSE 0
<1> SUFFICES ASSUME NEW c, Describes(c), ~c.f.detailed_prefixes
             PROVE  /\ PrintPrefixes(c) \in Seq(Call)
                    /\ PrintPrefixes(c) \in Seq(Quiet(DecoratorStrings))
                    /\ \A glyph \in PrefixStrings :
                         Says(PrintPrefixes(c), glyph)
                           = IF glyph \in c.insn.attributes THEN 2 ELSE 0
  OBVIOUS
<1> DEFINE attributes == c.insn.attributes
           One(name) == Maybe(name \in attributes, Static(name))
           first == FirstNamed(attributes, <<"REP", "REPE", "REPNE">>)
           all == One("XACQUIRE") \o One("XRELEASE") \o One("LOCK") \o One("BND")
                    \o One("NOTRACK") \o first
<1>1. PrintPrefixes(c) = all
  BY DEF PrintPrefixes
<1>2. \A name, other \in {"REP", "REPE", "REPNE"} \cap attributes : name = other
  BY ModifierAssumption DEF Describes, PrefixesFit
<1>3. /\ first \in Seq(Call) /\ first \in Seq(Quiet(DecoratorStrings))
      /\ \A glyph \in PrefixStrings :
           Says(first, glyph)
             = IF glyph \in {"REP", "REPE", "REPNE"} /\ glyph \in attributes THEN 2 ELSE 0
  BY <1>2, SaysFirst
<1>4. \A name \in {"XACQUIRE", "XRELEASE", "LOCK", "BND", "NOTRACK"} :
        /\ One(name) \in Seq(Call) /\ One(name) \in Seq(Quiet(DecoratorStrings))
        /\ \A glyph : Says(One(name), glyph) = IF name \in attributes /\ glyph = name THEN 2 ELSE 0
  <2> SUFFICES ASSUME NEW name \in {"XACQUIRE", "XRELEASE", "LOCK", "BND", "NOTRACK"}
               PROVE  /\ One(name) \in Seq(Call) /\ One(name) \in Seq(Quiet(DecoratorStrings))
                      /\ \A glyph : Says(One(name), glyph)
                                     = IF name \in attributes /\ glyph = name THEN 2 ELSE 0
    OBVIOUS
  <2>1. name \in PrefixStrings
    BY DEF PrefixStrings
  <2> QED BY <2>1, SaysPrefix
<1> HIDE DEF One, first, attributes
<1>5. ASSUME NEW glyph \in PrefixStrings
      PROVE  Says(all, glyph) = IF glyph \in attributes THEN 2 ELSE 0
  <2>1. Says(all, glyph)
          = Says(One("XACQUIRE"), glyph) + Says(One("XRELEASE"), glyph) + Says(One("LOCK"), glyph)
              + Says(One("BND"), glyph) + Says(One("NOTRACK"), glyph) + Says(first, glyph)
    BY <1>3, <1>4, SaysSix
  <2>2. /\ Says(One("XACQUIRE"), glyph)
             = IF "XACQUIRE" \in attributes /\ glyph = "XACQUIRE" THEN 2 ELSE 0
        /\ Says(One("XRELEASE"), glyph)
             = IF "XRELEASE" \in attributes /\ glyph = "XRELEASE" THEN 2 ELSE 0
        /\ Says(One("LOCK"), glyph) = IF "LOCK" \in attributes /\ glyph = "LOCK" THEN 2 ELSE 0
        /\ Says(One("BND"), glyph) = IF "BND" \in attributes /\ glyph = "BND" THEN 2 ELSE 0
        /\ Says(One("NOTRACK"), glyph)
             = IF "NOTRACK" \in attributes /\ glyph = "NOTRACK" THEN 2 ELSE 0
    BY <1>4
  <2>3. Says(first, glyph)
          = IF glyph \in {"REP", "REPE", "REPNE"} /\ glyph \in attributes THEN 2 ELSE 0
    BY <1>3
  <2> QED BY <2>1, <2>2, <2>3 DEF PrefixStrings
<1>6. all \in Seq(Call) /\ all \in Seq(Quiet(DecoratorStrings))
  BY <1>3, <1>4, CallsConcat, QuietConcat
<1> QED BY <1>1, <1>5, <1>6 DEF attributes

\* The positions of the bytes of a value, and of those that have an effect.
BytesOf(c, value) == {k \in DOMAIN c.insn.prefixes : c.insn.prefixes[k].value = value}
EffectiveOf(c, value) == {k \in DOMAIN c.insn.prefixes : /\ c.insn.prefixes[k].type = "EFFECTIVE"
                                                         /\ c.insn.prefixes[k].value = value}

LEMMA SaysRawPrefixes ==
  \A c : Describes(c) /\ c.f.detailed_prefixes =>
    /\ PrintPrefixes(c) \in Seq(Call) /\ PrintPrefixes(c) \in Seq(Quiet(DecoratorStrings))
    /\ Says(PrintPrefixes(c), "LOCK") = 2 * Cardinality(BytesOf(c, "LOCK"))
    /\ \A glyph \in {"XACQUIRE", "XRELEASE", "BND"} :
         Says(PrintPrefixes(c), glyph) = IF glyph \in c.insn.attributes THEN 2 ELSE 0
<1> SUFFICES ASSUME NEW c, Describes(c), c.f.detailed_prefixes
             PROVE  /\ PrintPrefixes(c) \in Seq(Call)
                    /\ PrintPrefixes(c) \in Seq(Quiet(DecoratorStrings))
                    /\ Says(PrintPrefixes(c), "LOCK") = 2 * Cardinality(BytesOf(c, "LOCK"))
                    /\ \A glyph \in {"XACQUIRE", "XRELEASE", "BND"} :
                         Says(PrintPrefixes(c), glyph)
                           = IF glyph \in c.insn.attributes THEN 2 ELSE 0
  OBVIOUS
<1> DEFINE raw == c.insn.prefixes
           attributes == c.insn.attributes
           One(p) == IF p.type = "EFFECTIVE" THEN PrintEffective(attributes, p.value)
                                             ELSE PrintIgnored(p.value)
           lists == [n \in DOMAIN raw |-> One(raw[n])]
<1>1. raw \in Seq(ElementsOf(raw))
  BY InstructionAssumption DEF Describes
<1>2. PrintPrefixes(c) = InTurn(lists, Len(raw))
  BY DEF PrintPrefixes
<1>3. \A p : /\ One(p) \in Seq(Call) /\ One(p) \in Seq(Quiet(DecoratorStrings))
             /\ Says(One(p), "LOCK") = IF p.value = "LOCK" THEN 2 ELSE 0
             /\ \A glyph \in {"XACQUIRE", "BND"} :
                  Says(One(p), glyph) = IF /\ p.type = "EFFECTIVE" /\ p.value = "F2"
                                           /\ glyph \in attributes THEN 2 ELSE 0
             /\ Says(One(p), "XRELEASE") = IF /\ p.type = "EFFECTIVE" /\ p.value = "F3"
                                              /\ "XRELEASE" \in attributes THEN 2 ELSE 0
  <2> SUFFICES ASSUME NEW p
               PROVE  /\ One(p) \in Seq(Call) /\ One(p) \in Seq(Quiet(DecoratorStrings))
                      /\ Says(One(p), "LOCK") = IF p.value = "LOCK" THEN 2 ELSE 0
                      /\ \A glyph \in {"XACQUIRE", "BND"} :
                           Says(One(p), glyph) = IF /\ p.type = "EFFECTIVE" /\ p.value = "F2"
                                                    /\ glyph \in attributes THEN 2 ELSE 0
                      /\ Says(One(p), "XRELEASE") = IF /\ p.type = "EFFECTIVE" /\ p.value = "F3"
                                                       /\ "XRELEASE" \in attributes THEN 2 ELSE 0
    OBVIOUS
  <2>1. CASE p.type = "EFFECTIVE"
    <3>1. One(p) = PrintEffective(attributes, p.value)
      BY <2>1
    <3> HIDE DEF One, attributes
    <3> QED BY <2>1, <3>1, SaysEffective
  <2>2. CASE p.type # "EFFECTIVE"
    <3>1. One(p) = PrintIgnored(p.value)
      BY <2>2
    <3>2. {"LOCK", "XACQUIRE", "BND", "XRELEASE"} \subseteq PrefixStrings
      BY DEF PrefixStrings
    <3> HIDE DEF One, attributes
    <3> QED BY <2>2, <3>1, <3>2, SaysIgnored
  <2> QED BY <2>1, <2>2
<1> HIDE DEF One
<1>4. Len(raw) \in Nat /\ DOMAIN raw = 1 .. Len(raw)
  BY <1>1
<1>5. \A k \in 1 .. Len(raw) : lists[k] = One(raw[k])
  BY <1>4
<1>6. /\ BytesOf(c, "LOCK") \subseteq 1 .. Len(raw)
      /\ EffectiveOf(c, "F2") \subseteq 1 .. Len(raw) /\ EffectiveOf(c, "F3") \subseteq 1 .. Len(raw)
      /\ \A k \in 1 .. Len(raw) :
           /\ k \in BytesOf(c, "LOCK") <=> raw[k].value = "LOCK"
           /\ k \in EffectiveOf(c, "F2") <=> raw[k].type = "EFFECTIVE" /\ raw[k].value = "F2"
           /\ k \in EffectiveOf(c, "F3") <=> raw[k].type = "EFFECTIVE" /\ raw[k].value = "F3"
  BY <1>4 DEF BytesOf, EffectiveOf
<1>7. /\ {"XACQUIRE", "BND"} \cap attributes # {} => Cardinality(EffectiveOf(c, "F2")) = 1
      /\ "XRELEASE" \in attributes => Cardinality(EffectiveOf(c, "F3")) = 1
  <2>1. PrefixesFit(c.insn)
    BY ModifierAssumption DEF Describes
  <2>2. /\ {"XACQUIRE", "BND"} \cap attributes # {} => Single(EffectiveOf(c, "F2"))
        /\ "XRELEASE" \in attributes => Single(EffectiveOf(c, "F3"))
    BY <2>1 DEF PrefixesFit, EffectiveOf
  <2> QED BY <2>2, SingleIsOne
<1> HIDE DEF lists, raw, attributes
<1>8. PrintPrefixes(c) \in Seq(Call) /\ PrintPrefixes(c) \in Seq(Quiet(DecoratorStrings))
  <2>1. Len(raw) \in 0 .. Len(raw)
    BY <1>4
  <2>2. \A k \in 1 .. Len(raw) : lists[k] \in Seq(Call) /\ lists[k] \in Seq(Quiet(DecoratorStrings))
    BY <1>3, <1>5
  <2> QED BY <1>2, <1>4, <2>1, <2>2, InTurnIn
<1>9. Says(PrintPrefixes(c), "LOCK") = 2 * Cardinality(BytesOf(c, "LOCK"))
  <2>1. \A k \in 1 .. Len(raw) :
          /\ lists[k] \in Seq(Call)
          /\ Says(lists[k], "LOCK") = IF k \in BytesOf(c, "LOCK") THEN 2 ELSE 0
    <3> SUFFICES ASSUME NEW k \in 1 .. Len(raw)
                 PROVE  /\ lists[k] \in Seq(Call)
                        /\ Says(lists[k], "LOCK") = IF k \in BytesOf(c, "LOCK") THEN 2 ELSE 0
      OBVIOUS
    <3>1. PICK p : p = raw[k]
      OBVIOUS
    <3>2. lists[k] = One(p) /\ (k \in BytesOf(c, "LOCK") <=> p.value = "LOCK")
      BY <1>5, <1>6, <3>1
    <3> QED BY <1>3, <3>2
  <2>2. SaysIn(lists, Len(raw), "LOCK", 2, BytesOf(c, "LOCK"))
    BY <1>4, <1>6, <2>1 DEF SaysIn
  <2> QED BY <1>2, <2>2, SaysInTurn
<1>10. ASSUME NEW glyph \in {"XACQUIRE", "BND"}
       PROVE  Says(PrintPrefixes(c), glyph) = IF glyph \in attributes THEN 2 ELSE 0
  <2> DEFINE S == IF glyph \in attributes THEN EffectiveOf(c, "F2") ELSE {}
  <2>1. \A k \in 1 .. Len(raw) :
          /\ lists[k] \in Seq(Call)
          /\ Says(lists[k], glyph) = IF k \in S THEN 2 ELSE 0
    <3> SUFFICES ASSUME NEW k \in 1 .. Len(raw)
                 PROVE  /\ lists[k] \in Seq(Call)
                        /\ Says(lists[k], glyph) = IF k \in S THEN 2 ELSE 0
      OBVIOUS
    <3>1. PICK p : p = raw[k]
      OBVIOUS
    <3>2. /\ lists[k] = One(p)
          /\ k \in EffectiveOf(c, "F2") <=> p.type = "EFFECTIVE" /\ p.value = "F2"
      BY <1>5, <1>6, <3>1
    <3>3. k \in S <=> p.type = "EFFECTIVE" /\ p.value = "F2" /\ glyph \in attributes
      BY <3>2
    <3> HIDE DEF S
    <3> QED BY <1>3, <3>2, <3>3
  <2>2. SaysIn(lists, Len(raw), glyph, 2, S)
    BY <1>4, <1>6, <2>1 DEF SaysIn
  <2>3. Cardinality(S) = IF glyph \in attributes THEN 1 ELSE 0
    BY <1>7, SingleIsOne
  <2> HIDE DEF S
  <2>4. Says(PrintPrefixes(c), glyph) = 2 * Cardinality(S)
    BY <1>2, <2>2, SaysInTurn
  <2> QED BY <2>3, <2>4
<1>11. Says(PrintPrefixes(c), "XRELEASE") = IF "XRELEASE" \in attributes THEN 2 ELSE 0
  <2> DEFINE S == IF "XRELEASE" \in attributes THEN EffectiveOf(c, "F3") ELSE {}
  <2>1. \A k \in 1 .. Len(raw) :
          /\ lists[k] \in Seq(Call)
          /\ Says(lists[k], "XRELEASE") = IF k \in S THEN 2 ELSE 0
    BY <1>3, <1>5, <1>6
  <2>2. SaysIn(lists, Len(raw), "XRELEASE", 2, S)
    BY <1>4, <1>6, <2>1 DEF SaysIn
  <2>3. Cardinality(S) = IF "XRELEASE" \in attributes THEN 1 ELSE 0
    BY <1>7, SingleIsOne
  <2> HIDE DEF S
  <2>4. Says(PrintPrefixes(c), "XRELEASE") = 2 * Cardinality(S)
    BY <1>2, <2>2, SaysInTurn
  <2> QED BY <2>3, <2>4
<1> QED BY <1>8, <1>9, <1>10, <1>11 DEF attributes

-----------------------------------------------------------------------------
(* The decorators                                                           *)

Width(name) == Len(StaticTypes(name))

\* The conditions of Decorators, in the context of a call.
Shown(c, glyph) ==
  \/ glyph = "DECO_BEGIN" /\ c.insn.mask # "K0"
  \/ glyph = "DECO_ZERO" /\ c.insn.zeroing
  \/ glyph = "DECO_BC" /\ c.insn.broadcast = "DYNAMIC"
       /\ ~(c.f.style = "MASM" /\ c.insn.encoding = "EVEX")
  \/ glyph = "DECO_RC" /\ c.insn.rounding /\ ~c.insn.sae
  \/ glyph = "DECO_RC_SAE" /\ c.insn.rounding /\ c.insn.sae
  \/ glyph = "DECO_SAE" /\ c.insn.sae /\ ~c.insn.rounding
  \/ glyph = "DECO_SWIZZLE" /\ c.insn.swizzle
  \/ glyph = "DECO_CONVERSION" /\ c.insn.conversion
  \/ glyph = "DECO_EH" /\ c.insn.evictionHint
  \/ glyph = "DECO_NF" /\ c.insn.nf /\ ~c.f.deco_apx_nf_use_suffix
  \/ glyph = "DECO_DFV" /\ c.insn.scc /\ ~c.f.deco_apx_dfv_use_immediate

\* Calls that print no prefix, and of the decorators those of S, once.
Decorating(s, S) ==
  /\ s \in Seq(Quiet(PrefixStrings)) /\ s \in Seq(Call)
  /\ \A glyph \in DecoratorStrings : Says(s, glyph) = IF glyph \in S THEN Width(glyph) ELSE 0

LEMMA DecoratingConcat ==
  \A s, t, S, T : Decorating(s, S) /\ Decorating(t, T) /\ S \cap T = {} => Decorating(s \o t, S \cup T)
<1> SUFFICES ASSUME NEW s, NEW t, NEW S, NEW T, Decorating(s, S), Decorating(t, T), S \cap T = {}
             PROVE  Decorating(s \o t, S \cup T)
  OBVIOUS
<1>1. s \o t \in Seq(Quiet(PrefixStrings)) /\ s \o t \in Seq(Call)
  BY QuietConcat, CallsConcat DEF Decorating
<1>2. ASSUME NEW glyph \in DecoratorStrings
      PROVE  Says(s \o t, glyph) = IF glyph \in S \cup T THEN Width(glyph) ELSE 0
  <2>1. Says(s \o t, glyph) = Says(s, glyph) + Says(t, glyph)
    BY SaysConcat DEF Decorating
  <2>2. Width(glyph) \in 1 .. 4
    BY StaticTypesLength DEF Width
  <2> QED BY <2>1, <2>2 DEF Decorating
<1> QED BY <1>1, <1>2 DEF Decorating

LEMMA DecoratingNone == Decorating(<<>>, {})
BY OftenNever, SpellNone DEF Decorating, Says

LEMMA DecoratingMaybe ==
  \A b, s, S : (b => Decorating(s, S)) => Decorating(Maybe(b, s), IF b THEN S ELSE {})
BY DecoratingNone DEF Maybe

LEMMA DecoratingOrdinary == \A s \in Seq(Ordinary) : Decorating(s, {})
BY OrdinaryIsQuiet, ModifierGlyphs DEF Decorating

LEMMA DecoratingOne == \A name \in DecoratorStrings : Decorating(Static(name), {name})
<1> SUFFICES ASSUME NEW name \in DecoratorStrings PROVE Decorating(Static(name), {name})
  OBVIOUS
<1>1. name \in GlyphSet \ PrefixStrings
  BY ModifierGlyphs
<1>2. Static(name) \in Seq(Quiet(PrefixStrings))
  BY <1>1, QuietCalls
<1> QED BY <1>1, <1>2, SaysStatic DEF Decorating, Width

\* The strings of a decorator.
StringsOf(decorator) ==
  CASE decorator = "MASK" -> {"DECO_BEGIN", "DECO_ZERO"}
    [] decorator = "BC" -> {"DECO_BC"}
    [] decorator = "RC" -> {"DECO_RC", "DECO_RC_SAE"}
    [] decorator = "SAE" -> {"DECO_SAE"}
    [] decorator = "SWIZZLE" -> {"DECO_SWIZZLE"}
    [] decorator = "CONVERSION" -> {"DECO_CONVERSION"}
    [] decorator = "EH" -> {"DECO_EH"}
    [] decorator = "APX_DFV" -> {"DECO_DFV"}
    [] decorator = "APX_NF" -> {"DECO_NF"}

ShownOf(c, S) == {glyph \in S : Shown(c, glyph)}

(* A decorator prints each of its strings whose condition holds, once.      *)
LEMMA DecoratorSays ==
  ASSUME NEW c, Describes(c),
         NEW d \in {"MASK", "BC", "RC", "SAE", "SWIZZLE", "CONVERSION", "EH"}
  PROVE  Decorating(PrintDecorator(c, d), ShownOf(c, StringsOf(d)))
<1> DEFINE shown == ShownOf(c, StringsOf(d))
<1>1. \A b : \A name \in DecoratorStrings :
        Decorating(Maybe(b, Static(name)), IF b THEN {name} ELSE {})
  BY DecoratingOne, DecoratingMaybe
<1>2. {"DECO_BEGIN", "DECO_ZERO", "DECO_BC", "DECO_RC", "DECO_RC_SAE", "DECO_SAE", "DECO_SWIZZLE",
       "DECO_CONVERSION", "DECO_EH"} \subseteq DecoratorStrings
  BY DEF DecoratorStrings
<1>3. CASE d = "MASK"
  <2>1. PrintDecorator(c, d)
          = Maybe(c.insn.mask # "K0",
                  Static("DECO_BEGIN") \o PrintRegister(c, c.insn.mask) \o Static("DECO_END")
                    \o Maybe(c.insn.zeroing, Static("DECO_ZERO")))
    BY <1>3 DEF PrintDecorator
  <2>2. NamesFit(c.insn) /\ FeaturesFit(c.insn) /\ c.insn.mask \in GlyphSet \cup {"K0"}
    BY ModifierAssumption, InstructionAssumption DEF Describes
  <2>3. ASSUME c.insn.mask # "K0" PROVE PrintRegister(c, c.insn.mask) \in Seq(Ordinary)
    BY <2>2, <2>3, OrdinaryRegister DEF NamesFit
  <2>4. CASE c.insn.mask # "K0"
    <3>1. PICK begin : begin = Static("DECO_BEGIN")
      OBVIOUS
    <3>2. PICK between : between = PrintRegister(c, c.insn.mask) \o Static("DECO_END")
      OBVIOUS
    <3>3. PICK zero : zero = Maybe(c.insn.zeroing, Static("DECO_ZERO"))
      OBVIOUS
    <3>4. Decorating(begin, {"DECO_BEGIN"})
      BY <1>2, <3>1, DecoratingOne
    <3>5. between \in Seq(Ordinary)
      BY <2>3, <2>4, <3>2, OrdinaryStrings, OrdinaryConcat
    <3>6. Decorating(between, {})
      BY <3>5, DecoratingOrdinary
    <3>7. Decorating(zero, IF c.insn.zeroing THEN {"DECO_ZERO"} ELSE {})
      BY <1>1, <1>2, <3>3
    <3>8. Decorating(begin \o between, {"DECO_BEGIN"})
      <4>1. Decorating(begin \o between, {"DECO_BEGIN"} \cup {})
        BY <3>4, <3>6, DecoratingConcat
      <4> QED BY <4>1
    <3>9. Decorating((begin \o between) \o zero,
                     {"DECO_BEGIN"} \cup IF c.insn.zeroing THEN {"DECO_ZERO"} ELSE {})
      <4>1. {"DECO_BEGIN"} \cap (IF c.insn.zeroing THEN {"DECO_ZERO"} ELSE {}) = {}
        OBVIOUS
      <4> QED BY <3>7, <3>8, <4>1, DecoratingConcat
    <3>10. shown = {"DECO_BEGIN"} \cup IF c.insn.zeroing THEN {"DECO_ZERO"} ELSE {}
      BY <1>3, <2>4 DEF ShownOf, StringsOf, Shown
    <3>11. PrintDecorator(c, d) = (begin \o between) \o zero
      <4>1. PrintDecorator(c, d)
              = Static("DECO_BEGIN") \o PrintRegister(c, c.insn.mask) \o Static("DECO_END")
                    \o Maybe(c.insn.zeroing, Static("DECO_ZERO"))
        BY <2>1, <2>4 DEF Maybe
      <4>2. begin \in Seq(Call) /\ zero \in Seq(Call)
        BY <3>4, <3>7 DEF Decorating
      <4>3. PrintRegister(c, c.insn.mask) \in Seq(Call) /\ Static("DECO_END") \in Seq(Call)
        BY <2>3, <2>4, OrdinaryIsQuiet, OrdinaryStrings
      <4> QED BY <3>1, <3>2, <3>3, <4>1, <4>2, <4>3
    <3> QED BY <3>9, <3>10, <3>11
  <2>5. CASE c.insn.mask = "K0"
    <3>1. ~c.insn.zeroing
      BY <2>2, <2>5 DEF FeaturesFit
    <3>2. shown = {}
      BY <1>3, <2>5, <3>1 DEF ShownOf, StringsOf, Shown
    <3> QED BY <2>1, <2>5, <3>2, DecoratingNone DEF Maybe
  <2> QED BY <2>4, <2>5
<1>4. CASE d = "RC"
  <2>1. PrintDecorator(c, d)
          = Maybe(c.insn.rounding, Static(IF c.insn.sae THEN "DECO_RC_SAE" ELSE "DECO_RC"))
    BY <1>4 DEF PrintDecorator
  <2>2. shown = IF c.insn.rounding THEN {IF c.insn.sae THEN "DECO_RC_SAE" ELSE "DECO_RC"} ELSE {}
    BY <1>4 DEF ShownOf, StringsOf, Shown
  <2> QED BY <1>1, <1>2, <2>1, <2>2
<1>5. CASE d = "BC"
  <2> DEFINE b == /\ c.insn.broadcast = "DYNAMIC"
                  /\ ~(c.f.style = "MASM" /\ DynamicBroadcast(c.insn))
  <2>1. PrintDecorator(c, d) = Maybe(b, Static("DECO_BC"))
    BY <1>5 DEF PrintDecorator
  <2>2. shown = IF b THEN {"DECO_BC"} ELSE {}
    BY <1>5 DEF ShownOf, StringsOf, Shown, DynamicBroadcast
  <2> QED BY <1>1, <1>2, <2>1, <2>2
<1>6. CASE d = "SAE"
  <2>1. PrintDecorator(c, d) = Maybe(c.insn.sae /\ ~c.insn.rounding, Static("DECO_SAE"))
    BY <1>6 DEF PrintDecorator
  <2>2. shown = IF c.insn.sae /\ ~c.insn.rounding THEN {"DECO_SAE"} ELSE {}
    BY <1>6 DEF ShownOf, StringsOf, Shown
  <2> QED BY <1>1, <1>2, <2>1, <2>2
<1>7. CASE d = "SWIZZLE"
  <2>1. PrintDecorator(c, d) = Maybe(c.insn.swizzle, Static("DECO_SWIZZLE"))
    BY <1>7 DEF PrintDecorator
  <2>2. shown = IF c.insn.swizzle THEN {"DECO_SWIZZLE"} ELSE {}
    BY <1>7 DEF ShownOf, StringsOf, Shown
  <2> QED BY <1>1, <1>2, <2>1, <2>2
<1>8. CASE d = "CONVERSION"
  <2>1. PrintDecorator(c, d) = Maybe(c.insn.conversion, Static("DECO_CONVERSION"))
    BY <1>8 DEF PrintDecorator
  <2>2. shown = IF c.insn.conversion THEN {"DECO_CONVERSION"} ELSE {}
    BY <1>8 DEF ShownOf, StringsOf, Shown
  <2> QED BY <1>1, <1>2, <2>1, <2>2
<1>9. CASE d = "EH"
  <2>1. PrintDecorator(c, d) = Maybe(c.insn.evictionHint, Static("DECO_EH"))
    BY <1>9 DEF PrintDecorator
  <2>2. shown = IF c.insn.evictionHint THEN {"DECO_EH"} ELSE {}
    BY <1>9 DEF ShownOf, StringsOf, Shown
  <2> QED BY <1>1, <1>2, <2>1, <2>2
<1> QED BY <1>3, <1>4, <1>5, <1>6, <1>7, <1>8, <1>9

\* The strings that the n-th operand may bear.
Borne(c, n) ==
  LET vector == c.insn.encoding \in {"EVEX", "MVEX"}
      knc == c.insn.encoding = "MVEX"
      memory == c.op.type = "MEMORY"
      last == ~memory /\ Decorated(c.insn, n)
  IN
  {glyph \in DecoratorStrings :
     /\ vector
     /\ \/ glyph \in {"DECO_BEGIN", "DECO_ZERO"} /\ n = 1
             /\ Len(c.insn.operands) > 1 /\ IsMask(c.insn.operands[2])
        \/ glyph = "DECO_BC" /\ memory
        \/ glyph \in {"DECO_CONVERSION", "DECO_EH"} /\ memory /\ knc
        \/ glyph \in {"DECO_RC", "DECO_RC_SAE", "DECO_SAE"} /\ last
        \/ glyph = "DECO_SWIZZLE" /\ last /\ knc}

LEMMA DecoratorsSay ==
  \A c, n : Describes(c) => Decorating(FormatDecorators(c, n), ShownOf(c, Borne(c, n)))
<1> SUFFICES ASSUME NEW c, NEW n, Describes(c)
             PROVE  Decorating(FormatDecorators(c, n), ShownOf(c, Borne(c, n)))
  OBVIOUS
<1> DEFINE insn0 == c.insn
           vector == insn0.encoding \in {"EVEX", "MVEX"}
           knc == insn0.encoding = "MVEX"
           memory == c.op.type = "MEMORY"
           P(d) == PrintDecorator(c, d)
           S(d) == ShownOf(c, StringsOf(d))
           masked == n = 1 /\ Len(insn0.operands) > 1 /\ IsMask(insn0.operands[2])
           last == Decorated(insn0, n)
           mask == Maybe(masked, P("MASK"))
           behindMemory == P("BC") \o Maybe(knc, P("CONVERSION") \o P("EH"))
           behindLast == Maybe(knc, P("SWIZZLE")) \o P("RC") \o P("SAE")
           rest == IF memory THEN behindMemory ELSE Maybe(last, behindLast)
<1>1. \A d \in {"MASK", "BC", "RC", "SAE", "SWIZZLE", "CONVERSION", "EH"} : Decorating(P(d), S(d))
  BY DecoratorSays
<1>2. FormatDecorators(c, n) = Maybe(vector, mask \o rest)
  BY DEF FormatDecorators
<1>3. /\ S("MASK") = ShownOf(c, {"DECO_BEGIN", "DECO_ZERO"})
      /\ S("BC") = ShownOf(c, {"DECO_BC"})
      /\ S("RC") = ShownOf(c, {"DECO_RC", "DECO_RC_SAE"})
      /\ S("SAE") = ShownOf(c, {"DECO_SAE"})
      /\ S("SWIZZLE") = ShownOf(c, {"DECO_SWIZZLE"})
      /\ S("CONVERSION") = ShownOf(c, {"DECO_CONVERSION"})
      /\ S("EH") = ShownOf(c, {"DECO_EH"})
  BY DEF StringsOf
<1> HIDE DEF P, S
<1>4. /\ \A A, B : A \cap B = {} => ShownOf(c, A) \cap ShownOf(c, B) = {}
      /\ \A A, B : ShownOf(c, A) \cup ShownOf(c, B) = ShownOf(c, A \cup B)
      /\ ShownOf(c, {}) = {}
  BY DEF ShownOf
<1> DEFINE D(s, A) == Decorating(s, ShownOf(c, A))
<1>5. \A s, t, A, B : D(s, A) /\ D(t, B) /\ A \cap B = {} => D(s \o t, A \cup B)
  <2> SUFFICES ASSUME NEW s, NEW t, NEW A, NEW B, D(s, A), D(t, B), A \cap B = {}
               PROVE  D(s \o t, A \cup B)
    OBVIOUS
  <2>1. ShownOf(c, A) \cap ShownOf(c, B) = {} /\ ShownOf(c, A) \cup ShownOf(c, B) = ShownOf(c, A \cup B)
    BY <1>4
  <2>2. Decorating(s \o t, ShownOf(c, A) \cup ShownOf(c, B))
    BY <2>1, DecoratingConcat
  <2> QED BY <2>1, <2>2
<1>6. \A b, s, A : (b => D(s, A)) => D(Maybe(b, s), IF b THEN A ELSE {})
  <2> SUFFICES ASSUME NEW b, NEW s, NEW A, b => D(s, A)
               PROVE  D(Maybe(b, s), IF b THEN A ELSE {})
    OBVIOUS
  <2>1. CASE b
    BY <2>1 DEF Maybe
  <2>2. CASE ~b
    BY <1>4, <2>2, DecoratingNone DEF Maybe
  <2> QED BY <2>1, <2>2
<1>7. /\ D(P("MASK"), {"DECO_BEGIN", "DECO_ZERO"}) /\ D(P("BC"), {"DECO_BC"})
      /\ D(P("RC"), {"DECO_RC", "DECO_RC_SAE"}) /\ D(P("SAE"), {"DECO_SAE"})
      /\ D(P("SWIZZLE"), {"DECO_SWIZZLE"}) /\ D(P("CONVERSION"), {"DECO_CONVERSION"})
      /\ D(P("EH"), {"DECO_EH"})
  BY <1>1, <1>3
<1> HIDE DEF D
<1>8. D(mask, IF masked THEN {"DECO_BEGIN", "DECO_ZERO"} ELSE {})
  BY <1>6, <1>7
<1>9. D(behindMemory, {"DECO_BC"} \cup IF knc THEN {"DECO_CONVERSION", "DECO_EH"} ELSE {})
  <2>1. D(P("CONVERSION") \o P("EH"), {"DECO_CONVERSION"} \cup {"DECO_EH"})
    BY <1>5, <1>7
  <2>2. {"DECO_CONVERSION"} \cup {"DECO_EH"} = {"DECO_CONVERSION", "DECO_EH"}
    OBVIOUS
  <2>3. D(Maybe(knc, P("CONVERSION") \o P("EH")),
          IF knc THEN {"DECO_CONVERSION", "DECO_EH"} ELSE {})
    BY <1>6, <2>1, <2>2
  <2>4. {"DECO_BC"} \cap (IF knc THEN {"DECO_CONVERSION", "DECO_EH"} ELSE {}) = {}
    OBVIOUS
  <2> QED BY <1>5, <1>7, <2>3, <2>4
<1>10. D(behindLast, ((IF knc THEN {"DECO_SWIZZLE"} ELSE {}) \cup {"DECO_RC", "DECO_RC_SAE"})
                       \cup {"DECO_SAE"})
  <2>1. D(Maybe(knc, P("SWIZZLE")), IF knc THEN {"DECO_SWIZZLE"} ELSE {})
    BY <1>6, <1>7
  <2>2. (IF knc THEN {"DECO_SWIZZLE"} ELSE {}) \cap {"DECO_RC", "DECO_RC_SAE"} = {}
    OBVIOUS
  <2>3. D(Maybe(knc, P("SWIZZLE")) \o P("RC"),
          (IF knc THEN {"DECO_SWIZZLE"} ELSE {}) \cup {"DECO_RC", "DECO_RC_SAE"})
    BY <1>5, <1>7, <2>1, <2>2
  <2>4. ((IF knc THEN {"DECO_SWIZZLE"} ELSE {}) \cup {"DECO_RC", "DECO_RC_SAE"}) \cap {"DECO_SAE"} = {}
    OBVIOUS
  <2> QED BY <1>5, <1>7, <2>3, <2>4
<1> DEFINE G == IF memory THEN {"DECO_BC"} \cup IF knc THEN {"DECO_CONVERSION", "DECO_EH"} ELSE {}
                ELSE IF last THEN ((IF knc THEN {"DECO_SWIZZLE"} ELSE {})
                                     \cup {"DECO_RC", "DECO_RC_SAE"}) \cup {"DECO_SAE"}
                ELSE {}
           M == IF masked THEN {"DECO_BEGIN", "DECO_ZERO"} ELSE {}
<1>11. D(rest, G)
  <2>1. CASE memory
    BY <1>9, <2>1
  <2>2. CASE ~memory
    <3>1. D(Maybe(last, behindLast),
            IF last THEN ((IF knc THEN {"DECO_SWIZZLE"} ELSE {})
                            \cup {"DECO_RC", "DECO_RC_SAE"}) \cup {"DECO_SAE"}
            ELSE {})
      BY <1>6, <1>10
    <3> QED BY <2>2, <3>1
  <2> QED BY <2>1, <2>2
<1>12. M \cap G = {}
  OBVIOUS
<1>13. Borne(c, n) = IF vector THEN M \cup G ELSE {}
  BY DEF Borne, DecoratorStrings
<1> HIDE DEF M, G, mask, rest
<1>14. D(mask, M)
  BY <1>8 DEF mask, M
<1>15. D(mask \o rest, M \cup G)
  BY <1>5, <1>11, <1>12, <1>14
<1>16. D(Maybe(vector, mask \o rest), IF vector THEN M \cup G ELSE {})
  BY <1>6, <1>15
<1> QED BY <1>2, <1>13, <1>16 DEF D

(* The head of an instruction: the two decorators that stand there.         *)
LEMMA HeadSays ==
  \A c : Describes(c) =>
    /\ FormatHead(c) \in Seq(Call)
    /\ \A glyph \in DecoratorStrings :
         Says(FormatHead(c), glyph)
           = IF glyph \in {"DECO_NF", "DECO_DFV"} /\ Shown(c, glyph) THEN Width(glyph) ELSE 0
    /\ \A glyph \in PrefixStrings : Says(FormatHead(c), glyph) = Says(PrintPrefixes(c), glyph)
<1> SUFFICES ASSUME NEW c, Describes(c)
             PROVE  /\ FormatHead(c) \in Seq(Call)
                    /\ \A glyph \in DecoratorStrings :
                         Says(FormatHead(c), glyph)
                           = IF glyph \in {"DECO_NF", "DECO_DFV"} /\ Shown(c, glyph)
                             THEN Width(glyph) ELSE 0
                    /\ \A glyph \in PrefixStrings :
                         Says(FormatHead(c), glyph) = Says(PrintPrefixes(c), glyph)
  OBVIOUS
<1> DEFINE nf == Maybe(~c.f.deco_apx_nf_use_suffix, PrintDecorator(c, "APX_NF"))
           prefixes == PrintPrefixes(c)
           mnemonic == PrintMnemonic(c)
           dfv == Maybe(~c.f.deco_apx_dfv_use_immediate, PrintDecorator(c, "APX_DFV"))
           NF == IF c.insn.nf /\ ~c.f.deco_apx_nf_use_suffix THEN {"DECO_NF"} ELSE {}
           DFV == IF c.insn.scc /\ ~c.f.deco_apx_dfv_use_immediate THEN {"DECO_DFV"} ELSE {}
<1>1. FormatHead(c) = ((nf \o prefixes) \o mnemonic) \o dfv
  BY DEF FormatHead
<1>2. \A b : \A name \in DecoratorStrings :
        Decorating(Maybe(b, Static(name)), IF b THEN {name} ELSE {})
  BY DecoratingOne, DecoratingMaybe
<1>3. "DECO_NF" \in DecoratorStrings /\ "DECO_DFV" \in DecoratorStrings
  BY DEF DecoratorStrings
<1>4. Decorating(nf, NF)
  <2>1. PrintDecorator(c, "APX_NF") = Maybe(c.insn.nf, Static("DECO_NF"))
    BY DEF PrintDecorator
  <2>2. nf = Maybe(~c.f.deco_apx_nf_use_suffix /\ c.insn.nf, Static("DECO_NF"))
    BY <2>1 DEF Maybe
  <2> QED BY <1>2, <1>3, <2>2
<1>5. Decorating(dfv, DFV)
  <2>1. PrintDecorator(c, "APX_DFV") = Maybe(c.insn.scc, Static("DECO_DFV"))
    BY DEF PrintDecorator
  <2>2. dfv = Maybe(~c.f.deco_apx_dfv_use_immediate /\ c.insn.scc, Static("DECO_DFV"))
    BY <2>1 DEF Maybe
  <2> QED BY <1>2, <1>3, <2>2
<1>6. Decorating(mnemonic, {})
  BY OrdinaryHead, DecoratingOrdinary
<1>7. prefixes \in Seq(Call) /\ prefixes \in Seq(Quiet(DecoratorStrings))
  BY SaysNamedPrefixes, SaysRawPrefixes
<1>8. \A glyph \in DecoratorStrings : Says(prefixes, glyph) = 0
  BY <1>7, SaysQuiet
<1> HIDE DEF nf, prefixes, mnemonic, dfv
<1>9. nf \in Seq(Call) /\ mnemonic \in Seq(Call) /\ dfv \in Seq(Call)
  BY <1>4, <1>5, <1>6 DEF Decorating
<1>10. /\ FormatHead(c) \in Seq(Call)
       /\ \A glyph : Says(FormatHead(c), glyph)
            = Says(nf, glyph) + Says(prefixes, glyph) + Says(mnemonic, glyph) + Says(dfv, glyph)
  <2>1. PICK one : one = nf \o prefixes
    OBVIOUS
  <2>2. one \in Seq(Call) /\ \A glyph : Says(one, glyph) = Says(nf, glyph) + Says(prefixes, glyph)
    BY <1>7, <1>9, <2>1, SaysConcat
  <2>3. PICK two : two = one \o mnemonic
    OBVIOUS
  <2>4. two \in Seq(Call) /\ \A glyph : Says(two, glyph) = Says(one, glyph) + Says(mnemonic, glyph)
    BY <1>9, <2>2, <2>3, SaysConcat
  <2>5. /\ two \o dfv \in Seq(Call)
        /\ \A glyph : Says(two \o dfv, glyph) = Says(two, glyph) + Says(dfv, glyph)
    BY <1>9, <2>4, SaysConcat
  <2>6. FormatHead(c) = two \o dfv
    BY <1>1, <2>1, <2>3
  <2> QED BY <2>2, <2>4, <2>5, <2>6
<1>11. ASSUME NEW glyph \in DecoratorStrings
       PROVE  Says(FormatHead(c), glyph)
                = IF glyph \in {"DECO_NF", "DECO_DFV"} /\ Shown(c, glyph) THEN Width(glyph) ELSE 0
  <2>1. /\ Says(nf, glyph) = IF glyph \in NF THEN Width(glyph) ELSE 0
        /\ Says(dfv, glyph) = IF glyph \in DFV THEN Width(glyph) ELSE 0
        /\ Says(mnemonic, glyph) = 0 /\ Says(prefixes, glyph) = 0
    BY <1>4, <1>5, <1>6, <1>8 DEF Decorating
  <2>2. Width(glyph) \in 1 .. 4
    BY StaticTypesLength DEF Width
  <2>3. /\ glyph \in NF <=> glyph = "DECO_NF" /\ Shown(c, glyph)
        /\ glyph \in DFV <=> glyph = "DECO_DFV" /\ Shown(c, glyph)
    BY DEF Shown
  <2> HIDE DEF NF, DFV
  <2>4. Says(FormatHead(c), glyph)
          = (IF glyph \in NF THEN Width(glyph) ELSE 0) + 0 + 0
              + (IF glyph \in DFV THEN Width(glyph) ELSE 0)
    BY <1>10, <2>1
  <2> QED BY <2>2, <2>3, <2>4
<1>12. ASSUME NEW glyph \in PrefixStrings
       PROVE  Says(FormatHead(c), glyph) = Says(prefixes, glyph)
  <2>1. Says(nf, glyph) = 0 /\ Says(dfv, glyph) = 0 /\ Says(mnemonic, glyph) = 0
    BY <1>4, <1>5, <1>6, SaysQuiet DEF Decorating
  <2>2. Says(prefixes, glyph) \in Nat
    BY <1>7, SaysConcat
  <2> QED BY <1>10, <2>1, <2>2
<1> QED BY <1>10, <1>11, <1>12 DEF prefixes

-----------------------------------------------------------------------------
(* How often the sentence has a modifier                                    *)

OperandContextOf(k) == ContextOf(insn.operands[k])

\* The strings that the k-th operand prints.
Printing(k) == ShownOf(OperandContextOf(k), Borne(OperandContextOf(k), k))

LEMMA PhraseSays ==
  ASSUME insn \in Instructions, whole, NEW k \in 1 .. Count
  PROVE  /\ \A glyph \in DecoratorStrings :
              Often(Phrase(k), glyph) = IF glyph \in Printing(k) THEN Width(glyph) ELSE 0
         /\ \A glyph \in PrefixStrings : Often(Phrase(k), glyph) = 0
<1>1. PICK c : c = OperandContextOf(k)
  OBVIOUS
<1>2. Describes(c) /\ OperandFits(c.insn, c.op)
  BY <1>1, ContextDescribes DEF OperandContextOf
<1>3. Named(c)
  <2>1. c.insn = insn /\ c.op = insn.operands[k]
    BY <1>1 DEF OperandContextOf, ContextOf
  <2>2. c.op \in ElementsOf(insn.operands)
    BY <2>1, OperandsOf DEF ElementsOf
  <2> QED BY <1>2, <2>1, <2>2, ModifierAssumption DEF Named, NamesFit
<1>4. PICK s, t : s = FormatOperand(c) /\ t = FormatDecorators(c, k)
  OBVIOUS
<1>5. Decorating(s, {}) /\ Decorating(t, Printing(k))
  BY <1>1, <1>2, <1>3, <1>4, OrdinaryOperand, DecoratingOrdinary, DecoratorsSay DEF Printing
<1>6. s \in Seq(Call) /\ t \in Seq(Call) /\ Spell(s) \in Seq(GlyphSet) /\ Spell(t) \in Seq(GlyphSet)
  BY <1>5, SpellGlyphs DEF Decorating
<1>7. Phrase(k) = Spell(s) \o Spell(t)
  BY <1>1, <1>4 DEF Phrase, OperandContextOf, Maybe
<1>8. \A glyph : Often(Phrase(k), glyph) = Says(s, glyph) + Says(t, glyph)
  BY <1>6, <1>7, OftenConcat DEF Says
<1>9. ASSUME NEW glyph \in DecoratorStrings
      PROVE  Often(Phrase(k), glyph) = IF glyph \in Printing(k) THEN Width(glyph) ELSE 0
  <2>1. Says(s, glyph) = 0 /\ Says(t, glyph) = IF glyph \in Printing(k) THEN Width(glyph) ELSE 0
    BY <1>5 DEF Decorating
  <2>2. Width(glyph) \in 1 .. 4
    BY StaticTypesLength DEF Width
  <2> QED BY <1>8, <2>1, <2>2
<1>10. ASSUME NEW glyph \in PrefixStrings PROVE Often(Phrase(k), glyph) = 0
  <2>1. Says(s, glyph) = 0 /\ Says(t, glyph) = 0
    BY <1>5, SaysQuiet DEF Decorating
  <2> QED BY <1>8, <2>1
<1> QED BY <1>9, <1>10

LEMMA DelimiterSays ==
  \A n : /\ Delimiter(n) \in Seq(GlyphSet)
         /\ \A glyph \in Modifiers : Often(Delimiter(n), glyph) = 0
<1> SUFFICES ASSUME NEW n
             PROVE  /\ Delimiter(n) \in Seq(GlyphSet)
                    /\ \A glyph \in Modifiers : Often(Delimiter(n), glyph) = 0
  OBVIOUS
<1>1. \A name \in {"DELIM_MNEMONIC", "DELIM_OPERAND"} :
        /\ Static(name) \in Seq(Ordinary) /\ Spell(Static(name)) \in Seq(GlyphSet)
        /\ \A glyph \in Modifiers : Says(Static(name), glyph) = 0
  BY OrdinaryStrings, OrdinaryIsQuiet, SpellGlyphs
<1> QED BY <1>1 DEF Delimiter, Says

\* The clauses that have a string.
ClausesWith(glyph) ==
  {n \in 1 .. Count : Wanted(n) /\ glyph \in DecoratorStrings /\ glyph \in Printing(Nth(n))}

LEMMA ClausesSay ==
  ASSUME insn \in Instructions, whole, NEW glyph \in Modifiers
  PROVE  Often(InTurn(Clauses, Count), glyph)
           = (IF glyph \in DecoratorStrings THEN Width(glyph) ELSE 2)
               * Cardinality(ClausesWith(glyph))
<1> DEFINE m == IF glyph \in DecoratorStrings THEN Width(glyph) ELSE 2
           S == ClausesWith(glyph)
<1>1. Count \in Nat /\ m \in 1 .. 4 /\ S \subseteq 1 .. Count
  <2>1. Width(glyph) \in 1 .. 4
    BY StaticTypesLength DEF Width
  <2>2. S \subseteq 1 .. Count
    BY DEF ClausesWith
  <2>3. Count \in Nat
    BY OperandsOf
  <2>4. m \in 1 .. 4
    <3>1. PICK w : w = Width(glyph)
      OBVIOUS
    <3> QED BY <2>1, <3>1
  <2> HIDE DEF S, m
  <2> QED BY <2>2, <2>3, <2>4
<1>2. glyph \in DecoratorStrings \/ (glyph \in PrefixStrings /\ glyph \notin DecoratorStrings)
  BY Zenon DEF Modifiers
<1>3. ASSUME NEW n \in 1 .. Count
      PROVE  /\ Clauses[n] \in Seq(GlyphSet)
             /\ Often(Clauses[n], glyph) = IF n \in S THEN m ELSE 0
  <2>1. /\ Clauses[n] \in Seq(GlyphSet)
        /\ Wanted(n) => Clauses[n] = Delimiter(n) \o Phrase(Nth(n))
        /\ ~Wanted(n) => Clauses[n] = <<>>
    BY ClauseGlyphs
  <2>2. CASE ~Wanted(n)
    <3>1. Clauses[n] = <<>> /\ n \notin S
      BY <2>1, <2>2 DEF ClausesWith
    <3>2. Often(Clauses[n], glyph) = 0
      BY <3>1, OftenNever
    <3> QED BY <2>1, <3>1, <3>2
  <2>3. CASE Wanted(n)
    <3>1. PICK d, p : d = Delimiter(n) /\ p = Phrase(Nth(n))
      OBVIOUS
    <3>2. n \in Int /\ Nth(n) \in 1 .. Count
      BY OperandsOf, NthTwice
    <3>3. d \in Seq(GlyphSet) /\ p \in Seq(GlyphSet) /\ Often(d, glyph) = 0
      <4>1. \A k \in 1 .. Count : Phrase(k) \in Seq(GlyphSet)
        BY PartsAreGlyphs
      <4>2. p \in Seq(GlyphSet)
        BY <3>1, <3>2, <4>1
      <4>3. Delimiter(n) \in Seq(GlyphSet) /\ Often(Delimiter(n), glyph) = 0
        BY DelimiterSays
      <4> QED BY <3>1, <4>2, <4>3
    <3>4. Often(Clauses[n], glyph) = 0 + Often(p, glyph)
      <4>1. Clauses[n] = d \o p
        BY <2>1, <2>3, <3>1, Zenon
      <4>2. Often(d \o p, glyph) = Often(d, glyph) + Often(p, glyph)
        BY <3>3, OftenConcat
      <4> QED BY <3>3, <4>1, <4>2, Zenon
    <3>5. Often(p, glyph) = IF glyph \in DecoratorStrings /\ glyph \in Printing(Nth(n)) THEN m ELSE 0
      <4>1. CASE glyph \in DecoratorStrings
        BY <3>1, <3>2, <4>1, PhraseSays
      <4>2. CASE glyph \in PrefixStrings /\ glyph \notin DecoratorStrings
        BY <3>1, <3>2, <4>2, PhraseSays
      <4> QED BY <1>2, <4>1, <4>2
    <3>6. n \in S <=> glyph \in DecoratorStrings /\ glyph \in Printing(Nth(n))
      BY <2>3 DEF ClausesWith
    <3> HIDE DEF S, m
    <3>7. Often(p, glyph) = IF n \in S THEN m ELSE 0
      BY <3>5, <3>6
    <3> QED BY <1>1, <2>1, <3>4, <3>7
  <2> QED BY <2>2, <2>3
<1> HIDE DEF S, m
<1>4. OftenIn(Clauses, Count, glyph, m, S)
  BY <1>1, <1>3 DEF OftenIn
<1>5. Often(InTurn(Clauses, Count), glyph) = m * Cardinality(S)
  BY <1>4, OftenInTurn
<1> QED BY <1>5 DEF S, m

LEMMA NoClauseWith ==
  \A glyph : glyph \notin DecoratorStrings => ClausesWith(glyph) = {}
BY DEF ClausesWith

(* The whole sentence.                                                      *)
LEMMA SentenceSays ==
  ASSUME insn \in Instructions, whole, NEW glyph \in Modifiers
  PROVE  Often(Sentence, glyph)
           = Says(FormatHead(ContextOf(<<>>)), glyph)
               + (IF glyph \in DecoratorStrings THEN Width(glyph) ELSE 2)
                   * Cardinality(ClausesWith(glyph))
<1> DEFINE c == ContextOf(<<>>)
<1>1. FormatHead(c) \in Seq(Call) /\ FormatDfv(c) \in Seq(Ordinary)
  BY ContextDescribes, HeadSays, OrdinaryHead
<1>2. Says(FormatDfv(c), glyph) = 0
  BY <1>1, OrdinaryIsQuiet
<1>3. Mnemonic \in Seq(GlyphSet) /\ Flags \in Seq(GlyphSet)
  BY PartsAreGlyphs
<1>4. /\ Often(Mnemonic, glyph) = Says(FormatHead(c), glyph)
      /\ Often(Flags, glyph) = 0
  BY <1>2 DEF Mnemonic, Flags, Says
<1>5. PICK front, clauses : front = Mnemonic \o Flags /\ clauses = InTurn(Clauses, Count)
  OBVIOUS
<1>6. clauses \in Seq(GlyphSet)
  <2>1. Count \in 0 .. Count
    BY OperandsOf
  <2> QED BY <1>5, <2>1, FrontGlyphs
<1>7. front \in Seq(GlyphSet) /\ Often(front, glyph) = Often(Mnemonic, glyph) + Often(Flags, glyph)
  BY <1>3, <1>5, OftenConcat
<1>8. Sentence = front \o clauses
  BY <1>5 DEF Sentence, Count
<1>9. Often(Sentence, glyph) = Often(front, glyph) + Often(clauses, glyph)
  BY <1>6, <1>7, <1>8, OftenConcat
<1>10. Says(FormatHead(c), glyph) \in Nat
  BY <1>1, SaysConcat
<1>11. Often(Sentence, glyph) = Says(FormatHead(c), glyph) + Often(clauses, glyph)
  BY <1>4, <1>7, <1>9, <1>10
<1> QED BY <1>5, <1>11, ClausesSay

\* With no operand skipped, the clauses are those of all operands but the mask.
LEMMA WantedClauses ==
  ASSUME insn \in Instructions, skipped = {}, NEW glyph \in DecoratorStrings, NEW k \in 1 .. Count,
         ~(k = 2 /\ IsMask(insn.operands[2])), glyph \in Printing(k),
         \A j \in 1 .. Count :
           glyph \in Printing(j) /\ ~(j = 2 /\ IsMask(insn.operands[2])) => j = k
  PROVE  Cardinality(ClausesWith(glyph)) = 1
<1>1. k \in Int /\ Nth(k) \in 1 .. Count /\ Nth(Nth(k)) = k
  BY OperandsOf, NthTwice
<1>2. Nth(k) \in ClausesWith(glyph)
  BY <1>1 DEF ClausesWith, Wanted
<1>3. ASSUME NEW n \in ClausesWith(glyph) PROVE n = Nth(k)
  <2>1. n \in 1 .. Count /\ Wanted(n) /\ glyph \in Printing(Nth(n))
    BY <1>3 DEF ClausesWith
  <2>2. n \in Int /\ Nth(n) \in 1 .. Count /\ Nth(Nth(n)) = n
    BY <2>1, OperandsOf, NthTwice
  <2>3. Nth(n) = k
    BY <2>1, <2>2 DEF Wanted
  <2> QED BY <2>2, <2>3
<1>4. ClausesWith(glyph) = {Nth(k)}
  BY <1>2, <1>3
<1> QED BY <1>4, SingleIsOne DEF Single

\* The operand is not the mask.
Spoken(k) == ~(k = 2 /\ IsMask(insn.operands[2]))

LEMMA PrintingOf ==
  \A k : \A glyph \in DecoratorStrings :
    LET op == insn.operands[k]
        memory == op.type = "MEMORY"
        last == ~memory /\ Decorated(insn, k)
        knc == insn.encoding = "MVEX"
    IN
    glyph \in Printing(k) <=>
      /\ Shown(ContextOf(<<>>), glyph) /\ insn.encoding \in {"EVEX", "MVEX"}
      /\ \/ glyph \in {"DECO_BEGIN", "DECO_ZERO"} /\ k = 1
              /\ Len(insn.operands) > 1 /\ IsMask(insn.operands[2])
         \/ glyph = "DECO_BC" /\ memory
         \/ glyph \in {"DECO_CONVERSION", "DECO_EH"} /\ memory /\ knc
         \/ glyph \in {"DECO_RC", "DECO_RC_SAE", "DECO_SAE"} /\ last
         \/ glyph = "DECO_SWIZZLE" /\ last /\ knc
<1> SUFFICES ASSUME NEW k, NEW glyph \in DecoratorStrings
    PROVE  LET op == insn.operands[k]
               memory == op.type = "MEMORY"
               last == ~memory /\ Decorated(insn, k)
               knc == insn.encoding = "MVEX"
           IN
           glyph \in Printing(k) <=>
             /\ Shown(ContextOf(<<>>), glyph) /\ insn.encoding \in {"EVEX", "MVEX"}
             /\ \/ glyph \in {"DECO_BEGIN", "DECO_ZERO"} /\ k = 1
                     /\ Len(insn.operands) > 1 /\ IsMask(insn.operands[2])
                \/ glyph = "DECO_BC" /\ memory
                \/ glyph \in {"DECO_CONVERSION", "DECO_EH"} /\ memory /\ knc
                \/ glyph \in {"DECO_RC", "DECO_RC_SAE", "DECO_SAE"} /\ last
                \/ glyph = "DECO_SWIZZLE" /\ last /\ knc
  OBVIOUS
<1>1. PICK c : c = OperandContextOf(k)
  OBVIOUS
<1>2. c.insn = insn /\ c.op = insn.operands[k] /\ c.f = f
  BY <1>1 DEF OperandContextOf, ContextOf
<1>3. Shown(c, glyph) <=> Shown(ContextOf(<<>>), glyph)
  BY <1>2 DEF Shown, ContextOf
<1>4. glyph \in Printing(k) <=> Shown(c, glyph) /\ glyph \in Borne(c, k)
  BY <1>1 DEF Printing, ShownOf
<1> QED BY <1>2, <1>3, <1>4 DEF Borne

(* Of the operands one bears what is shown, and it is printed.              *)
LEMMA OneBears ==
  ASSUME insn \in Instructions, NEW glyph \in DecoratorStrings \ {"DECO_NF", "DECO_DFV"},
         Shown(ContextOf(<<>>), glyph)
  PROVE  \E k \in 1 .. Count :
           /\ Spoken(k) /\ glyph \in Printing(k)
           /\ \A j \in 1 .. Count : glyph \in Printing(j) /\ Spoken(j) => j = k
<1> DEFINE c == ContextOf(<<>>)
           memory == {k \in DOMAIN insn.operands : insn.operands[k].type = "MEMORY"}
           decorated == {k \in DOMAIN insn.operands \ memory :
                           Decorated(insn, k) /\ ~(k = 2 /\ IsMask(insn.operands[2]))}
           vector == insn.encoding \in {"EVEX", "MVEX"}
           knc == insn.encoding = "MVEX"
<1>1. c.insn = insn /\ c.f = f
  BY DEF ContextOf
<1>2. Count = Len(insn.operands) /\ Count \in Nat /\ DOMAIN insn.operands = 1 .. Count
  BY OperandsOf DEF Count
<1>3. /\ insn.mask # "K0" => vector /\ Count > 1 /\ IsMask(insn.operands[2])
      /\ insn.zeroing => insn.mask # "K0"
      /\ insn.broadcast = "DYNAMIC" => vector /\ Single(memory)
      /\ insn.conversion \/ insn.evictionHint => knc /\ Single(memory)
      /\ insn.rounding \/ insn.sae => vector /\ Single(decorated)
      /\ insn.swizzle => knc /\ Single(decorated)
  BY <1>2, ModifierAssumption DEF FeaturesFit
<1>4. \A k \in memory : Spoken(k)
  BY DEF Spoken, IsMask
<1>5. CASE glyph \in {"DECO_BEGIN", "DECO_ZERO"}
  <2>1. vector /\ Count > 1 /\ IsMask(insn.operands[2])
    BY <1>1, <1>3, <1>5 DEF Shown
  <2>2. 1 \in 1 .. Count /\ Spoken(1)
    BY <1>2, <2>1 DEF Spoken
  <2>3. \A k : glyph \in Printing(k) <=> k = 1
    BY <1>2, <1>5, <2>1, PrintingOf
  <2> QED BY <2>2, <2>3
<1>6. CASE glyph \in {"DECO_BC", "DECO_CONVERSION", "DECO_EH"}
  <2>1. /\ vector /\ Single(memory)
        /\ glyph \in {"DECO_CONVERSION", "DECO_EH"} => knc
    BY <1>1, <1>3, <1>6 DEF Shown
  <2>2. PICK k \in memory : memory = {k}
    BY <2>1 DEF Single
  <2>3. \A j \in 1 .. Count : glyph \in Printing(j) <=> j \in memory
    BY <1>2, <1>6, <2>1, PrintingOf
  <2>4. k \in 1 .. Count
    BY <1>2
  <2> HIDE DEF memory
  <2> QED BY <1>4, <2>2, <2>3, <2>4
<1>7. CASE glyph \in {"DECO_RC", "DECO_RC_SAE", "DECO_SAE", "DECO_SWIZZLE"}
  <2>1. /\ vector /\ Single(decorated)
        /\ glyph = "DECO_SWIZZLE" => knc
    BY <1>1, <1>3, <1>7 DEF Shown
  <2>2. PICK k \in decorated : decorated = {k}
    BY <2>1 DEF Single
  <2>3. \A j \in 1 .. Count : glyph \in Printing(j) /\ Spoken(j) <=> j \in decorated
    <3> SUFFICES ASSUME NEW j \in 1 .. Count
                 PROVE  glyph \in Printing(j) /\ Spoken(j) <=> j \in decorated
      OBVIOUS
    <3>1. glyph \in Printing(j) <=> insn.operands[j].type # "MEMORY" /\ Decorated(insn, j)
      BY <1>7, <2>1, PrintingOf
    <3>2. j \in memory <=> insn.operands[j].type = "MEMORY"
      BY <1>2
    <3> QED BY <1>2, <3>1, <3>2 DEF Spoken
  <2>4. k \in 1 .. Count
    BY <1>2
  <2> HIDE DEF decorated
  <2> QED BY <2>2, <2>3, <2>4
<1> QED BY <1>5, <1>6, <1>7 DEF DecoratorStrings

LEMMA ClausesShown ==
  ASSUME insn \in Instructions, skipped = {}, NEW glyph \in DecoratorStrings
  PROVE  Cardinality(ClausesWith(glyph))
           = IF /\ glyph \notin {"DECO_NF", "DECO_DFV"}
                /\ Shown(ContextOf(<<>>), glyph) THEN 1 ELSE 0
<1> DEFINE printed == glyph \notin {"DECO_NF", "DECO_DFV"} /\ Shown(ContextOf(<<>>), glyph)
<1>1. printed => Cardinality(ClausesWith(glyph)) = 1
  <2> SUFFICES ASSUME printed PROVE Cardinality(ClausesWith(glyph)) = 1
    OBVIOUS
  <2>1. PICK k \in 1 .. Count :
          /\ Spoken(k) /\ glyph \in Printing(k)
          /\ \A j \in 1 .. Count : glyph \in Printing(j) /\ Spoken(j) => j = k
    BY OneBears
  <2> QED BY <2>1, WantedClauses DEF Spoken
<1>2. ~printed => Cardinality(ClausesWith(glyph)) = 0
  <2> SUFFICES ASSUME ~printed PROVE Cardinality(ClausesWith(glyph)) = 0
    OBVIOUS
  <2>1. \A k : glyph \notin Printing(k)
    BY PrintingOf
  <2>2. ClausesWith(glyph) = {}
    BY <2>1 DEF ClausesWith
  <2> QED BY <2>2, SingleIsOne
<1> QED BY <1>1, <1>2, Zenon

LEMMA DecoratorsShown ==
  \A glyph \in DecoratorStrings : Decorators[glyph] <=> Shown(ContextOf(<<>>), glyph)
<1> SUFFICES ASSUME NEW glyph \in DecoratorStrings
             PROVE  Decorators[glyph] <=> Shown(ContextOf(<<>>), glyph)
  OBVIOUS
<1> DEFINE c == ContextOf(<<>>)
<1>1. c.insn = insn /\ c.f = f
  BY DEF ContextOf
<1> HIDE DEF c
<1>2. Decorators["DECO_BEGIN"] <=> Shown(c, "DECO_BEGIN")
  BY <1>1 DEF Decorators, Shown
<1>3. Decorators["DECO_ZERO"] <=> Shown(c, "DECO_ZERO")
  BY <1>1 DEF Decorators, Shown
<1>4. Decorators["DECO_BC"] <=> Shown(c, "DECO_BC")
  BY <1>1 DEF Decorators, Shown
<1>5. Decorators["DECO_RC"] <=> Shown(c, "DECO_RC")
  BY <1>1 DEF Decorators, Shown
<1>6. Decorators["DECO_RC_SAE"] <=> Shown(c, "DECO_RC_SAE")
  BY <1>1 DEF Decorators, Shown
<1>7. Decorators["DECO_SAE"] <=> Shown(c, "DECO_SAE")
  BY <1>1 DEF Decorators, Shown
<1>8. Decorators["DECO_SWIZZLE"] <=> Shown(c, "DECO_SWIZZLE")
  BY <1>1 DEF Decorators, Shown
<1>9. Decorators["DECO_CONVERSION"] <=> Shown(c, "DECO_CONVERSION")
  BY <1>1 DEF Decorators, Shown
<1>10. Decorators["DECO_EH"] <=> Shown(c, "DECO_EH")
  BY <1>1 DEF Decorators, Shown
<1>11. Decorators["DECO_NF"] <=> Shown(c, "DECO_NF")
  BY <1>1 DEF Decorators, Shown
<1>12. Decorators["DECO_DFV"] <=> Shown(c, "DECO_DFV")
  BY <1>1 DEF Decorators, Shown
<1> QED BY <1>2, <1>3, <1>4, <1>5, <1>6, <1>7, <1>8, <1>9, <1>10, <1>11, <1>12
        DEF DecoratorStrings, c

LEMMA TimesOften == \A name : Times(name) = Often(kept, name) \div Width(name)
BY DEF Times, Often, Occurrences, Width

LEMMA Divided ==
  \A w \in 1 .. 4 : \A n \in Nat : (w * n) \div w = n
<1> SUFFICES ASSUME NEW w \in 1 .. 4, NEW n \in Nat PROVE (w * n) \div w = n
  OBVIOUS
<1> QED OBVIOUS

LEMMA DecoratedOnceTold ==
  ASSUME insn \in Instructions, whole, skipped = {}, kept = Sentence,
         NEW glyph \in DecoratorStrings
  PROVE  Times(glyph) = IF Decorators[glyph] THEN 1 ELSE 0
<1> DEFINE head == glyph \in {"DECO_NF", "DECO_DFV"}
           shown == Shown(ContextOf(<<>>), glyph)
           w == Width(glyph)
<1>1. Says(FormatHead(ContextOf(<<>>)), glyph) = IF head /\ shown THEN w ELSE 0
  BY ContextDescribes, HeadSays
<1>2. Cardinality(ClausesWith(glyph)) = IF ~head /\ shown THEN 1 ELSE 0
  BY ClausesShown
<1>3. glyph \in Modifiers /\ w \in 1 .. 4
  BY ModifierGlyphs, StaticTypesLength DEF Width
<1>4. Often(kept, glyph) = Says(FormatHead(ContextOf(<<>>)), glyph)
                              + w * Cardinality(ClausesWith(glyph))
  BY <1>3, SentenceSays
<1> HIDE DEF shown, w
<1>5. Often(kept, glyph) = IF shown THEN w ELSE 0
  BY <1>1, <1>2, <1>3, <1>4
<1>6. Often(kept, glyph) \div w = IF shown THEN 1 ELSE 0
  BY <1>3, <1>5
<1> QED BY <1>6, TimesOften, DecoratorsShown DEF shown, w

LEMMA PrefixesShownTold ==
  ASSUME insn \in Instructions, whole, kept = Sentence, NEW name \in PrefixStrings,
         f.detailed_prefixes => name \in {"LOCK", "XACQUIRE", "XRELEASE", "BND"}
  PROVE  Times(name) = Expected(name)
<1> DEFINE c == ContextOf(<<>>)
<1>1. Describes(c) /\ c.insn = insn /\ c.f = f
  BY ContextDescribes DEF ContextOf
<1>2. name \in Modifiers /\ name \notin DecoratorStrings /\ Width(name) = 2
  BY ModifierGlyphs DEF Width
<1>3. Cardinality(ClausesWith(name)) = 0
  BY <1>2, NoClauseWith, SingleIsOne
<1>4. FormatHead(c) \in Seq(Call) /\ Says(FormatHead(c), name) = Says(PrintPrefixes(c), name)
  BY <1>1, HeadSays
<1>5. Often(kept, name) = Says(PrintPrefixes(c), name) + 2 * 0
  BY <1>2, <1>3, <1>4, SentenceSays
<1>6. Says(PrintPrefixes(c), name) \in Nat
  BY <1>4, SaysConcat
<1>7. Often(kept, name) = Says(PrintPrefixes(c), name)
  BY <1>5, <1>6
<1> HIDE DEF c
<1>8. CASE f.detailed_prefixes /\ name = "LOCK"
  <2>1. Often(kept, name) = 2 * Cardinality(BytesOf(c, "LOCK"))
    BY <1>1, <1>7, <1>8, SaysRawPrefixes
  <2>2. Expected(name) = Cardinality(BytesOf(c, "LOCK"))
    BY <1>1, <1>8 DEF Expected, BytesOf
  <2>3. Cardinality(BytesOf(c, "LOCK")) \in Nat
    <3> DEFINE raw == insn.prefixes
    <3>1. raw \in Seq(ElementsOf(raw))
      BY InstructionAssumption
    <3>2. Len(raw) \in Nat /\ DOMAIN raw = 1 .. Len(raw)
      <4> HIDE DEF raw
      <4> QED BY <3>1
    <3>3. IsFiniteSet(1 .. Len(raw))
      <4>1. 1 \in Int /\ Len(raw) \in Int
        BY <3>2
      <4> QED BY <4>1, FS_Interval
    <3>4. BytesOf(c, "LOCK") \in SUBSET (1 .. Len(raw))
      BY <1>1, <3>2 DEF BytesOf
    <3>5. IsFiniteSet(BytesOf(c, "LOCK"))
      BY <3>3, <3>4, FS_Subset
    <3> QED BY <3>5, FS_CardinalityType
  <2> QED BY <1>2, <2>1, <2>2, <2>3, TimesOften, Divided
<1>9. CASE ~(f.detailed_prefixes /\ name = "LOCK")
  <2>1. Often(kept, name) = IF name \in insn.attributes THEN 2 ELSE 0
    <3>1. CASE f.detailed_prefixes
      BY <1>1, <1>7, <1>9, <3>1, SaysRawPrefixes
    <3>2. CASE ~f.detailed_prefixes
      BY <1>1, <1>7, <3>2, SaysNamedPrefixes
    <3> QED BY <3>1, <3>2
  <2>2. Expected(name) = IF name \in insn.attributes THEN 1 ELSE 0
    BY <1>9 DEF Expected
  <2>3. Often(kept, name) \div 2 = IF name \in insn.attributes THEN 1 ELSE 0
    BY <2>1
  <2> QED BY <1>2, <2>2, <2>3, TimesOften
<1> QED BY <1>8, <1>9

(* Whatever modifies an instruction is shown, and nothing else: of a         *)
(* successful call's output every effective prefix once - with detailed      *)
(* prefixes every LOCK byte - and, if no operand was skipped, every          *)
(* decorator whose condition holds once and no other.                        *)
(* PrintsTheSentence says that the output is the sentence, and the sentence  *)
(* is counted clause by clause.                                              *)
THEOREM ModifiersShownAlways == FormatterSpec => []ModifiersShown
<1>1. Telling => ModifiersShown
  <2> SUFFICES ASSUME Telling, phase = "Done", result = "SUCCESS", whole
               PROVE  /\ \A name \in IF f.detailed_prefixes
                                       THEN {"LOCK", "XACQUIRE", "XRELEASE", "BND"}
                                       ELSE PrefixStrings : Times(name) = Expected(name)
                      /\ skipped = {} =>
                           \A name \in DecoratorStrings :
                             Times(name) = IF Decorators[name] THEN 1 ELSE 0
    BY Zenon DEF ModifiersShown, PrefixesShown, PrefixesPrinted, DecoratedOnce, Succeeded
  <2>1. insn \in Instructions /\ kept = Sentence
    BY DEF Telling, Typed, Formatted
  <2>2. {"LOCK", "XACQUIRE", "XRELEASE", "BND"} \subseteq PrefixStrings
    BY DEF PrefixStrings
  <2>3. ASSUME NEW name \in IF f.detailed_prefixes THEN {"LOCK", "XACQUIRE", "XRELEASE", "BND"}
                                                   ELSE PrefixStrings
        PROVE  Times(name) = Expected(name)
    BY <2>1, <2>2, PrefixesShownTold
  <2>4. ASSUME skipped = {}, NEW name \in DecoratorStrings
        PROVE  Times(name) = IF Decorators[name] THEN 1 ELSE 0
    BY <2>1, <2>4, DecoratedOnceTold
  <2> QED BY <2>3, <2>4
<1>2. Sound /\ Telling /\ [FormatterNext]_formatterVars => (Sound /\ Telling)'
  BY FormatterTells, StepSound
<1>3. FormatterInit => Sound /\ Telling
  BY InitInv, InitTells DEF FormatterInit, IInv
<1> QED BY <1>1, <1>2, <1>3, PTL DEF FormatterSpec

=============================================================================
