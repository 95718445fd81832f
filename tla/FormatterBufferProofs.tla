------------------------ MODULE FormatterBufferProofs ------------------------
(****************************************************************************)
(* For every buffer length, byte width, set of token types and of static    *)
(* lists: the formatter buffer never writes outside the caller's memory,    *)
(* its book-keeping is exact, the length of a token fits its byte and the   *)
(* current string is terminated.                                            *)
(****************************************************************************)
EXTENDS FormatterBuffer, TLAPS

\* A snapshot names a place at or before the current one.
SavedInRange ==
  \A s \in saved : IF isTokenList THEN Header <= s /\ s <= data
                                  ELSE 1 <= s /\ s <= size

\* The placeholder token at the start is never written to: no string can be
\* had from it, so only it may keep a limit that a byte cannot hold.
Placeholder ==
  isTokenList => /\ TypeAt(Header) = Invalid
                 /\ data = Header => size = 1
                 /\ data # Header => limit <= U8Max

\* The numbers are numbers, and the memory is exactly the caller's bytes.
Placed ==
  /\ isTokenList \in BOOLEAN
  /\ capacity \in Nat /\ data \in Nat /\ size \in Nat /\ limit \in Nat
  /\ DOMAIN mem = Offsets
  /\ saved \subseteq Nat

\* What holds whatever the bytes say: the formatter's own proofs use this
\* part, for functions that print what they like.
Sound ==
  /\ Placed
  /\ Accounting
  /\ SavedInRange
  /\ Placeholder
  /\ NulTerminated

IInv ==
  /\ Sound
  /\ mem \in [Offsets -> Byte]
  /\ status \in {"SUCCESS", "INSUFFICIENT_BUFFER_SIZE"}

USE DEF Header, Invalid, Nul

\* Writing bytes inside the caller's memory: the new bytes are there, the
\* others are kept, and nothing else exists.
LEMMA PokeInside ==
  ASSUME NEW m, DOMAIN m = Offsets, NEW w, DOMAIN w \subseteq Offsets
  PROVE  /\ DOMAIN Poke(m, w) = Offsets
         /\ \A i \in DOMAIN w : Poke(m, w)[i] = w[i]
         /\ \A i \in Offsets \ DOMAIN w : Poke(m, w)[i] = m[i]
<1>1. DOMAIN m \cup DOMAIN w = Offsets
  OBVIOUS
<1> QED BY <1>1 DEF Poke

\* Bytes written over bytes leave bytes.
LEMMA PokeBytes ==
  ASSUME NEW m \in [Offsets -> Byte], NEW w, DOMAIN Poke(m, w) = Offsets,
         \A i \in DOMAIN w : w[i] \in Byte
  PROVE  Poke(m, w) \in [Offsets -> Byte]
<1>1. DOMAIN m \cup DOMAIN w = Offsets
  BY DEF Poke
<1> QED BY <1>1 DEF Poke

LEMMA InitInv == Init => IInv
<1> SUFFICES ASSUME Init PROVE IInv
  OBVIOUS
<1>1. CASE InitString
  <2>1. mem \in [Offsets -> Byte] /\ mem[0] = 0
    BY <1>1, LengthAssumption, ByteAssumption DEF InitString, Offsets, Byte
  <2>2. ~isTokenList /\ isTokenList \in BOOLEAN
    BY <1>1 DEF InitString
  <2>3. /\ capacity = 0 /\ data = 0 /\ size = 1 /\ limit = Length
        /\ saved = {} /\ status = "SUCCESS"
    BY <1>1 DEF Init, InitString
  <2> HIDE <1>1
  <2>4. Sound
    BY <2>1, <2>2, <2>3, LengthAssumption
       DEF Sound, Placed, Accounting, SavedInRange, Placeholder, NulTerminated
  <2> QED BY <2>1, <2>3, <2>4 DEF IInv
<1>2. CASE InitTokenized
  <2>1. /\ mem \in [Offsets -> Byte]
        /\ mem[0] = 0 /\ mem[2] = 0
    BY <1>2, LengthAssumption, ByteAssumption
       DEF InitTokenized, Offsets, Byte
  <2>2. Sound
    BY <1>2, <2>1, LengthAssumption, ByteAssumption
       DEF Init, InitTokenized, Sound, Placed, Accounting, SavedInRange,
           Placeholder, NulTerminated, TypeAt
  <2> QED BY <2>1, <2>2 DEF Init, IInv
<1> QED BY <1>1, <1>2 DEF Init

\* The invariant bounds every token's length by a byte.
LEMMA FitsByte == Sound => LengthFitsByte
BY ByteAssumption
   DEF Sound, Placed, Accounting, Placeholder, LengthFitsByte

LEMMA AppendNewSound ==
  ASSUME Sound, NEW type, AppendNew(type)
  PROVE  Sound'
<1> DEFINE next == data + size + 2
           left == capacity - (size + 2)
           W == {data - 1} \cup (next - 2) .. next
           w == [i \in W |-> CASE i = data - 1 -> size % (U8Max + 1)
                               [] i = next - 2 -> type
                               [] i = next - 1 -> 0
                               [] i = next     -> 0]
<1>1. /\ isTokenList /\ isTokenList' = isTokenList /\ saved' = saved
      /\ capacity > size + 2 /\ capacity' = left
      /\ data' = next /\ size' = 1
      /\ limit' = MinOf(left, U8Max)
      /\ mem' = Poke(mem, w)
  BY DEF AppendNew
<1>2. /\ capacity \in Nat /\ data \in Nat /\ size \in Nat /\ limit \in Nat
      /\ data >= 2 /\ data + capacity = Length /\ size >= 1
      /\ size <= limit /\ limit <= capacity
      /\ DOMAIN mem = Offsets /\ U8Max \in Nat /\ U8Max > 2
      /\ Length \in Nat
  BY <1>1, LengthAssumption, ByteAssumption DEF Sound, Placed, Accounting
<1>3. /\ left \in Nat /\ left >= 1 /\ next \in Nat
      /\ next >= 5 /\ next + left = Length /\ next > data
  BY <1>1, <1>2
<1>4. W \subseteq Offsets /\ 0 \notin W /\ next \in W
  BY <1>2, <1>3 DEF Offsets
<1>5. DOMAIN w = W
  OBVIOUS
<1>6. w[next] = 0
  BY <1>2, <1>4
<1> HIDE DEF w, W
<1>7. DOMAIN mem' = Offsets /\ mem'[next] = 0 /\ mem'[0] = mem[0]
  <2>1. 0 \in Offsets
    BY LengthAssumption DEF Offsets
  <2>2. /\ DOMAIN Poke(mem, w) = Offsets
        /\ \A i \in DOMAIN w : Poke(mem, w)[i] = w[i]
        /\ \A i \in Offsets \ DOMAIN w : Poke(mem, w)[i] = mem[i]
    BY <1>2, <1>4, <1>5, PokeInside
  <2> QED BY <1>1, <1>4, <1>5, <1>6, <2>1, <2>2
<1>8. /\ limit' \in Nat /\ limit' <= left /\ limit' <= U8Max /\ limit' >= 1
  BY <1>1, <1>2, <1>3 DEF MinOf
<1> QED
  BY <1>1, <1>2, <1>3, <1>7, <1>8
     DEF Sound, Placed, Accounting, SavedInRange, Placeholder, NulTerminated,
         TypeAt

\* What a static list must look like for its copy to be safe.
Fits(p) ==
  /\ p.size \in Nat /\ p.next \in Nat /\ Header <= p.next /\ p.next < p.size
  /\ p.size - p.next <= U8Max
  /\ p.data[p.size - 1] = Nul

LEMMA PredefinedNewSound ==
  ASSUME Sound, NEW p, Fits(p), PredefinedNew(p)
  PROVE  Sound'
<1> DEFINE block == data + size
           next == block + p.next
           left == capacity - (size + p.next)
           W == {data - 1} \cup block .. (block + p.size - 1)
           w == [i \in W |-> IF i = data - 1 THEN size % (U8Max + 1)
                                            ELSE p.data[i - block]]
<1>1. /\ isTokenList /\ isTokenList' = isTokenList /\ saved' = saved
      /\ capacity > size + p.size /\ capacity' = left
      /\ data' = next /\ size' = p.size - p.next
      /\ limit' = MinOf(left, U8Max)
      /\ mem' = Poke(mem, w)
  BY DEF PredefinedNew
<1>2. /\ capacity \in Nat /\ data \in Nat /\ size \in Nat /\ limit \in Nat
      /\ data >= 2 /\ data + capacity = Length /\ size >= 1
      /\ size <= limit /\ limit <= capacity
      /\ DOMAIN mem = Offsets /\ U8Max \in Nat /\ U8Max > 2
      /\ Length \in Nat
  BY <1>1, LengthAssumption, ByteAssumption DEF Sound, Placed, Accounting
<1>3. /\ p.size \in Nat /\ p.size - p.next <= U8Max /\ p.next \in Nat
      /\ 2 <= p.next /\ p.next < p.size /\ p.data[p.size - 1] = 0
  BY DEF Fits
<1>4. /\ left \in Nat /\ next \in Nat /\ next + left = Length /\ next > data
      /\ p.size - p.next >= 1 /\ p.size - p.next <= left
      /\ p.size - p.next \in Nat
  BY <1>1, <1>2, <1>3
<1>5. W \subseteq Offsets /\ 0 \notin W /\ block + p.size - 1 \in W
  <2>1. data - 1 \in Offsets \ {0}
    BY <1>2 DEF Offsets
  <2>2. \A i \in block .. (block + p.size - 1) : i \in Offsets \ {0}
    BY <1>1, <1>2, <1>3 DEF Offsets
  <2>3. block + p.size - 1 \in block .. (block + p.size - 1)
    BY <1>2, <1>3
  <2> QED BY <2>1, <2>2, <2>3
<1>6. DOMAIN w = W
  OBVIOUS
<1>7. w[block + p.size - 1] = 0
  <2>1. block + p.size - 1 # data - 1
    BY <1>2, <1>3
  <2>2. w[block + p.size - 1] = p.data[(block + p.size - 1) - block]
    BY <1>5, <2>1
  <2>3. (block + p.size - 1) - block = p.size - 1
    BY <1>2, <1>3
  <2> QED BY <1>3, <2>2, <2>3
<1> HIDE DEF w, W
<1>8. /\ DOMAIN mem' = Offsets /\ mem'[0] = mem[0]
      /\ mem'[block + p.size - 1] = 0
  <2>1. 0 \in Offsets
    BY LengthAssumption DEF Offsets
  <2>2. /\ DOMAIN Poke(mem, w) = Offsets
        /\ \A i \in DOMAIN w : Poke(mem, w)[i] = w[i]
        /\ \A i \in Offsets \ DOMAIN w : Poke(mem, w)[i] = mem[i]
    BY <1>2, <1>5, <1>6, PokeInside
  <2> QED BY <1>1, <1>5, <1>6, <1>7, <2>1, <2>2
<1>9. /\ limit' \in Nat /\ limit' <= left /\ limit' <= U8Max
      /\ p.size - p.next <= limit'
  BY <1>1, <1>2, <1>3, <1>4 DEF MinOf
<1>10. data' + size' - 1 = block + p.size - 1
  BY <1>1, <1>2, <1>3
<1>11. Placed' /\ Accounting'
  BY <1>1, <1>2, <1>4, <1>8, <1>9 DEF Sound, Placed, Accounting
<1>12. SavedInRange'
  BY <1>1, <1>2, <1>4 DEF Sound, Placed, SavedInRange
<1>13. Placeholder'
  BY <1>1, <1>2, <1>4, <1>8, <1>9 DEF Sound, Placeholder, TypeAt
<1>14. NulTerminated'
  BY <1>8, <1>10 DEF NulTerminated
<1> QED BY <1>11, <1>12, <1>13, <1>14 DEF Sound

LEMMA TextNewSound ==
  ASSUME Sound, NEW n \in Nat \ {0}, NEW c, TextNew(n, c)
  PROVE  Sound'
<1> DEFINE end == data + size + n - 1
           W == (data + size - 1) .. end
           w == [i \in W |-> IF i = end THEN 0 ELSE c]
<1>1. /\ HasString /\ size + n <= limit /\ size' = size + n
      /\ isTokenList' = isTokenList /\ capacity' = capacity /\ data' = data
      /\ limit' = limit /\ saved' = saved
      /\ mem' = Poke(mem, w)
  BY DEF TextNew
<1>2. /\ capacity \in Nat /\ data \in Nat /\ size \in Nat /\ limit \in Nat
      /\ size >= 1 /\ n \in Nat /\ n >= 1
      /\ DOMAIN mem = Offsets /\ U8Max \in Nat
      /\ Length \in Nat /\ isTokenList \in BOOLEAN
  BY LengthAssumption, ByteAssumption DEF Sound, Placed, Accounting
<1>3. data + limit <= Length
  BY <1>2 DEF Sound, Accounting
<1>4. isTokenList => data > 2 /\ mem[0] = 0
  BY <1>1, <1>2 DEF Sound, Accounting, Placeholder, HasString, TypeAt
<1>5. /\ W \subseteq Offsets /\ end \in W
      /\ isTokenList => 0 \notin W
  BY <1>1, <1>2, <1>3, <1>4 DEF Offsets
<1>6. DOMAIN w = W /\ w[end] = 0
  BY <1>2, <1>5
<1> HIDE DEF w, W
<1>7. /\ DOMAIN mem' = Offsets /\ mem'[end] = 0
      /\ isTokenList => mem'[0] = mem[0]
  <2>1. 0 \in Offsets
    BY LengthAssumption DEF Offsets
  <2>2. /\ DOMAIN Poke(mem, w) = Offsets
        /\ \A i \in DOMAIN w : Poke(mem, w)[i] = w[i]
        /\ \A i \in Offsets \ DOMAIN w : Poke(mem, w)[i] = mem[i]
    BY <1>2, <1>5, <1>6, PokeInside
  <2> QED BY <1>1, <1>5, <1>6, <2>1, <2>2
<1>8. data' + size' - 1 = end
  BY <1>1, <1>2
<1>9. Placed' /\ Accounting'
  BY <1>1, <1>2, <1>7 DEF Sound, Placed, Accounting
<1>10. SavedInRange'
  BY <1>1, <1>2 DEF Sound, Placed, SavedInRange
<1>11. Placeholder'
  BY <1>1, <1>2, <1>4, <1>7 DEF Sound, Placeholder, TypeAt
<1>12. NulTerminated'
  BY <1>7, <1>8 DEF NulTerminated
<1> QED BY <1>9, <1>10, <1>11, <1>12 DEF Sound

LEMMA RestoreSound ==
  ASSUME Sound, NEW state \in saved, Restore(state)
  PROVE  Sound'
<1>1. /\ saved' = {s \in saved : s <= state}
      /\ isTokenList' = isTokenList /\ isTokenList \in BOOLEAN
      /\ state \in Nat /\ capacity \in Nat /\ data \in Nat /\ size \in Nat
      /\ limit \in Nat /\ DOMAIN mem = Offsets /\ 1 <= size
      /\ size <= limit /\ saved \subseteq Nat /\ U8Max \in Nat /\ U8Max > 2
      /\ Length \in Nat /\ Length > 2
  BY LengthAssumption, ByteAssumption DEF Restore, Sound, Placed, Accounting
<1>2. CASE RestoreTokens(state)
  <2> DEFINE left == capacity + (data - state)
             w == [i \in {state} |-> 0]
  <2>1. /\ isTokenList /\ capacity' = left /\ data' = state /\ size' = 1
        /\ limit' = MinOf(left, U8Max) /\ mem' = Poke(mem, w)
    BY <1>2 DEF RestoreTokens
  <2>2. /\ 2 <= state /\ state <= data /\ data + capacity = Length
        /\ limit <= capacity /\ mem[0] = 0
    BY <2>1 DEF Sound, Accounting, SavedInRange, Placeholder, TypeAt
  <2>3. /\ left \in Nat /\ left >= 1 /\ state + left = Length
        /\ state \in Offsets /\ 0 \in Offsets /\ state # 0
    BY <1>1, <2>2 DEF Offsets
  <2>4. /\ DOMAIN w \subseteq Offsets
        /\ state \in DOMAIN w /\ w[state] = 0 /\ 0 \notin DOMAIN w
    BY <1>1, <2>3
  <2> HIDE DEF w
  <2>5. /\ DOMAIN mem' = Offsets /\ mem'[state] = 0 /\ mem'[0] = 0
    <3>1. /\ DOMAIN Poke(mem, w) = Offsets
          /\ \A i \in DOMAIN w : Poke(mem, w)[i] = w[i]
          /\ \A i \in Offsets \ DOMAIN w : Poke(mem, w)[i] = mem[i]
      BY <1>1, <2>4, PokeInside
    <3> QED BY <2>1, <2>2, <2>3, <2>4, <3>1
  <2>6. limit' \in Nat /\ limit' <= left /\ limit' <= U8Max /\ 1 <= limit'
    BY <1>1, <2>1, <2>3 DEF MinOf
  <2>7. Placed' /\ Accounting'
    <3>1. saved' \subseteq Nat /\ isTokenList' \in BOOLEAN /\ isTokenList'
      BY <1>1, <2>1
    <3>2. Placed'
      BY <1>1, <2>1, <2>3, <2>5, <2>6, <3>1 DEF Placed
    <3>3. Accounting'
      BY <2>1, <2>2, <2>3, <2>6, <3>1 DEF Accounting
    <3> QED BY <3>2, <3>3
  <2>8. SavedInRange'
    BY <1>1, <2>1 DEF Sound, SavedInRange
  <2>9. Placeholder'
    <3>1. mem'[Header - 2] = 0 /\ size' = 1 /\ limit' <= U8Max
      BY <2>1, <2>5, <2>6
    <3> QED BY <3>1 DEF Placeholder, TypeAt
  <2>10. NulTerminated'
    <3>1. data' + size' - 1 = state
      BY <1>1, <2>1
    <3> QED BY <2>5, <3>1 DEF NulTerminated
  <2> QED BY <2>7, <2>8, <2>9, <2>10 DEF Sound
<1>3. CASE RestoreString(state)
  <2> DEFINE w == [i \in {data + state - 1} |-> 0]
  <2>1. /\ ~isTokenList /\ size' = state /\ mem' = Poke(mem, w)
        /\ capacity' = capacity /\ data' = data /\ limit' = limit
    BY <1>3 DEF RestoreString
  <2>2. /\ 1 <= state /\ state <= size /\ data = 0 /\ limit = Length
    BY <2>1 DEF Sound, Accounting, SavedInRange
  <2>3. data + state - 1 \in Offsets
    BY <1>1, <2>2 DEF Offsets
  <2>4. /\ DOMAIN w \subseteq Offsets
        /\ data + state - 1 \in DOMAIN w /\ w[data + state - 1] = 0
    BY <1>1, <2>3
  <2> HIDE DEF w
  <2>5. DOMAIN mem' = Offsets /\ mem'[data + state - 1] = 0
    <3>1. /\ DOMAIN Poke(mem, w) = Offsets
          /\ \A i \in DOMAIN w : Poke(mem, w)[i] = w[i]
      BY <1>1, <2>4, PokeInside
    <3> QED BY <2>1, <2>4, <3>1
  <2>6. Placed' /\ Accounting'
    <3>1. saved' \subseteq Nat /\ isTokenList' \in BOOLEAN /\ ~isTokenList'
      BY <1>1, <2>1
    <3>2. Placed'
      BY <1>1, <2>1, <2>5, <3>1 DEF Placed
    <3>3. Accounting'
      BY <1>1, <2>1, <2>2, <3>1 DEF Accounting
    <3> QED BY <3>2, <3>3
  <2>7. SavedInRange'
    BY <1>1, <2>1 DEF Sound, SavedInRange
  <2>8. Placeholder'
    <3>1. ~isTokenList'
      BY <1>1, <2>1
    <3> QED BY <3>1 DEF Placeholder
  <2>9. NulTerminated'
    <3>1. data' + size' - 1 = data + state - 1
      BY <2>1
    <3> QED BY <2>5, <3>1 DEF NulTerminated
  <2> QED BY <2>6, <2>7, <2>8, <2>9 DEF Sound
<1> QED BY <1>2, <1>3 DEF Restore

LEMMA RememberSound == Sound /\ Remember => Sound'
<1> SUFFICES ASSUME Sound, Remember PROVE Sound'
  OBVIOUS
<1>1. /\ saved' = saved \cup {Snapshot}
      /\ UNCHANGED <<isTokenList, capacity, data, size, limit, mem>>
  BY DEF Remember
<1>2. Placed' /\ Accounting' /\ Placeholder' /\ NulTerminated'
  BY <1>1 DEF Sound, Placed, Accounting, Placeholder, NulTerminated, TypeAt,
              Snapshot
<1>3. SavedInRange'
  BY <1>1 DEF Sound, Placed, Accounting, SavedInRange, Snapshot
<1> QED BY <1>2, <1>3 DEF Sound

\* A call that fails, and a step of somebody else, change nothing.
LEMMA FailsSound ==
  ASSUME Sound, NEW why, Fails(why) \/ UNCHANGED vars
  PROVE  Sound'
<1>1. /\ isTokenList' = isTokenList /\ capacity' = capacity /\ data' = data
      /\ size' = size /\ limit' = limit /\ mem' = mem /\ saved' = saved
  BY DEF Fails, vars
<1>2. Placed' /\ Accounting'
  BY <1>1 DEF Sound, Placed, Accounting
<1>3. SavedInRange' /\ Placeholder'
  BY <1>1 DEF Sound, SavedInRange, Placeholder, TypeAt
<1>4. NulTerminated'
  BY <1>1 DEF Sound, NulTerminated
<1> QED BY <1>2, <1>3, <1>4 DEF Sound

-----------------------------------------------------------------------------
(* The bytes: what a formatter function hands over is written, no more.     *)

LEMMA AppendNewInv ==
  ASSUME IInv, NEW type \in TokenTypes, AppendNew(type)
  PROVE  IInv'
<1> DEFINE next == data + size + 2
           W == {data - 1} \cup (next - 2) .. next
           w == [i \in W |-> CASE i = data - 1 -> size % (U8Max + 1)
                               [] i = next - 2 -> type
                               [] i = next - 1 -> 0
                               [] i = next     -> 0]
<1>1. mem' = Poke(mem, w) /\ status' = "SUCCESS"
  BY DEF AppendNew
<1>2. Sound'
  BY AppendNewSound DEF IInv
<1>3. size % (U8Max + 1) \in Byte /\ type \in Byte /\ 0 \in Byte
  BY ByteAssumption DEF IInv, Sound, Placed, Byte
<1>4. \A i \in W : i = data - 1 \/ i = next - 2 \/ i = next - 1 \/ i = next
  BY DEF IInv, Sound, Placed
<1>5. \A i \in DOMAIN w : w[i] \in Byte
  BY <1>3, <1>4
<1> HIDE DEF w
<1>6. DOMAIN Poke(mem, w) = Offsets
  BY <1>1, <1>2 DEF Sound, Placed
<1>7. mem' \in [Offsets -> Byte]
  BY <1>1, <1>5, <1>6, PokeBytes DEF IInv
<1> QED BY <1>1, <1>2, <1>7 DEF IInv

LEMMA PredefinedNewInv ==
  ASSUME IInv, NEW p \in Predefined, PredefinedNew(p)
  PROVE  IInv'
<1> DEFINE block == data + size
           W == {data - 1} \cup block .. (block + p.size - 1)
           w == [i \in W |-> IF i = data - 1 THEN size % (U8Max + 1)
                                            ELSE p.data[i - block]]
<1>1. mem' = Poke(mem, w) /\ status' = "SUCCESS"
  BY DEF PredefinedNew
<1>2. /\ p.size \in Byte /\ p.next \in Byte /\ 2 <= p.next /\ p.next < p.size
      /\ p.data \in [0 .. p.size - 1 -> Byte] /\ p.data[p.size - 1] = 0
  BY PredefinedAssumption
<1>3. p.size \in Nat /\ p.size <= U8Max /\ p.next \in Nat /\ U8Max \in Nat
  BY <1>2, ByteAssumption DEF Byte
<1>4. Fits(p)
  BY <1>2, <1>3 DEF Fits
<1>5. Sound'
  BY <1>4, PredefinedNewSound DEF IInv
<1>6. data \in Nat /\ size \in Nat /\ size % (U8Max + 1) \in Byte
  BY <1>3 DEF IInv, Sound, Placed, Byte
<1>7. \A i \in W : i = data - 1 \/ i - block \in 0 .. p.size - 1
  BY <1>3, <1>6
<1>8. \A i \in DOMAIN w : w[i] \in Byte
  BY <1>2, <1>6, <1>7
<1> HIDE DEF w
<1>9. DOMAIN Poke(mem, w) = Offsets
  BY <1>1, <1>5 DEF Sound, Placed
<1>10. mem' \in [Offsets -> Byte]
  BY <1>1, <1>8, <1>9, PokeBytes DEF IInv
<1> QED BY <1>1, <1>5, <1>10 DEF IInv

LEMMA TextNewInv ==
  ASSUME IInv, NEW n \in 1 .. MaxText, NEW c \in Chars, TextNew(n, c)
  PROVE  IInv'
<1> DEFINE w == [i \in (data + size - 1) .. (data + size + n - 1) |->
                   IF i = data + size + n - 1 THEN 0 ELSE c]
<1>1. mem' = Poke(mem, w) /\ status' = "SUCCESS"
  BY DEF TextNew
<1>2. n \in Nat \ {0} /\ c \in Byte /\ 0 \in Byte
  BY ByteAssumption DEF Byte
<1>3. Sound'
  BY <1>2, TextNewSound DEF IInv
<1>4. \A i \in DOMAIN w : w[i] \in Byte
  BY <1>2
<1> HIDE DEF w
<1>5. DOMAIN Poke(mem, w) = Offsets
  BY <1>1, <1>3 DEF Sound, Placed
<1>6. mem' \in [Offsets -> Byte]
  BY <1>1, <1>4, <1>5, PokeBytes DEF IInv
<1> QED BY <1>1, <1>3, <1>6 DEF IInv

LEMMA RestoreInv ==
  ASSUME IInv, NEW state \in saved, Restore(state)
  PROVE  IInv'
<1>1. Sound' /\ status' = "SUCCESS" /\ 0 \in Byte
  BY RestoreSound, ByteAssumption DEF IInv, Restore, Byte
<1>2. ASSUME NEW a, mem' = Poke(mem, [i \in {a} |-> 0])
      PROVE  mem' \in [Offsets -> Byte]
  <2>1. \A k \in DOMAIN [i \in {a} |-> 0] : [i \in {a} |-> 0][k] \in Byte
    BY <1>1
  <2>2. DOMAIN Poke(mem, [i \in {a} |-> 0]) = Offsets
    BY <1>1, <1>2 DEF Sound, Placed
  <2> QED BY <1>2, <2>1, <2>2, PokeBytes DEF IInv
<1>3. mem' \in [Offsets -> Byte]
  BY <1>2 DEF Restore, RestoreTokens, RestoreString
<1> QED BY <1>1, <1>3 DEF IInv

LEMMA RememberInv == IInv /\ Remember => IInv'
BY RememberSound DEF IInv, Remember

LEMMA FailsInv ==
  ASSUME IInv, NEW why \in {"SUCCESS", "INSUFFICIENT_BUFFER_SIZE"},
         Fails(why) \/ UNCHANGED vars
  PROVE  IInv'
BY FailsSound DEF IInv, Fails, vars

LEMMA StepInv == IInv /\ [Next]_vars => IInv'
<1> SUFFICES ASSUME IInv, [Next]_vars PROVE IInv'
  OBVIOUS
<1>1. CASE UNCHANGED vars
  BY <1>1, FailsInv
<1>2. ASSUME NEW type \in TokenTypes, Append_(type) PROVE IInv'
  BY <1>2, AppendNewInv, FailsInv DEF Append_, AppendSame, AppendFull
<1>3. ASSUME NEW p \in Predefined, AppendPredefined(p) PROVE IInv'
  BY <1>3, PredefinedNewInv, FailsInv DEF AppendPredefined, PredefinedFull
<1>4. ASSUME NEW n \in 1 .. MaxText, NEW c \in Chars, AppendText(n, c)
      PROVE  IInv'
  BY <1>4, TextNewInv, FailsInv DEF AppendText, TextFull
<1>5. CASE Remember
  BY <1>5, RememberInv
<1>6. ASSUME NEW state \in saved, Restore(state) PROVE IInv'
  BY <1>6, RestoreInv
<1> QED BY <1>1, <1>2, <1>3, <1>4, <1>5, <1>6 DEF Next

(* The invariant of every call of the buffer: typing, books, held snapshots *)
(* in range, the placeholder of an empty token list, the terminator.        *)
THEOREM Inductive == Spec => []IInv
<1>1. Init => IInv
  BY InitInv
<1>2. IInv /\ [Next]_vars => IInv'
  BY StepInv
<1> QED BY <1>1, <1>2, PTL DEF Spec

(* Every reachable state of the buffer is well typed. *)
THEOREM TypeCorrect == Spec => []TypeOK
<1>1. IInv => TypeOK
  BY DEF IInv, Sound, Placed, TypeOK, Offsets
<1> QED BY <1>1, Inductive, PTL

(* No sequence of appends, snapshots and restores, however it fails, writes *)
(* outside the memory the caller handed to the formatter.                   *)
THEOREM WritesInside == Spec => []NoWriteOutside
<1>1. IInv => NoWriteOutside
  BY DEF IInv, Sound, Placed, NoWriteOutside
<1> QED BY <1>1, Inductive, PTL

(* The buffer's book-keeping stays exact through every Append and Restore.  *)
THEOREM BookKeeping == Spec => []Accounting
<1>1. IInv => Accounting
  BY DEF IInv, Sound
<1> QED BY <1>1, Inductive, PTL

(* The length of every token fits the byte that links it to the next one.   *)
THEOREM LengthFits == Spec => []LengthFitsByte
<1>1. IInv => LengthFitsByte
  BY FitsByte DEF IInv
<1> QED BY <1>1, Inductive, PTL

(* The current string is NUL-terminated at all times.                       *)
THEOREM Terminated == Spec => []NulTerminated
<1>1. IInv => NulTerminated
  BY DEF IInv, Sound
<1> QED BY <1>1, Inductive, PTL

=============================================================================
