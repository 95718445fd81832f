--------------------------- MODULE FormatterBuffer ---------------------------
(****************************************************************************)
(* The output buffer of the formatter: src/src/FormatterBuffer.c, the two  *)
(* initialisers of src/src/Formatter.c and the predefined-token append of  *)
(* src/include/Zydis/Internal/FormatterBase.h.                             *)
(*                                                                          *)
(* The caller owns Length bytes, at offsets 0 .. Length-1.  A plain pass    *)
(* keeps one NUL-terminated string in them.  A tokenizing pass keeps a      *)
(* linked list of tokens: a token is a two-byte header (its type, then the  *)
(* distance to the next header, 0 for the last) and the NUL-terminated      *)
(* text that follows the header.  The buffer object only knows the text of  *)
(* the current token (string.vector) and the bytes left from there on       *)
(* (capacity); a snapshot is nothing but the offset of that text.           *)
(*                                                                          *)
(* Bytes have the values 0 .. U8Max, so that the places where the code      *)
(* stores a length in a byte stay visible when U8Max is small.              *)
(****************************************************************************)
EXTENDS Integers, Sequences

CONSTANTS
  Length,        \* size of the caller's buffer
  U8Max,         \* largest value of a byte (255 in the code)
  TokenTypes,    \* token types a formatter function asks for
  Predefined,    \* static token lists, as [size, next, data] of the code
  Chars,         \* characters a formatter function writes
  MaxText,       \* bound: characters written by one string append
  Junk           \* what the caller's memory holds before the first write

Header == 2      \* sizeof(ZydisFormatterToken)
Invalid == 0     \* ZYDIS_TOKEN_INVALID
Nul == 0

Byte == 0 .. U8Max
Offsets == 0 .. Length - 1

\* ZydisFormatterTokenizeInstruction rejects length <= sizeof(token).
ASSUME LengthAssumption == Length \in Nat /\ Length > Header
ASSUME ByteAssumption ==
  /\ U8Max \in Nat /\ U8Max > Header
  /\ Junk \in Byte
  /\ TokenTypes \subseteq Byte \ {Invalid}
  /\ Chars \subseteq Byte \ {Nul}
  /\ MaxText \in Nat
\* A static list is a block of bytes whose last token's text starts at next
\* and ends, with its NUL, at the end of the block.
ASSUME PredefinedAssumption ==
  \A p \in Predefined :
    /\ p.size \in Byte /\ p.next \in Byte
    /\ Header <= p.next /\ p.next < p.size
    /\ p.data \in [0 .. p.size - 1 -> Byte]
    /\ p.data[p.next - 2] \in TokenTypes
    /\ p.data[p.next - 1] = 0
    /\ p.data[p.size - 1] = Nul

\* Its tokens are linked: the texts start at places of which each is behind
\* the one before it by a header and the length stored in front of it.
Linked(p) ==
  \E n \in 1 .. p.size : \E places \in [1 .. n -> Header .. p.next] :
    /\ places[1] = Header /\ places[n] = p.next
    /\ \A k \in 1 .. n - 1 :
         places[k + 1] = places[k] + Header + p.data[places[k] - 1]
ASSUME LinkAssumption == \A p \in Predefined : Linked(p)

VARIABLES
  isTokenList,   \* buffer->is_token_list
  capacity,      \* buffer->capacity
  data,          \* buffer->string.vector.data, as an offset
  size,          \* buffer->string.vector.size, the NUL included
  limit,         \* buffer->string.vector.capacity
  mem,           \* the caller's memory, every byte ever written included
  saved,         \* snapshots the client still holds and may restore
  status         \* what the last call returned

vars == <<isTokenList, capacity, data, size, limit, mem, saved, status>>

FirstOf(a, b) == a  \* mutant: the capacity of a token is not capped
MinOf(a, b) == IF a <= b THEN a ELSE b

\* Memory after the bytes of w are written.  A write outside the buffer
\* extends the domain of mem instead of disappearing.
Poke(m, w) ==
  [i \in DOMAIN m \cup DOMAIN w |-> IF i \in DOMAIN w THEN w[i] ELSE m[i]]

TypeAt(a) == mem[a - 2]      \* header of the token whose text is at a
NextAt(a) == mem[a - 1]

-----------------------------------------------------------------------------

\* ZydisFormatterBufferInit
InitString ==
  /\ isTokenList = FALSE
  /\ capacity = 0
  /\ data = 0
  /\ size = 1
  /\ limit = Length
  /\ mem = [i \in Offsets |-> IF i = 0 THEN Nul ELSE Junk]

\* ZydisFormatterBufferInitTokenized
InitTokenized ==
  /\ isTokenList = TRUE
  /\ capacity = Length - Header
  /\ data = Header
  /\ size = 1
  /\ limit = Length - Header
  /\ mem = [i \in Offsets |->
              CASE i = 0      -> Invalid
                [] i = 1      -> 0
                [] i = Header -> Nul
                [] OTHER      -> Junk]

Init ==
  /\ InitString \/ InitTokenized
  /\ saved = {}
  /\ status = "SUCCESS"

-----------------------------------------------------------------------------

\* The call fails before it touches the buffer.
Fails(why) ==
  /\ status' = why
  /\ UNCHANGED <<isTokenList, capacity, data, size, limit, mem, saved>>

\* ZydisFormatterBufferAppend, nothing to do.
AppendSame(type) ==
  /\ isTokenList => TypeAt(data) = type
  /\ Fails("SUCCESS")

\* ZydisFormatterBufferAppend, no room for another header and its NUL.
AppendFull(type) ==
  /\ isTokenList /\ TypeAt(data) # type
  /\ capacity <= size + Header
  /\ Fails("INSUFFICIENT_BUFFER_SIZE")

\* mutant: no test for room
AppendUnguarded(type) ==
  LET next == data + size + Header
      left == capacity - (size + Header)
  IN
  /\ isTokenList /\ TypeAt(data) # type
  /\ capacity' = left
  /\ data' = next
  /\ size' = 1
  /\ limit' = MinOf(left, U8Max)
  /\ mem' = Poke(mem, [i \in {data - 1} \cup (next - 2) .. next |->
                         CASE i = data - 1 -> size % (U8Max + 1)
                           [] i = next - 2 -> type
                           [] i = next - 1 -> 0
                           [] i = next     -> Nul])
  /\ status' = "SUCCESS"
  /\ UNCHANGED <<isTokenList, saved>>

\* mutant: the header overwrites the NUL of the closed token
AppendOverlaps(type) ==
  LET next == data + size + Header - 1
      left == capacity - (size + Header - 1)
  IN
  /\ isTokenList /\ TypeAt(data) # type
  /\ capacity > size + Header
  /\ capacity' = left
  /\ data' = next
  /\ size' = 1
  /\ limit' = MinOf(left, U8Max)
  /\ mem' = Poke(mem, [i \in {data - 1} \cup (next - 2) .. next |->
                         CASE i = data - 1 -> (size - 1) % (U8Max + 1)
                           [] i = next - 2 -> type
                           [] i = next - 1 -> 0
                           [] i = next     -> Nul])
  /\ status' = "SUCCESS"
  /\ UNCHANGED <<isTokenList, saved>>

\* ZydisFormatterBufferAppend: close the current token, open an empty one.
AppendNew(type) ==
  LET next == data + size + Header       \* text of the new token
      left == capacity - (size + Header)
  IN
  /\ isTokenList /\ TypeAt(data) # type
  /\ capacity > size + Header
  /\ capacity' = left
  /\ data' = next
  /\ size' = 1
  /\ limit' = MinOf(left, U8Max)
  /\ mem' = Poke(mem, [i \in {data - 1} \cup (next - 2) .. next |->
                         CASE i = data - 1 -> size % (U8Max + 1)
                           [] i = next - 2 -> type
                           [] i = next - 1 -> 0
                           [] i = next     -> Nul])
  /\ status' = "SUCCESS"
  /\ UNCHANGED <<isTokenList, saved>>

Append_(type) == AppendSame(type) \/ AppendFull(type) \/ AppendNew(type)

\* ZydisFormatterBufferAppendPredefined, no room for the block.
PredefinedFull(p) ==
  /\ isTokenList
  /\ capacity <= size + p.size
  /\ Fails("INSUFFICIENT_BUFFER_SIZE")

\* mutant: room for the last token's text is not counted
PredefinedShort(p) ==
  LET block == data + size
      left == capacity - (size + p.next)
  IN
  /\ isTokenList
  /\ capacity > size + p.next
  /\ capacity' = left
  /\ data' = block + p.next
  /\ size' = p.size - p.next
  /\ limit' = MinOf(left, U8Max)
  /\ mem' = Poke(mem, [i \in {data - 1} \cup block .. (block + p.size - 1) |->
                         IF i = data - 1 THEN size % (U8Max + 1)
                                         ELSE p.data[i - block]])
  /\ status' = "SUCCESS"
  /\ UNCHANGED <<isTokenList, saved>>

\* ZydisFormatterBufferAppendPredefined: close the current token, copy the
\* block behind it, make the last token of the block the current one.
PredefinedNew(p) ==
  LET block == data + size               \* where the block goes
      left == capacity - (size + p.next)
  IN
  /\ isTokenList
  /\ capacity > size + p.size
  /\ capacity' = left
  /\ data' = block + p.next
  /\ size' = p.size - p.next
  /\ limit' = MinOf(left, U8Max)
  /\ mem' = Poke(mem, [i \in {data - 1} \cup block .. (block + p.size - 1) |->
                         IF i = data - 1 THEN size % (U8Max + 1)
                                         ELSE p.data[i - block]])
  /\ status' = "SUCCESS"
  /\ UNCHANGED <<isTokenList, saved>>

AppendPredefined(p) == PredefinedFull(p) \/ PredefinedNew(p)

\* ZydisFormatterBufferGetString hands out the current string.
HasString == isTokenList => TypeAt(data) # Invalid

\* ZydisStringAppend and its variants on the current string, not enough room.
TextFull(n) ==
  /\ HasString
  /\ size + n > limit
  /\ Fails("INSUFFICIENT_BUFFER_SIZE")

\* mutant: the text starts behind the NUL it should replace
TextAfterNul(n, c) ==
  /\ HasString
  /\ size + n <= limit
  /\ size' = size + n
  /\ mem' = Poke(mem, [i \in (data + size) .. (data + size + n - 1) |->
                         IF i = data + size + n - 1 THEN Nul ELSE c])
  /\ status' = "SUCCESS"
  /\ UNCHANGED <<isTokenList, capacity, data, limit, saved>>

\* ZydisStringAppend and its variants: n times c, then the new NUL.
TextNew(n, c) ==
  /\ HasString
  /\ size + n <= limit
  /\ size' = size + n
  /\ mem' = Poke(mem, [i \in (data + size - 1) .. (data + size + n - 1) |->
                         IF i = data + size + n - 1 THEN Nul ELSE c])
  /\ status' = "SUCCESS"
  /\ UNCHANGED <<isTokenList, capacity, data, limit, saved>>

AppendText(n, c) == TextFull(n) \/ TextNew(n, c)

\* ZydisFormatterBufferRemember: a snapshot is the place of the current
\* string, or the size of the only one.
Snapshot == IF isTokenList THEN data ELSE size

Remember ==
  /\ saved' = saved \cup {Snapshot}
  /\ status' = "SUCCESS"
  /\ UNCHANGED <<isTokenList, capacity, data, size, limit, mem>>

\* ZydisFormatterBufferRestore.  Snapshots taken after the restored one no
\* longer name a place in the buffer: the client must not use them again.
\* mutant: a header is lost
RestoreForgetsHeader(state) ==
  LET left == capacity + (data - state) - Header IN
  /\ isTokenList
  /\ capacity' = left
  /\ data' = state
  /\ size' = 1
  /\ limit' = MinOf(left, U8Max)
  /\ mem' = Poke(mem, [i \in {state} |-> Nul])

RestoreTokens(state) ==
  LET left == capacity + (data - state) IN
  /\ isTokenList
  /\ capacity' = left
  /\ data' = state
  /\ size' = 1
  /\ limit' = MinOf(left, U8Max)
  /\ mem' = Poke(mem, [i \in {state} |-> Nul])

\* mutant: the shortened string is not terminated
RestoreUnterminated(state) ==
  /\ ~isTokenList
  /\ size' = state
  /\ UNCHANGED <<capacity, data, limit, mem>>

RestoreString(state) ==
  /\ ~isTokenList
  /\ size' = state
  /\ mem' = Poke(mem, [i \in {data + state - 1} |-> Nul])
  /\ UNCHANGED <<capacity, data, limit>>

Restore(state) ==
  /\ state \in saved
  /\ RestoreTokens(state) \/ RestoreString(state)
  /\ saved' = {s \in saved : s <= state}
  /\ status' = "SUCCESS"
  /\ UNCHANGED isTokenList

Next ==
  \/ \E type \in TokenTypes : Append_(type)
  \/ \E p \in Predefined : AppendPredefined(p)
  \/ \E n \in 1 .. MaxText, c \in Chars : AppendText(n, c)
  \/ Remember
  \/ \E state \in saved : Restore(state)

Spec == Init /\ [][Next]_vars

-----------------------------------------------------------------------------

TypeOK ==
  /\ isTokenList \in BOOLEAN
  /\ capacity \in Nat
  /\ data \in Nat
  /\ size \in Nat
  /\ limit \in Nat
  /\ DOMAIN mem \subseteq Int /\ \A i \in DOMAIN mem : mem[i] \in Byte
  /\ saved \subseteq Nat
  /\ status \in {"SUCCESS", "INSUFFICIENT_BUFFER_SIZE"}

(* No call of any sequence of calls writes outside the caller's memory      *)
(* (the checks of FormatterBuffer.c:136, FormatterBase.h:234, String.h:138).*)
NoWriteOutside == DOMAIN mem = Offsets

(* The buffer's book-keeping is exact: what Append subtracts, Restore gives *)
(* back, and the string it hands out fits, NUL included, in what is left.   *)
(* ZydisStringAppendHexU64 computes limit - size in an unsigned type and    *)
(* relies on it (String.c:247).                                             *)
Accounting ==
  /\ isTokenList => /\ Header <= data
                    /\ data + capacity = Length
                    /\ limit <= capacity
  /\ ~isTokenList => data = 0 /\ limit = Length
  /\ 1 <= size /\ size <= limit

(* The length of a finished token fits the byte that stores it: the         *)
(* assertions (len > 0) && (len < 256) of FormatterBuffer.c:135 and         *)
(* FormatterBase.h:233.                                                     *)
LengthFitsByte == isTokenList => size <= U8Max

(* The current string ends in a NUL at its size, whatever was cut or        *)
(* copied before (ZYDIS_STRING_ASSERT_NULLTERMINATION, String.h:105).        *)
NulTerminated == mem[data + size - 1] = Nul

=============================================================================
