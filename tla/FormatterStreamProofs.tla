------------------------ MODULE FormatterStreamProofs ------------------------
(****************************************************************************)
(* The formatter buffer implements the token stream of its interface, for   *)
(* every buffer length, byte width, set of token types and of static lists. *)
(*                                                                          *)
(* What the consumer's walk over the links returns is a recursive function  *)
(* of the memory.  The proof replaces it by the sequence of the places      *)
(* where the texts start: the only induction is the one that shows that     *)
(* both are the same list, and it is over a set of numbers.                 *)
(****************************************************************************)
EXTENDS FormatterBufferRefinement, FormatterBufferProofs, SequenceTheorems,
        WellFoundedInduction

USE DEF Header, Invalid, Nul

-----------------------------------------------------------------------------
(* Induction over the natural numbers, for a set of them.                   *)

LEMMA LessThan == \A x, y \in Nat : <<x, y>> \in OpToRel(<, Nat) <=> x < y
BY DEF OpToRel

LEMMA SetInduction ==
  ASSUME NEW S, 0 \in S, \A n \in Nat : n \in S => n + 1 \in S
  PROVE  \A n \in Nat : n \in S
<1> DEFINE T == Nat \ S
           R == OpToRel(<, Nat)
<1>1. IsWellFoundedOn(R, Nat)
  BY NatLessThanWellFounded
<1>2. \A x, y \in Nat : <<x, y>> \in R <=> x < y
  BY LessThan
<1> HIDE DEF R
<1>3. SUFFICES ASSUME T # {} PROVE FALSE
  OBVIOUS
<1>4. PICK x \in T : \A y \in T : ~ (<<y, x>> \in R)
  BY <1>1, <1>3, WFMin
<1>5. x \in Nat /\ x # 0 /\ x - 1 \in Nat /\ x - 1 < x /\ (x - 1) + 1 = x
  BY <1>4
<1> QED BY <1>2, <1>4, <1>5

-----------------------------------------------------------------------------
(* The walk over the links                                                  *)

\* The n places s[1] .. s[n] at which the texts of the tokens start, from the
\* text at first to the one at last.
Chain(m, s, n, first, last) ==
  /\ n \in Nat \ {0} /\ s \in [1 .. n -> Nat]
  /\ s[1] = first /\ s[n] = last
  /\ \A k \in 1 .. n - 1 : m[s[k] - 1] \in Nat /\ s[k + 1] = After(m, s[k])

\* The tokens whose texts start there.
Tokens(m, s, n, length) ==
  [k \in 1 .. n |-> Token(m, s[k], IF k = n THEN length ELSE m[s[k] - 1])]

\* A token ends before the header of any later one.
LEMMA ChainOrdered ==
  ASSUME NEW m, NEW s, NEW n, NEW first, NEW last, Chain(m, s, n, first, last)
  PROVE  \A j, k \in 1 .. n : j < k => After(m, s[j]) <= s[k]
<1> DEFINE S == {d \in Nat : \A j \in 1 .. n : j + d + 1 \in 1 .. n =>
                               After(m, s[j]) <= s[j + d + 1]}
<1>1. /\ n \in Nat \ {0} /\ s \in [1 .. n -> Nat]
      /\ \A k \in 1 .. n - 1 : m[s[k] - 1] \in Nat /\ s[k + 1] = After(m, s[k])
      /\ \A k \in 1 .. n - 1 : After(m, s[k]) = s[k] + 2 + m[s[k] - 1]
  BY DEF Chain, After
<1>2. 0 \in S
  <2>1. ASSUME NEW j \in 1 .. n, j + 0 + 1 \in 1 .. n PROVE After(m, s[j]) <= s[j + 0 + 1]
    <3>1. j \in 1 .. n - 1 /\ j + 0 + 1 = j + 1
      BY <1>1, <2>1
    <3>2. s[j + 1] \in Nat /\ s[j + 1] = After(m, s[j])
      BY <1>1, <3>1
    <3> QED BY <3>1, <3>2
  <2> QED BY <2>1
<1>3. ASSUME NEW d \in Nat, d \in S PROVE d + 1 \in S
  <2>1. ASSUME NEW j \in 1 .. n, j + (d + 1) + 1 \in 1 .. n
        PROVE  After(m, s[j]) <= s[j + (d + 1) + 1]
    <3>1. /\ j + d + 1 \in 1 .. n - 1 /\ j + d + 1 \in 1 .. n
          /\ (j + d + 1) + 1 = j + (d + 1) + 1 /\ j \in 1 .. n - 1
      BY <1>1, <2>1
    <3>2. After(m, s[j]) <= s[j + d + 1]
      BY <1>3, <3>1
    <3>3. /\ s[(j + d + 1) + 1] = s[j + d + 1] + 2 + m[s[j + d + 1] - 1]
          /\ m[s[j + d + 1] - 1] \in Nat /\ s[j + d + 1] \in Nat
      BY <1>1, <3>1
    <3>4. After(m, s[j]) \in Nat
      BY <1>1, <3>1
    <3> QED BY <3>1, <3>2, <3>3, <3>4
  <2> QED BY <2>1
<1> HIDE DEF S
<1>4. \A d \in Nat : d \in S
  BY <1>2, <1>3, SetInduction
<1>5. ASSUME NEW j \in 1 .. n, NEW k \in 1 .. n, j < k PROVE After(m, s[j]) <= s[k]
  <2>1. (k - j) - 1 \in Nat /\ j + ((k - j) - 1) + 1 = k
    BY <1>1, <1>5
  <2> QED BY <1>4, <2>1 DEF S
<1> QED BY <1>5

LEMMA ChainIncreases ==
  ASSUME NEW m, NEW s, NEW n, NEW first, NEW last, Chain(m, s, n, first, last)
  PROVE  /\ \A j, k \in 1 .. n : j < k <=> s[j] < s[k]
         /\ \A k \in 1 .. n : first <= s[k] /\ s[k] <= last
<1>1. ASSUME NEW j \in 1 .. n, NEW k \in 1 .. n, j < k PROVE s[j] < s[k]
  <2>1. j \in 1 .. n - 1 /\ n \in Nat
    BY <1>1 DEF Chain
  <2>2. m[s[j] - 1] \in Nat /\ s[j] \in Nat /\ s[k] \in Nat
    BY <2>1 DEF Chain
  <2>3. After(m, s[j]) <= s[k]
    BY <1>1, ChainOrdered
  <2> QED BY <2>2, <2>3 DEF After
<1>2. n \in Nat \ {0} /\ s \in [1 .. n -> Nat] /\ s[1] = first /\ s[n] = last
  BY DEF Chain
<1>3. \A j, k \in 1 .. n : j < k <=> s[j] < s[k]
  <2> SUFFICES ASSUME NEW j \in 1 .. n, NEW k \in 1 .. n PROVE j < k <=> s[j] < s[k]
    OBVIOUS
  <2>1. j < k \/ j = k \/ k < j
    BY <1>2
  <2>2. s[j] \in Nat /\ s[k] \in Nat
    BY <1>2
  <2> QED BY <1>1, <2>1, <2>2
<1>4. ASSUME NEW k \in 1 .. n PROVE first <= s[k] /\ s[k] <= last
  <2>1. 1 \in 1 .. n /\ n \in 1 .. n /\ s[k] \in Nat /\ s[1] \in Nat /\ s[n] \in Nat
    BY <1>2
  <2>2. k = 1 \/ 1 < k
    BY <1>2
  <2>3. k = n \/ k < n
    BY <1>2
  <2> QED BY <1>1, <1>2, <2>1, <2>2, <2>3
<1> QED BY <1>3, <1>4

\* One step of the walk, whatever walk takes the rest.
Walked(w, m, a, last, length) ==
  IF a = last THEN <<Token(m, a, length)>>
  ELSE IF After(m, a) > last THEN <<>>
  ELSE <<Token(m, a, m[a - 1])>> \o w[After(m, a)]

\* Every link leads forward, so the recursion of the walk ends.
LEMMA WalkExists ==
  ASSUME NEW m, NEW first \in Nat, NEW last \in Nat, NEW length,
         \A a \in first .. last : m[a - 1] \in Nat
  PROVE  \E w : w = [a \in first .. last |-> Walked(w, m, a, last, length)]
<1> DEFINE Part(d) == (last - d) .. last
           S == {d \in Nat : last - d >= first =>
                   \E w : w = [a \in Part(d) |-> Walked(w, m, a, last, length)]}
<1>1. 0 \in S
  <2> SUFFICES \E w : w = [a \in Part(0) |-> Walked(w, m, a, last, length)]
    OBVIOUS
  <2> DEFINE w == [a \in Part(0) |-> <<Token(m, a, length)>>]
  <2>1. \A a \in Part(0) : a = last
    OBVIOUS
  <2>2. w = [a \in Part(0) |-> Walked(w, m, a, last, length)]
    BY <2>1 DEF Walked
  <2> HIDE DEF w
  <2> QED BY <2>2
<1>2. ASSUME NEW d \in Nat, d \in S PROVE d + 1 \in S
  <2> SUFFICES ASSUME last - (d + 1) >= first
               PROVE  \E w : w = [a \in Part(d + 1) |-> Walked(w, m, a, last, length)]
    OBVIOUS
  <2>1. PICK w : w = [a \in Part(d) |-> Walked(w, m, a, last, length)]
    BY <1>2
  <2> DEFINE b == last - (d + 1)
             v == [a \in Part(d + 1) |-> IF a = b THEN Walked(w, m, b, last, length)
                                                ELSE w[a]]
  <2>2. /\ b \in first .. last /\ m[b - 1] \in Nat
        /\ \A a \in Part(d + 1) : a = b \/ a \in Part(d)
        /\ \A a \in Part(d) : a \in Part(d + 1) /\ a # b /\ a \in first .. last
    OBVIOUS
  <2>3. \A a \in Part(d) : v[a] = w[a]
    BY <2>2
  <2>4. ASSUME NEW a \in Part(d + 1), After(m, a) <= last PROVE After(m, a) \in Part(d)
    <3>1. a \in first .. last /\ m[a - 1] \in Nat /\ a >= b
      BY <2>2
    <3>2. After(m, a) \in Int /\ After(m, a) >= last - d
      BY <3>1 DEF After
    <3> QED BY <2>4, <3>2
  <2>5. ASSUME NEW a \in Part(d + 1)
        PROVE  Walked(v, m, a, last, length) = Walked(w, m, a, last, length)
    <3>1. After(m, a) \in Int
      BY <2>2 DEF After
    <3>2. CASE After(m, a) > last
      BY <3>2 DEF Walked
    <3>3. CASE After(m, a) <= last
      BY <2>3, <2>4, <3>3 DEF Walked
    <3> QED BY <3>1, <3>2, <3>3
  <2>6. \A a \in Part(d + 1) : v[a] = Walked(w, m, a, last, length)
    BY <2>1, <2>2
  <2>7. v = [a \in Part(d + 1) |-> Walked(v, m, a, last, length)]
    <3>1. v = [a \in Part(d + 1) |-> v[a]]
      OBVIOUS
    <3> HIDE DEF v
    <3> QED BY <2>5, <2>6, <3>1
  <2> QED BY <2>7
<1> HIDE DEF S
<1>3. \A d \in Nat : d \in S
  BY <1>1, <1>2, SetInduction
<1>4. CASE last < first
  <2> DEFINE w == [a \in first .. last |-> 0]
  <2>1. first .. last = {}
    BY <1>4
  <2>2. w = [a \in first .. last |-> Walked(w, m, a, last, length)]
    BY <2>1
  <2> HIDE DEF w
  <2> QED BY <2>2
<1>5. CASE first <= last
  <2>1. last - first \in Nat /\ last - (last - first) = first
    BY <1>5
  <2>2. PICK d \in Nat : d = last - first
    BY <2>1
  <2>3. last - d = first
    BY <2>2
  <2>4. \E w : w = [a \in Part(d) |-> Walked(w, m, a, last, length)]
    BY <1>3, <2>3 DEF S
  <2> QED BY <2>3, <2>4
<1> QED BY <1>4, <1>5

\* The list the walk returns is the list of the tokens at the places.
LEMMA ListOfTokens ==
  ASSUME NEW m, NEW s, NEW n, NEW first \in Nat, NEW last \in Nat, NEW length,
         Chain(m, s, n, first, last),
         \A a \in first .. last : m[a - 1] \in Nat
  PROVE  ListFrom(m, first, last, length) = Tokens(m, s, n, length)
<1> DEFINE t == Tokens(m, s, n, length)
           From(k) == [i \in 1 .. n - k + 1 |-> t[k + i - 1]]
<1>1. PICK w : /\ w = [a \in first .. last |-> Walked(w, m, a, last, length)]
               /\ ListFrom(m, first, last, length) = w[first]
  <2> DEFINE w == CHOOSE w : w = [a \in first .. last |-> Walked(w, m, a, last, length)]
  <2>1. w = [a \in first .. last |-> Walked(w, m, a, last, length)]
    BY WalkExists
  <2>2. ListFrom(m, first, last, length) = w[first]
    BY DEF ListFrom, Walked
  <2> HIDE DEF w
  <2> QED BY <2>1, <2>2
<1>2. /\ n \in Nat \ {0} /\ s \in [1 .. n -> Nat] /\ s[1] = first /\ s[n] = last
      /\ \A k \in 1 .. n - 1 : s[k + 1] = After(m, s[k])
      /\ \A k \in 1 .. n : s[k] \in first .. last
      /\ \A k \in 1 .. n - 1 : s[k] < last /\ s[k + 1] <= last
  <2>1. \A k \in 1 .. n - 1 : k \in 1 .. n /\ k + 1 \in 1 .. n /\ k < n /\ n \in 1 .. n
    BY DEF Chain
  <2>2. /\ n \in Nat \ {0} /\ s \in [1 .. n -> Nat] /\ s[1] = first /\ s[n] = last
        /\ \A k \in 1 .. n - 1 : s[k + 1] = After(m, s[k])
    BY DEF Chain
  <2>3. /\ \A j, k \in 1 .. n : j < k <=> s[j] < s[k]
        /\ \A k \in 1 .. n : first <= s[k] /\ s[k] <= last
    BY ChainIncreases
  <2>4. \A k \in 1 .. n : s[k] \in first .. last
    BY <2>2, <2>3
  <2>5. \A k \in 1 .. n - 1 : s[k] < last /\ s[k + 1] <= last
    BY <2>1, <2>2, <2>3
  <2> QED BY <2>2, <2>4, <2>5
<1>3. \A k \in 1 .. n : w[s[k]] = Walked(w, m, s[k], last, length)
  BY <1>1, <1>2
<1>4. /\ DOMAIN t = 1 .. n /\ t[n] = Token(m, last, length)
      /\ \A k \in 1 .. n - 1 : t[k] = Token(m, s[k], m[s[k] - 1])
      /\ t = [k \in 1 .. n |-> t[k]]
  BY <1>2 DEF Tokens
<1> HIDE DEF t
<1> DEFINE S == {d \in Nat : d < n => w[s[n - d]] = From(n - d)}
<1>5. 0 \in S
  <2>1. n - 0 = n /\ n \in 1 .. n
    BY <1>2
  <2>2. w[s[n]] = <<t[n]>>
    BY <1>2, <1>3, <1>4, <2>1 DEF Walked
  <2>3. From(n) = <<t[n]>>
    <3>1. 1 .. n - n + 1 = {1} /\ n + 1 - 1 = n
      BY <1>2
    <3> QED BY <3>1
  <2> QED BY <2>1, <2>2, <2>3
<1>6. ASSUME NEW d \in Nat, d \in S PROVE d + 1 \in S
  <2> SUFFICES ASSUME d + 1 < n PROVE w[s[n - (d + 1)]] = From(n - (d + 1))
    OBVIOUS
  <2> DEFINE k == n - (d + 1)
  <2>1. k \in 1 .. n - 1 /\ k \in 1 .. n /\ k + 1 = n - d /\ k + 1 \in 1 .. n /\ k \in Int
    BY <1>2
  <2>2. w[s[k + 1]] = From(k + 1)
    BY <1>6, <2>1, <1>2
  <2> HIDE DEF k
  <2>3. w[s[k]] = <<t[k]>> \o From(k + 1)
    <3>1. s[k] # last /\ ~(After(m, s[k]) > last) /\ s[k + 1] = After(m, s[k])
      BY <1>2, <2>1
    <3>2. w[s[k]] = <<Token(m, s[k], m[s[k] - 1])>> \o w[After(m, s[k])]
      BY <1>3, <2>1, <3>1 DEF Walked
    <3> QED BY <1>4, <2>1, <2>2, <3>1, <3>2
  <2>4. <<t[k]>> \o From(k + 1) = From(k)
    <3> DEFINE T == {t[i] : i \in 1 .. n}
               q == From(k + 1)
    <3>1. t \in [1 .. n -> T] /\ t[k] \in T
      BY <1>4, <2>1
    <3>2. \A i \in 1 .. n - k : (k + 1) + i - 1 \in 1 .. n /\ (k + 1) + i - 1 = k + i
      BY <1>2, <2>1
    <3>3. n - (k + 1) + 1 = n - k /\ n - k \in Nat
      BY <1>2, <2>1
    <3>4. q = [i \in 1 .. n - k |-> t[k + i]]
      BY <3>2, <3>3
    <3>5. q \in Seq(T) /\ Len(q) = n - k
      <4>1. \A i \in 1 .. n - k : t[k + i] \in T
        BY <3>1, <3>2
      <4>2. q \in [1 .. n - k -> T]
        BY <3>4, <4>1
      <4> HIDE DEF q, T
      <4> QED BY <3>3, <4>2
    <3>6. <<t[k]>> \in Seq(T) /\ Len(<<t[k]>>) = 1 /\ <<t[k]>>[1] = t[k]
      BY <3>1
    <3> DEFINE c == <<t[k]>> \o q
    <3> HIDE DEF q, T
    <3>7. /\ c \in Seq(T) /\ Len(c) = 1 + (n - k)
          /\ \A i \in 1 .. 1 + (n - k) :
               c[i] = IF i <= 1 THEN <<t[k]>>[i] ELSE q[i - 1]
      BY <3>3, <3>5, <3>6, ConcatProperties
    <3>8. \A i \in 1 .. 1 + (n - k) : c[i] = t[k + i - 1]
      <4> SUFFICES ASSUME NEW i \in 1 .. 1 + (n - k) PROVE c[i] = t[k + i - 1]
        OBVIOUS
      <4>1. CASE i = 1
        <5>1. k + i - 1 = k
          BY <2>1, <4>1
        <5> QED BY <3>6, <3>7, <4>1, <5>1
      <4>2. CASE i # 1
        <5>1. i - 1 \in 1 .. n - k /\ ~(i <= 1) /\ k + (i - 1) = k + i - 1
          BY <2>1, <3>3, <4>2
        <5> QED BY <3>4, <3>7, <5>1
      <4> QED BY <4>1, <4>2
    <3>9. DOMAIN c = 1 .. n - k + 1
      <4>1. DOMAIN c = 1 .. 1 + (n - k)
        BY <3>3, <3>7, LenProperties
      <4>2. 1 + (n - k) = n - k + 1
        BY <1>2, <2>1
      <4> QED BY <4>1, <4>2
    <3>10. c = [i \in DOMAIN c |-> c[i]]
      BY <3>7
    <3> HIDE DEF c
    <3>11. \A i \in 1 .. n - k + 1 : c[i] = t[k + i - 1]
      <4>1. 1 + (n - k) = n - k + 1
        BY <1>2, <2>1
      <4> QED BY <3>8, <4>1
    <3>12. c = From(k)
      BY <3>9, <3>10, <3>11
    <3> QED BY <3>12 DEF c, q
  <2> QED BY <2>3, <2>4 DEF k
<1> HIDE DEF S
<1>7. \A d \in Nat : d \in S
  BY <1>5, <1>6, SetInduction
<1>8. w[s[1]] = From(1)
  <2>1. n - 1 \in Nat /\ n - 1 < n /\ n - (n - 1) = 1
    BY <1>2
  <2> QED BY <1>7, <2>1 DEF S
<1>9. From(1) = t
  <2>1. n - 1 + 1 = n /\ \A i \in 1 .. n : 1 + i - 1 = i
    BY <1>2
  <2> QED BY <1>4, <2>1
<1> QED BY <1>1, <1>2, <1>8, <1>9 DEF t

-----------------------------------------------------------------------------
(* Sequences as functions on an interval                                    *)

IsList(q, n) == n \in Nat /\ q = [i \in 1 .. n |-> q[i]]

LEMMA ListIsSeq ==
  ASSUME NEW q, NEW n, IsList(q, n)
  PROVE  q \in Seq({q[i] : i \in 1 .. n}) /\ Len(q) = n
<1> DEFINE S == {q[i] : i \in 1 .. n}
<1>1. n \in Nat /\ q \in [1 .. n -> S]
  BY DEF IsList
<1> HIDE DEF S
<1> QED BY <1>1

LEMMA ListIsSeqOf ==
  ASSUME NEW q, NEW n, IsList(q, n), NEW S, \A i \in 1 .. n : q[i] \in S
  PROVE  q \in Seq(S) /\ Len(q) = n
<1>1. n \in Nat /\ q \in [1 .. n -> S]
  BY DEF IsList
<1> QED BY <1>1

LEMMA SeqIsList ==
  ASSUME NEW S, NEW q \in Seq(S)
  PROVE  IsList(q, Len(q))
BY LenProperties DEF IsList

LEMMA ListAppend ==
  ASSUME NEW q, NEW n, IsList(q, n), NEW e
  PROVE  Append(q, e) = [i \in 1 .. n + 1 |-> IF i <= n THEN q[i] ELSE e]
<1> DEFINE S == {q[i] : i \in 1 .. n} \cup {e}
<1>1. q \in Seq(S) /\ Len(q) = n /\ e \in S /\ n \in Nat
  BY ListIsSeq, SeqMonotonic DEF IsList
<1> HIDE DEF S
<1>2. /\ Append(q, e) \in Seq(S) /\ Len(Append(q, e)) = n + 1
      /\ \A i \in 1 .. n : Append(q, e)[i] = q[i]
      /\ Append(q, e)[n + 1] = e
  BY <1>1, AppendProperties
<1>3. IsList(Append(q, e), n + 1)
  BY <1>2, SeqIsList
<1>4. \A i \in 1 .. n + 1 : Append(q, e)[i] = IF i <= n THEN q[i] ELSE e
  <2>1. \A i \in 1 .. n + 1 : i \in 1 .. n \/ (i = n + 1 /\ ~(i <= n))
    BY <1>1
  <2> QED BY <1>2, <2>1
<1> QED BY <1>3, <1>4 DEF IsList

LEMMA ListJoinsOne ==
  ASSUME NEW q, NEW n, IsList(q, n), NEW e
  PROVE  q \o <<e>> = Append(q, e)
<1> DEFINE S == {q[i] : i \in 1 .. n} \cup {e}
<1>a. (\A i \in 1 .. n : q[i] \in S) /\ e \in S
  OBVIOUS
<1> HIDE DEF S
<1>1. q \in Seq(S)
  BY <1>a, ListIsSeqOf
<1> QED BY <1>a, <1>1, AppendIsConcat

LEMMA ListConcat ==
  ASSUME NEW q, NEW n, IsList(q, n), NEW r, NEW k, IsList(r, k)
  PROVE  q \o r = [i \in 1 .. n + k |-> IF i <= n THEN q[i] ELSE r[i - n]]
<1> DEFINE S == {q[i] : i \in 1 .. n} \cup {r[i] : i \in 1 .. k}
<1>a. (\A i \in 1 .. n : q[i] \in S) /\ (\A i \in 1 .. k : r[i] \in S)
  OBVIOUS
<1> HIDE DEF S
<1>1. q \in Seq(S) /\ Len(q) = n
  BY <1>a, ListIsSeqOf
<1>2. r \in Seq(S) /\ Len(r) = k
  BY <1>a, ListIsSeqOf
<1>3. /\ q \o r \in Seq(S) /\ Len(q \o r) = n + k
      /\ \A i \in 1 .. n + k : (q \o r)[i] = IF i <= n THEN q[i] ELSE r[i - n]
  BY <1>1, <1>2, ConcatProperties
<1>4. IsList(q \o r, n + k)
  BY <1>3, SeqIsList
<1> QED BY <1>3, <1>4 DEF IsList

LEMMA ListCut ==
  ASSUME NEW q, NEW n, IsList(q, n), NEW k \in 0 .. n
  PROVE  SubSeq(q, 1, k) = [i \in 1 .. k |-> q[i]]
<1> DEFINE S == {q[i] : i \in 1 .. n}
<1>1. n \in Nat /\ \A i \in 1 .. k : q[i] \in S
  BY DEF IsList
<1> HIDE DEF S
<1>2. /\ SubSeq(q, 1, k) \in Seq(S) /\ Len(SubSeq(q, 1, k)) = IF 1 <= k THEN k - 1 + 1 ELSE 0
      /\ \A i \in 1 .. k - 1 + 1 : SubSeq(q, 1, k)[i] = q[1 + i - 1]
  BY <1>1, SubSeqProperties
<1>3. Len(SubSeq(q, 1, k)) = k /\ k - 1 + 1 = k /\ \A i \in 1 .. k : 1 + i - 1 = i
  BY <1>1, <1>2
<1>4. IsList(SubSeq(q, 1, k), k)
  BY <1>2, <1>3, SeqIsList
<1>5. \A i \in 1 .. k : SubSeq(q, 1, k)[i] = q[i]
  BY <1>2, <1>3
<1> QED BY <1>4, <1>5 DEF IsList

LEMMA ListTail ==
  ASSUME NEW q, NEW n, IsList(q, n), n # 0
  PROVE  Tail(q) = [i \in 1 .. n - 1 |-> q[i + 1]]
<1> DEFINE S == {q[i] : i \in 1 .. n}
<1>1. q \in Seq(S) /\ Len(q) = n /\ n \in Nat
  BY ListIsSeq DEF IsList
<1> HIDE DEF S
<1>2. q # <<>>
  BY <1>1, EmptySeq
<1>3. /\ Tail(q) \in Seq(S) /\ Len(Tail(q)) = n - 1
      /\ \A i \in 1 .. n - 1 : Tail(q)[i] = q[i + 1]
  BY <1>1, <1>2, HeadTailProperties
<1>4. IsList(Tail(q), n - 1)
  BY <1>3, SeqIsList
<1> QED BY <1>3, <1>4 DEF IsList

-----------------------------------------------------------------------------
(* The list the memory holds                                                *)

\* The tokens behind the placeholder.
Printable(m, s, n, length) == [k \in 1 .. n - 1 |-> Tokens(m, s, n, length)[k + 1]]

\* The snapshots the client holds are places of texts.
Walk(s, n) ==
  /\ Chain(mem, s, n, Header, data)
  /\ \A x \in saved : \E k \in 1 .. n : s[k] = x

Listed == isTokenList => \E s, n : Walk(s, n)

StreamInv == IInv /\ Listed

\* A byte in front of every place up to last.
Links(m, last) == \A a \in Header .. last : m[a - 1] \in Nat

LEMMA ToksOfChain ==
  ASSUME NEW m, NEW s, NEW n, NEW last \in Nat, NEW length,
         Chain(m, s, n, Header, last), Links(m, last)
  PROVE  Tail(ListFrom(m, Header, last, length)) = Printable(m, s, n, length)
<1> DEFINE t == Tokens(m, s, n, length)
<1>1. ListFrom(m, Header, last, length) = t
  BY ListOfTokens DEF Links
<1>2. n \in Nat /\ n # 0
  BY DEF Chain
<1>3. IsList(t, n)
  BY <1>2 DEF IsList, Tokens
<1> QED BY <1>1, <1>2, <1>3, ListTail DEF Printable

\* A snapshot is remembered as the number of tokens up to it.
LEMMA PlaceOfChain ==
  ASSUME NEW m, NEW s, NEW n, NEW last \in Nat, NEW k \in 1 .. n,
         Chain(m, s, n, Header, last), Links(m, last)
  PROVE  /\ Chain(m, [j \in 1 .. k |-> s[j]], k, Header, s[k])
         /\ Len(Tail(ListFrom(m, Header, s[k], 1))) = k - 1
<1> DEFINE r == [j \in 1 .. k |-> s[j]]
<1>1. /\ n \in Nat \ {0} /\ s \in [1 .. n -> Nat] /\ s[1] = 2
      /\ \A j \in 1 .. n - 1 : m[s[j] - 1] \in Nat /\ s[j + 1] = After(m, s[j])
  BY DEF Chain
<1>2. k \in Nat \ {0} /\ \A j \in 1 .. k - 1 : j \in 1 .. n - 1 /\ j \in 1 .. k /\ j + 1 \in 1 .. k
  BY <1>1
<1>3. Chain(m, r, k, 2, s[k])
  <2>1. r \in [1 .. k -> Nat] /\ r[1] = 2 /\ r[k] = s[k]
    BY <1>1, <1>2
  <2>2. \A j \in 1 .. k - 1 : m[r[j] - 1] \in Nat /\ r[j + 1] = After(m, r[j])
    BY <1>1, <1>2
  <2> HIDE DEF r
  <2> QED BY <1>2, <2>1, <2>2 DEF Chain
<1>4. s[k] \in Nat /\ s[k] <= last
  BY <1>1, ChainIncreases
<1>5. Links(m, s[k])
  BY <1>4 DEF Links
<1> HIDE DEF r
<1>6. Tail(ListFrom(m, 2, s[k], 1)) = Printable(m, r, k, 1)
  BY <1>3, <1>4, <1>5, ToksOfChain
<1>7. IsList(Printable(m, r, k, 1), k - 1)
  BY <1>2 DEF IsList, Printable
<1>8. Len(Printable(m, r, k, 1)) = k - 1
  BY <1>7, ListIsSeq
<1> QED BY <1>3, <1>6, <1>8 DEF r

LEMMA LinksInside == IInv /\ isTokenList => Links(mem, data) /\ data \in Nat /\ size \in Nat
<1> SUFFICES ASSUME IInv, isTokenList PROVE Links(mem, data) /\ data \in Nat /\ size \in Nat
  OBVIOUS
<1>1. /\ mem \in [Offsets -> Byte] /\ data \in Nat /\ data + capacity = Length
      /\ capacity \in Nat /\ size \in Nat
  BY DEF IInv, Sound, Placed, Accounting
<1>2. \A a \in 2 .. data : a - 1 \in Offsets
  BY <1>1, LengthAssumption DEF Offsets
<1>3. \A b \in Byte : b \in Nat
  BY ByteAssumption DEF Byte
<1> QED BY <1>1, <1>2, <1>3 DEF Links

\* What the interface sees of the buffer.
LEMMA Mapped ==
  ASSUME IInv, isTokenList, NEW s, NEW n, Walk(s, n)
  PROVE  /\ StreamToks = Printable(mem, s, n, size)
         /\ StreamMarks = {k - 1 : k \in {j \in 1 .. n : s[j] \in saved}}
<1>1. /\ Chain(mem, s, n, 2, data) /\ Links(mem, data) /\ data \in Nat
      /\ \A x \in saved : \E k \in 1 .. n : s[k] = x
  BY LinksInside DEF Walk
<1>2. StreamToks = Printable(mem, s, n, size)
  BY <1>1, ToksOfChain DEF StreamToks, TokensUpTo
<1>3. \A k \in 1 .. n : Len(TokensUpTo(s[k], 1)) = k - 1
  BY ZenonT(40), <1>1, PlaceOfChain DEF TokensUpTo
<1>4. StreamMarks = {Len(TokensUpTo(x, 1)) : x \in saved}
  BY DEF StreamMarks
<1>5. ASSUME NEW x \in saved
      PROVE  \E k \in {j \in 1 .. n : s[j] \in saved} : Len(TokensUpTo(x, 1)) = k - 1
  BY <1>1, <1>3
<1>6. ASSUME NEW k \in {j \in 1 .. n : s[j] \in saved}
      PROVE  \E x \in saved : Len(TokensUpTo(x, 1)) = k - 1
  BY <1>3
<1> QED BY <1>2, <1>4, <1>5, <1>6

-----------------------------------------------------------------------------
(* What a write leaves of the list                                          *)

LEMMA SameToken ==
  ASSUME NEW m, NEW m2, NEW a, NEW length, m2[a - 2] = m[a - 2],
         \A i \in 1 .. length - 1 : m2[a + i - 1] = m[a + i - 1]
  PROVE  Token(m2, a, length) = Token(m, a, length)
BY DEF Token, Bytes

\* A list with its last text at last, and a memory m2 in which nothing in
\* front of that text's header has changed.
Kept(m, m2, s, n, first, last) ==
  /\ first \in Nat /\ last \in Nat /\ first >= 2
  /\ Chain(m, s, n, first, last)
  /\ \A i \in 0 .. last - 2 : m2[i] = m[i]

\* In m2 the last token is closed: its length stands in front of its text.
Closes(m, m2, s, n, last, length) ==
  /\ length \in Nat \ {0}
  /\ Kept(m, m2, s, n, 2, last)
  /\ m2[last - 1] = length
  /\ \A i \in 1 .. length - 1 : m2[last + i - 1] = m[last + i - 1]

\* A write behind the header before last keeps the chain and all its tokens
\* but the last.
LEMMA ChainKept ==
  ASSUME NEW m, NEW m2, NEW s, NEW n, NEW first, NEW last,
         Kept(m, m2, s, n, first, last)
  PROVE  /\ Chain(m2, s, n, first, last)
         /\ \A k \in 1 .. n - 1 :
              /\ m2[s[k] - 1] = m[s[k] - 1]
              /\ Token(m2, s[k], m2[s[k] - 1]) = Token(m, s[k], m[s[k] - 1])
<1>1. /\ n \in Nat \ {0} /\ s \in [1 .. n -> Nat] /\ s[1] = first /\ s[n] = last
      /\ \A k \in 1 .. n - 1 : m[s[k] - 1] \in Nat /\ s[k + 1] = After(m, s[k])
  BY DEF Chain, Kept
<1>2. ASSUME NEW k \in 1 .. n - 1
      PROVE  /\ m2[s[k] - 1] = m[s[k] - 1]
             /\ Token(m2, s[k], m2[s[k] - 1]) = Token(m, s[k], m[s[k] - 1])
  <2>1. k \in 1 .. n /\ n \in 1 .. n /\ k < n /\ s[k] \in Nat /\ m[s[k] - 1] \in Nat
    BY <1>1
  <2>2. first <= s[k] /\ s[k] + 2 + m[s[k] - 1] <= last
    <3>1. Chain(m, s, n, first, last)
      BY DEF Kept
    <3> QED BY <1>1, <2>1, <3>1, ChainIncreases, ChainOrdered DEF After
  <2>3. m2[s[k] - 1] = m[s[k] - 1] /\ m2[s[k] - 2] = m[s[k] - 2]
    <3>1. s[k] - 1 \in 0 .. last - 2 /\ s[k] - 2 \in 0 .. last - 2
      BY <2>1, <2>2 DEF Kept
    <3> QED BY <3>1 DEF Kept
  <2>4. \A i \in 1 .. m[s[k] - 1] - 1 : s[k] + i - 1 \in 0 .. last - 2
    BY <2>1, <2>2 DEF Kept
  <2> QED BY <2>3, <2>4, SameToken DEF Kept
<1>3. \A k \in 1 .. n - 1 : m2[s[k] - 1] \in Nat /\ s[k + 1] = After(m2, s[k])
  BY <1>1, <1>2 DEF After
<1> QED BY <1>1, <1>2, <1>3 DEF Chain

-----------------------------------------------------------------------------
(* A list that grows: the last token is closed, others follow it.           *)

\* The places of one list, then those of another.
Joined(s, n, q, k) == [j \in 1 .. n + k |-> IF j <= n THEN s[j] ELSE q[j - n]]

LEMMA JoinedPlaces ==
  ASSUME NEW s, NEW n, n \in Nat, NEW q, NEW k, k \in Nat
  PROVE  \A j \in 1 .. n : j \in 1 .. n + k /\ Joined(s, n, q, k)[j] = s[j]
<1>1. \A j \in 1 .. n : j \in 1 .. n + k /\ j <= n
  OBVIOUS
<1> QED BY <1>1 DEF Joined

\* What a write leaves of a list when it closes its last token.
LEMMA Closed ==
  ASSUME NEW m, NEW m2, NEW s, NEW n, NEW last, NEW length,
         Closes(m, m2, s, n, last, length)
  PROVE  /\ \A j \in 1 .. n : /\ m2[s[j] - 1] \in Nat
                              /\ Token(m2, s[j], m2[s[j] - 1]) = Tokens(m, s, n, length)[j]
         /\ \A j \in 1 .. n - 1 : s[j + 1] = After(m2, s[j])
         /\ After(m2, s[n]) = last + 2 + length
<1>1. /\ n \in Nat \ {0} /\ s \in [1 .. n -> Nat] /\ s[n] = last
      /\ last \in Nat /\ last >= 2
  <2>1. Kept(m, m2, s, n, 2, last)
    BY DEF Closes
  <2>2. Chain(m, s, n, 2, last) /\ last \in Nat
    BY <2>1 DEF Kept
  <2>3. n \in Nat \ {0} /\ s \in [1 .. n -> Nat] /\ s[n] = last
    BY <2>2 DEF Chain
  <2>4. n \in 1 .. n
    BY <2>3
  <2>5. 2 <= s[n]
    BY <2>2, <2>4, ChainIncreases
  <2> QED BY <2>2, <2>3, <2>5
<1>2. /\ \A j \in 1 .. n - 1 : m2[s[j] - 1] \in Nat /\ s[j + 1] = After(m2, s[j])
      /\ \A j \in 1 .. n - 1 : Token(m2, s[j], m2[s[j] - 1]) = Token(m, s[j], m[s[j] - 1])
  <2>1. Kept(m, m2, s, n, 2, last)
    BY DEF Closes
  <2>2. Chain(m2, s, n, 2, last)
    BY <2>1, ChainKept
  <2>3. \A j \in 1 .. n - 1 : Token(m2, s[j], m2[s[j] - 1]) = Token(m, s[j], m[s[j] - 1])
    BY <2>1, ChainKept
  <2> QED BY <2>2, <2>3 DEF Chain
<1>3. Token(m2, last, length) = Token(m, last, length)
  <2>1. last - 2 \in 0 .. last - 2
    BY <1>1
  <2> QED BY <2>1, SameToken DEF Closes, Kept
<1>4. ASSUME NEW j \in 1 .. n
      PROVE  /\ m2[s[j] - 1] \in Nat
             /\ Token(m2, s[j], m2[s[j] - 1]) = Tokens(m, s, n, length)[j]
  <2>1. CASE j = n
    <3>1. Tokens(m, s, n, length)[j] = Token(m, last, length)
      BY <1>1, <2>1 DEF Tokens
    <3> QED BY <1>1, <1>3, <2>1, <3>1 DEF Closes
  <2>2. CASE j # n
    <3>1. j \in 1 .. n - 1
      BY <1>1, <2>2
    <3>2. Tokens(m, s, n, length)[j] = Token(m, s[j], m[s[j] - 1])
      BY <2>2 DEF Tokens
    <3> QED BY <1>2, <3>1, <3>2
  <2> QED BY <2>1, <2>2
<1> QED BY <1>1, <1>2, <1>4 DEF After, Closes

LEMMA Joins ==
  ASSUME NEW m, NEW m2, NEW s, NEW n, NEW last, NEW length,
         Closes(m, m2, s, n, last, length),
         NEW q, NEW k, NEW end, NEW size2,
         Chain(m2, q, k, last + 2 + length, end)
  PROVE  /\ Chain(m2, Joined(s, n, q, k), n + k, 2, end)
         /\ Printable(m2, Joined(s, n, q, k), n + k, size2)
              = Printable(m, s, n, length) \o Tokens(m2, q, k, size2)
<1> DEFINE r == Joined(s, n, q, k)
           old == Printable(m, s, n, length)
           t == Tokens(m2, q, k, size2)
<1>1. n \in Nat \ {0} /\ s \in [1 .. n -> Nat] /\ s[1] = 2 /\ s[n] = last
  BY DEF Chain, Closes, Kept
<1>2. /\ k \in Nat \ {0} /\ q \in [1 .. k -> Nat]
      /\ q[1] = last + 2 + length /\ q[k] = end
      /\ \A j \in 1 .. k - 1 : m2[q[j] - 1] \in Nat /\ q[j + 1] = After(m2, q[j])
  BY DEF Chain
<1>3. /\ \A j \in 1 .. n : /\ m2[s[j] - 1] \in Nat
                           /\ Token(m2, s[j], m2[s[j] - 1]) = Tokens(m, s, n, length)[j]
      /\ \A j \in 1 .. n - 1 : s[j + 1] = After(m2, s[j])
      /\ After(m2, s[n]) = q[1]
  <2>1. /\ \A j \in 1 .. n : /\ m2[s[j] - 1] \in Nat
                             /\ Token(m2, s[j], m2[s[j] - 1]) = Tokens(m, s, n, length)[j]
        /\ \A j \in 1 .. n - 1 : s[j + 1] = After(m2, s[j])
        /\ After(m2, s[n]) = last + 2 + length
    BY Closed
  <2> QED BY <1>2, <2>1
<1>4. /\ n + k \in Nat \ {0} /\ r \in [1 .. n + k -> Nat] /\ r[1] = 2 /\ r[n + k] = end
      /\ \A j \in 1 .. n : j \in 1 .. n + k /\ r[j] = s[j]
      /\ \A j \in 1 .. k : n + j \in 1 .. n + k /\ r[n + j] = q[j]
  <2>1. n + k \in Nat \ {0} /\ \A j \in 1 .. n : j \in 1 .. n + k
    BY <1>1, <1>2
  <2>2. \A j \in 1 .. n : r[j] = s[j]
    BY <1>1, <1>2, <2>1 DEF Joined
  <2>3. \A j \in 1 .. k : n + j \in 1 .. n + k /\ ~(n + j <= n) /\ (n + j) - n = j
    BY <1>1, <1>2
  <2>4. \A j \in 1 .. k : r[n + j] = q[j]
    BY <2>3 DEF Joined
  <2>5. \A j \in 1 .. n + k : j \in 1 .. n \/ \E i \in 1 .. k : j = n + i
    <3>1. \A j \in 1 .. n + k : j \in 1 .. n \/ (j - n \in 1 .. k /\ j = n + (j - n))
      BY <1>1, <1>2
    <3> QED BY <3>1
  <2>6. r \in [1 .. n + k -> Nat]
    <3>1. \A j \in 1 .. n + k : r[j] \in Nat
      <4> SUFFICES ASSUME NEW j \in 1 .. n + k PROVE r[j] \in Nat
        OBVIOUS
      <4>1. CASE j \in 1 .. n
        BY <1>1, <2>2, <4>1
      <4>2. ASSUME NEW i \in 1 .. k, j = n + i PROVE r[j] \in Nat
        BY <1>2, <2>4, <4>2
      <4> QED BY <2>5, <4>1, <4>2
    <3>2. r = [j \in 1 .. n + k |-> r[j]]
      BY DEF Joined
    <3> HIDE DEF r
    <3> QED BY <3>1, <3>2
  <2>7. 1 \in 1 .. n /\ k \in 1 .. k
    BY <1>1, <1>2
  <2> HIDE DEF r
  <2> QED BY <1>1, <1>2, <2>1, <2>2, <2>3, <2>4, <2>6, <2>7
<1> HIDE DEF r
<1>5. Chain(m2, r, n + k, 2, end)
  <2>1. ASSUME NEW j \in 1 .. n + k - 1
        PROVE  m2[r[j] - 1] \in Nat /\ r[j + 1] = After(m2, r[j])
    <3>1. CASE j < n
      <4>1. j \in 1 .. n - 1 /\ j \in 1 .. n /\ j + 1 \in 1 .. n
        BY <1>1, <1>2, <3>1
      <4> QED BY <1>3, <1>4, <4>1
    <3>2. CASE j = n
      <4>1. n \in 1 .. n /\ 1 \in 1 .. k /\ r[n + 1] = q[1]
        BY <1>1, <1>2, <1>4
      <4> QED BY <1>3, <1>4, <3>2, <4>1
    <3>3. CASE ~(j < n) /\ j # n
      <4>1. PICK i : i = j - n
        OBVIOUS
      <4>2. /\ i \in 1 .. k - 1 /\ i \in 1 .. k /\ i + 1 \in 1 .. k
            /\ j = n + i /\ j + 1 = n + (i + 1)
        BY <1>1, <1>2, <3>3, <4>1
      <4>3. r[j] = q[i] /\ r[j + 1] = q[i + 1]
        BY <1>4, <4>2
      <4> QED BY <1>2, <4>2, <4>3
    <3>4. j < n \/ j = n \/ (~(j < n) /\ j # n)
      OBVIOUS
    <3> QED BY <3>1, <3>2, <3>3, <3>4
  <2>2. PICK N : N = n + k
    OBVIOUS
  <2>3. /\ N \in Nat \ {0} /\ r \in [1 .. N -> Nat] /\ r[1] = 2 /\ r[N] = end
        /\ \A j \in 1 .. N - 1 : m2[r[j] - 1] \in Nat /\ r[j + 1] = After(m2, r[j])
    <3>1. N \in Nat \ {0} /\ r \in [1 .. N -> Nat] /\ r[1] = 2 /\ r[N] = end
      BY <1>4, <2>2
    <3>2. \A j : j \in 1 .. N - 1 <=> j \in 1 .. n + k - 1
      BY <1>1, <1>2, <2>2
    <3>3. \A j \in 1 .. N - 1 : m2[r[j] - 1] \in Nat /\ r[j + 1] = After(m2, r[j])
      BY <2>1, <3>2
    <3> QED BY <3>1, <3>3
  <2>4. Chain(m2, r, N, 2, end)
    BY <2>3 DEF Chain
  <2> QED BY <2>2, <2>4
<1>6. IsList(old, n - 1) /\ IsList(t, k)
  BY <1>1, <1>2 DEF IsList, Printable, Tokens
<1>7. old \o t = [j \in 1 .. (n - 1) + k |-> IF j <= n - 1 THEN old[j] ELSE t[j - (n - 1)]]
  BY <1>6, ListConcat
<1>8. Printable(m2, r, n + k, size2)
        = [j \in 1 .. (n - 1) + k |-> Tokens(m2, r, n + k, size2)[j + 1]]
  <2>2. PICK N : N = n + k
    OBVIOUS
  <2>3. N - 1 = (n - 1) + k
    BY <1>1, <1>2, <2>2
  <2>4. Printable(m2, r, N, size2) = [j \in 1 .. N - 1 |-> Tokens(m2, r, N, size2)[j + 1]]
    BY DEF Printable
  <2> QED BY <2>2, <2>3, <2>4
<1>9. ASSUME NEW j \in 1 .. (n - 1) + k
      PROVE  Tokens(m2, r, n + k, size2)[j + 1]
               = IF j <= n - 1 THEN old[j] ELSE t[j - (n - 1)]
  <2>1. j + 1 \in 1 .. n + k
    BY <1>1, <1>2
  <2>2. Tokens(m2, r, n + k, size2)[j + 1]
          = Token(m2, r[j + 1], IF j + 1 = n + k THEN size2 ELSE m2[r[j + 1] - 1])
    BY <2>1 DEF Tokens
  <2>3. CASE j <= n - 1
    <3>1. j \in 1 .. n - 1 /\ j + 1 \in 1 .. n /\ j + 1 # n + k
      BY <1>1, <1>2, <2>3
    <3>2. old[j] = Tokens(m, s, n, length)[j + 1]
      BY <3>1 DEF Printable
    <3> QED BY <1>3, <1>4, <2>2, <2>3, <3>1, <3>2
  <2>4. CASE ~(j <= n - 1)
    <3>1. PICK i : i = j - (n - 1)
      OBVIOUS
    <3>2. i \in 1 .. k /\ j + 1 = n + i /\ (j + 1 = n + k <=> i = k)
      BY <1>1, <1>2, <2>4, <3>1
    <3>3. r[j + 1] = q[i]
      BY <1>4, <3>2
    <3>4. t[i] = Token(m2, q[i], IF i = k THEN size2 ELSE m2[q[i] - 1])
      BY <3>2 DEF Tokens
    <3> QED BY <2>2, <2>4, <3>1, <3>2, <3>3, <3>4
  <2> QED BY <2>3, <2>4
<1> HIDE DEF old, t
<1>10. Printable(m2, r, n + k, size2) = old \o t
  BY <1>7, <1>8, <1>9
<1> QED BY <1>5, <1>10 DEF r, old, t

\* A list d copied to another place.
Shifted(places, k, block) == [j \in 1 .. k |-> block + places[j]]

Copied(d, m, places, k, last, length, block) ==
  /\ last \in Nat /\ block \in Nat /\ length \in Nat \ {0}
  /\ Chain(d, places, k, 2, last)
  /\ \A i \in 0 .. last + length - 1 : m[block + i] = d[i]

LEMMA CopyOfList ==
  ASSUME NEW d, NEW m, NEW places, NEW k, NEW last, NEW length, NEW block,
         Copied(d, m, places, k, last, length, block)
  PROVE  /\ Chain(m, Shifted(places, k, block), k, block + 2, block + last)
         /\ Tokens(m, Shifted(places, k, block), k, length) = Tokens(d, places, k, length)
<1> DEFINE q == Shifted(places, k, block)
<1>1. /\ last \in Nat /\ block \in Nat /\ length \in Nat \ {0}
      /\ Chain(d, places, k, 2, last)
      /\ \A i \in 0 .. last + length - 1 : m[block + i] = d[i]
  BY DEF Copied
<1>2. /\ k \in Nat \ {0} /\ places \in [1 .. k -> Nat]
      /\ places[1] = 2 /\ places[k] = last
      /\ \A j \in 1 .. k - 1 : /\ d[places[j] - 1] \in Nat
                               /\ places[j + 1] = places[j] + 2 + d[places[j] - 1]
  BY <1>1 DEF Chain, After
<1>3. \A j \in 1 .. k : 2 <= places[j] /\ places[j] <= last
  BY <1>1, ChainIncreases
<1>4. ASSUME NEW j \in 1 .. k - 1
      PROVE  places[j] + 2 + d[places[j] - 1] <= last
  <2>1. j \in 1 .. k /\ k \in 1 .. k /\ j < k
    BY <1>2
  <2>2. After(d, places[j]) <= places[k]
    BY <1>1, <2>1, ChainOrdered
  <2> QED BY <1>2, <2>2 DEF After
<1>5. ASSUME NEW j \in 1 .. k
      PROVE  /\ q[j] = block + places[j] /\ q[j] \in Nat
             /\ m[q[j] - 1] = d[places[j] - 1] /\ m[q[j] - 2] = d[places[j] - 2]
  <2>1. q[j] = block + places[j] /\ q[j] \in Nat
    BY <1>1, <1>2 DEF Shifted
  <2>2. places[j] - 1 \in 0 .. last + length - 1 /\ places[j] - 2 \in 0 .. last + length - 1
    BY SMTT(30), <1>1, <1>2, <1>3
  <2>3. q[j] - 1 = block + (places[j] - 1) /\ q[j] - 2 = block + (places[j] - 2)
    BY <1>1, <1>2, <2>1
  <2> QED BY <1>1, <2>1, <2>2, <2>3
<1>6. Chain(m, q, k, block + 2, block + last)
  <2>1. q \in [1 .. k -> Nat]
    <3>1. q = [j \in 1 .. k |-> q[j]]
      BY DEF Shifted
    <3> HIDE DEF q
    <3> QED BY <1>5, <3>1
  <2>2. q[1] = block + 2 /\ q[k] = block + last
    <3>1. 1 \in 1 .. k /\ k \in 1 .. k
      BY <1>2
    <3> QED BY <1>2, <1>5, <3>1
  <2>3. ASSUME NEW j \in 1 .. k - 1
        PROVE  m[q[j] - 1] \in Nat /\ q[j + 1] = After(m, q[j])
    <3>1. j \in 1 .. k /\ j + 1 \in 1 .. k /\ d[places[j] - 1] \in Nat
      BY <1>2
    <3>2. q[j + 1] = block + (places[j] + 2 + d[places[j] - 1])
      BY <1>2, <1>5, <3>1
    <3>3. After(m, q[j]) = (block + places[j]) + 2 + d[places[j] - 1]
      BY <1>5, <3>1 DEF After
    <3>4. places[j] \in Nat
      BY <1>2, <3>1
    <3>5. block + (places[j] + 2 + d[places[j] - 1]) = (block + places[j]) + 2 + d[places[j] - 1]
      BY <1>1, <3>1, <3>4
    <3>6. m[q[j] - 1] \in Nat
      BY <1>5, <3>1
    <3> HIDE DEF q
    <3> QED BY <3>2, <3>3, <3>5, <3>6
  <2> HIDE DEF q
  <2> QED BY <1>2, <2>1, <2>2, <2>3 DEF Chain
<1> HIDE DEF q
<1>7. ASSUME NEW j \in 1 .. k, NEW l, l \in Nat, places[j] + l <= last + length
      PROVE  Token(m, q[j], l) = Token(d, places[j], l)
  <2>1. ASSUME NEW t \in 1 .. l - 1
        PROVE  m[q[j] + t - 1] = d[places[j] + t - 1]
    <3>1. /\ places[j] \in Nat /\ 2 <= places[j] /\ q[j] = block + places[j]
          /\ places[j] + l <= last + length
      BY <1>2, <1>3, <1>5, <1>7
    <3>2. /\ places[j] + t - 1 \in 0 .. last + length - 1
          /\ q[j] + t - 1 = block + (places[j] + t - 1)
      BY <1>1, <1>7, <3>1
    <3> QED BY <1>1, <3>2
  <2>2. m[q[j] - 2] = d[places[j] - 2]
    BY <1>5
  <2> QED BY <2>1, <2>2 DEF Token, Bytes
<1>8. ASSUME NEW j \in 1 .. k
      PROVE  Token(m, q[j], IF j = k THEN length ELSE m[q[j] - 1])
               = Token(d, places[j], IF j = k THEN length ELSE d[places[j] - 1])
  <2>1. CASE j = k
    BY SMTT(30), <1>1, <1>2, <1>7, <2>1
  <2>2. CASE j # k
    <3>1. j \in 1 .. k - 1
      BY <1>2, <2>2
    <3>2. /\ d[places[j] - 1] \in Nat
          /\ places[j] + d[places[j] - 1] <= last + length
      BY SMTT(30), <1>1, <1>2, <1>4, <3>1
    <3>3. Token(m, q[j], d[places[j] - 1]) = Token(d, places[j], d[places[j] - 1])
      BY <1>7, <3>2
    <3> QED BY <1>5, <2>2, <3>3
  <2> QED BY <2>1, <2>2
<1>9. Tokens(m, q, k, length) = Tokens(d, places, k, length)
  BY <1>8 DEF Tokens
<1> QED BY <1>6, <1>9 DEF q

-----------------------------------------------------------------------------
(* The state before and after a step                                        *)

\* Every byte in front of a place in the buffer can be a link.
LEMMA BytesLink ==
  ASSUME NEW m \in [Offsets -> Byte], NEW last, last \in Nat, last <= Length
  PROVE  Links(m, last)
<1>1. \A b \in Byte : b \in Nat
  BY ByteAssumption DEF Byte
<1>2. \A a \in 2 .. last : a - 1 \in Offsets
  BY LengthAssumption DEF Offsets
<1> QED BY <1>1, <1>2 DEF Links

LEMMA ToksNext ==
  ASSUME IInv', isTokenList', NEW s, NEW n, Chain(mem', s, n, 2, data')
  PROVE  StreamToks' = Printable(mem', s, n, size')
<1>1. mem' \in [Offsets -> Byte] /\ data' \in Nat /\ data' <= Length
  <2>1. data' + capacity' = Length /\ capacity' \in Nat /\ data' \in Nat
    BY DEF IInv, Sound, Placed, Accounting
  <2>2. \A a, b \in Nat : a + b = Length => a <= Length
    BY LengthAssumption
  <2> QED BY <2>1, <2>2 DEF IInv
<1>2. PICK m, last : m = mem' /\ last = data'
  OBVIOUS
<1>3. Links(m, last) /\ last \in Nat
  BY <1>1, <1>2, BytesLink
<1>4. Tail(ListFrom(m, 2, last, size')) = Printable(m, s, n, size')
  BY <1>2, <1>3, ToksOfChain
<1> QED BY <1>2, <1>4 DEF StreamToks, TokensUpTo

\* The snapshots stand for the same numbers of tokens as before.
LEMMA MarksSame ==
  ASSUME IInv, IInv', isTokenList, isTokenList', saved' = saved,
         NEW s, NEW n, Walk(s, n), Kept(mem, mem', s, n, 2, data)
  PROVE  StreamMarks' = StreamMarks
<1>1. PICK m, last : m = mem' /\ last = data
  OBVIOUS
<1>2. m \in [Offsets -> Byte] /\ last \in Nat /\ last <= Length
  <2>1. data + capacity = Length /\ capacity \in Nat /\ data \in Nat
    BY DEF IInv, Sound, Placed, Accounting
  <2> QED BY <1>1, <2>1, LengthAssumption DEF IInv
<1>3. Links(m, last) /\ Links(mem, last)
  BY <1>1, <1>2, BytesLink DEF IInv
<1>4. Chain(m, s, n, 2, last) /\ Chain(mem, s, n, 2, last)
  BY <1>1, ChainKept DEF Walk
<1>5. \A k \in 1 .. n : Len(Tail(ListFrom(m, 2, s[k], 1))) = k - 1
  BY <1>2, <1>3, <1>4, PlaceOfChain
<1>6. \A k \in 1 .. n : Len(Tail(ListFrom(mem, 2, s[k], 1))) = k - 1
  BY <1>2, <1>3, <1>4, PlaceOfChain
<1>7. \A x \in saved : Len(Tail(ListFrom(m, 2, x, 1))) = Len(Tail(ListFrom(mem, 2, x, 1)))
  BY <1>5, <1>6 DEF Walk
<1>8. /\ StreamMarks = {Len(Tail(ListFrom(mem, 2, x, 1))) : x \in saved}
      /\ StreamMarks' = {Len(Tail(ListFrom(m, 2, x, 1))) : x \in saved}
  BY <1>1 DEF StreamMarks, TokensUpTo
<1> QED BY <1>7, <1>8

\* A write from the byte in front of the current text on keeps the list.
LEMMA WriteKeeps ==
  ASSUME IInv, isTokenList, NEW s, NEW n, Walk(s, n),
         NEW w, DOMAIN w \subseteq Offsets, mem' = Poke(mem, w),
         \A i \in DOMAIN w : i >= data - 1
  PROVE  Kept(mem, mem', s, n, 2, data)
<1>1. data \in Nat /\ data + capacity = Length /\ capacity \in Nat /\ DOMAIN mem = Offsets
  BY DEF IInv, Sound, Placed, Accounting
<1>2. ASSUME NEW i \in 0 .. data - 2 PROVE mem'[i] = mem[i]
  <2>1. i \in Offsets /\ i \notin DOMAIN w
    BY <1>1, LengthAssumption DEF Offsets
  <2> QED BY <1>1, <2>1, PokeInside
<1>3. Chain(mem, s, n, 2, data)
  BY DEF Walk
<1> QED BY <1>1, <1>2, <1>3 DEF Kept

-----------------------------------------------------------------------------
(* The operations                                                           *)

\* The snapshots are places of the list the step leaves.
LEMMA ListedNext ==
  ASSUME NEW s, NEW n, Chain(mem', s, n, 2, data'),
         \A x \in saved' : \E k \in 1 .. n : s[k] = x
  PROVE  Listed'
BY DEF Listed, Walk

\* A step that closes the current token and puts a list behind it.
LEMMA Grows ==
  ASSUME IInv, IInv', isTokenList, isTokenList', saved' = saved,
         NEW s, NEW n, Walk(s, n), Closes(mem, mem', s, n, data, size),
         NEW q, NEW k, Chain(mem', q, k, data + 2 + size, data')
  PROVE  /\ Listed'
         /\ StreamToks = Printable(mem, s, n, size)
         /\ StreamToks' = StreamToks \o Tokens(mem', q, k, size')
         /\ StreamMarks' = StreamMarks
<1> DEFINE r == Joined(s, n, q, k)
           old == Printable(mem, s, n, size)
<1>1. /\ n \in Nat /\ k \in Nat
      /\ \A x \in saved : \E j \in 1 .. n : s[j] = x
  BY DEF Walk, Chain
<1>2. PICK m, end : m = mem' /\ end = data'
  OBVIOUS
<1>3. /\ Chain(mem', r, n + k, 2, data')
      /\ Printable(mem', r, n + k, size') = old \o Tokens(mem', q, k, size')
  <2>1. Closes(mem, m, s, n, data, size) /\ Chain(m, q, k, data + 2 + size, end)
    BY <1>2
  <2>2. /\ Chain(m, Joined(s, n, q, k), n + k, 2, end)
        /\ \A l : Printable(m, Joined(s, n, q, k), n + k, l) = old \o Tokens(m, q, k, l)
    BY <2>1, Joins
  <2> QED BY <1>2, <2>2
<1>4. StreamToks = old
  BY Mapped
<1>5. StreamToks' = Printable(mem', r, n + k, size')
  BY <1>3, ToksNext
<1>6. Listed'
  <2>1. \A j \in 1 .. n : j \in 1 .. n + k /\ r[j] = s[j]
    <3> HIDE DEF r
    <3>1. n \in Nat /\ k \in Nat
      BY <1>1
    <3>2. \A j \in 1 .. n : j \in 1 .. n + k /\ Joined(s, n, q, k)[j] = s[j]
      BY <3>1, JoinedPlaces
    <3> QED BY <3>2 DEF r
  <2>2. \A x \in saved' : \E j \in 1 .. n + k : r[j] = x
    BY <1>1, <2>1
  <2> HIDE DEF r
  <2> QED BY <1>3, <2>2, ListedNext
<1>7. StreamMarks' = StreamMarks
  BY MarksSame DEF Closes
<1> QED BY <1>3, <1>4, <1>5, <1>6, <1>7

LEMMA OpenStep ==
  ASSUME StreamInv, NEW type \in TokenTypes, AppendNew(type)
  PROVE  Listed' /\ Stream!Open(type)
<1> DEFINE next == data + size + 2
           W == {data - 1} \cup (next - 2) .. next
           w == [i \in W |-> CASE i = data - 1 -> size % (U8Max + 1)
                               [] i = next - 2 -> type
                               [] i = next - 1 -> 0
                               [] i = next     -> 0]
<1>1. /\ isTokenList /\ isTokenList' = isTokenList /\ isTokenList' /\ saved' = saved
      /\ TypeAt(data) # type /\ data' = next /\ size' = 1 /\ mem' = Poke(mem, w)
  BY DEF AppendNew
<1>2. IInv' /\ IInv
  BY AppendNewInv DEF StreamInv
<1>3. PICK s, n : Walk(s, n)
  BY <1>1 DEF StreamInv, Listed
<1>4. /\ n \in Nat \ {0} /\ s \in [1 .. n -> Nat] /\ s[n] = data
      /\ \A x \in saved : \E k \in 1 .. n : s[k] = x
  BY <1>3 DEF Walk, Chain
<1>5. /\ data \in Nat /\ data >= 2 /\ size \in Nat /\ size >= 1 /\ size <= U8Max
      /\ U8Max \in Nat /\ DOMAIN mem = Offsets
      /\ data + capacity = Length /\ capacity > size + 2 /\ Length \in Nat /\ capacity \in Nat
  BY <1>1, <1>2, FitsByte, ByteAssumption, LengthAssumption
     DEF IInv, Sound, Placed, Accounting, LengthFitsByte, AppendNew
<1>6. /\ DOMAIN w = W /\ W \subseteq Offsets /\ \A i \in W : i >= data - 1
      /\ data - 1 \in W /\ next - 2 \in W /\ next - 1 \in W
  BY <1>5 DEF Offsets
<1>7. w[data - 1] = size /\ w[next - 2] = type /\ w[next - 1] = 0
  <2>1. size % (U8Max + 1) = size
    BY <1>5
  <2>2. /\ next - 2 # data - 1 /\ next - 1 # data - 1 /\ next - 1 # next - 2
        /\ next # data - 1 /\ next # next - 1 /\ next # next - 2
    BY <1>5
  <2>3. w[data - 1] = size
    BY <1>6, <2>1, <2>2
  <2>4. w[next - 2] = type
    BY <1>6, <2>2
  <2>5. w[next - 1] = 0
    BY <1>6, <2>2
  <2> QED BY <2>3, <2>4, <2>5
<1>8. \A i \in 1 .. size - 1 : data + i - 1 \in Offsets \ W
  BY <1>5 DEF Offsets
<1> HIDE DEF w
<1>9. /\ mem'[data - 1] = size /\ mem'[next - 2] = type /\ mem'[next - 1] = 0
      /\ \A i \in Offsets \ W : mem'[i] = mem[i]
  <2>1. /\ \A i \in DOMAIN w : Poke(mem, w)[i] = w[i]
        /\ \A i \in Offsets \ DOMAIN w : Poke(mem, w)[i] = mem[i]
    BY <1>5, <1>6, PokeInside
  <2> QED BY <1>1, <1>6, <1>7, <2>1
<1>10. Closes(mem, mem', s, n, data, size)
  <2>1. Kept(mem, mem', s, n, 2, data)
    BY <1>1, <1>2, <1>3, <1>6, WriteKeeps
  <2> QED BY <1>5, <1>8, <1>9, <2>1 DEF Closes
<1> DEFINE q == [j \in 1 .. 1 |-> next]
           old == Printable(mem, s, n, size)
           fresh == [type |-> type, text |-> <<>>]
<1>11. Chain(mem', q, 1, data + 2 + size, next)
  BY <1>5 DEF Chain
<1>12. Tokens(mem', q, 1, 1) = <<fresh>>
  <2>1. Token(mem', next, 1) = fresh
    BY <1>9 DEF Token, Bytes
  <2> QED BY <2>1 DEF Tokens
<1> HIDE DEF q
<1>13. IsList(old, n - 1)
  BY <1>4 DEF IsList, Printable
<1>14. /\ Listed' /\ StreamMarks' = StreamMarks
       /\ StreamToks = old /\ StreamToks' = Append(old, fresh)
  <2>1. PICK k : k = 1
    OBVIOUS
  <2>2. Chain(mem', q, k, data + 2 + size, data')
    BY <1>1, <1>11, <2>1
  <2>3. /\ Listed' /\ StreamMarks' = StreamMarks
        /\ StreamToks = old /\ StreamToks' = StreamToks \o Tokens(mem', q, k, size')
    BY <1>1, <1>2, <1>3, <1>10, <2>2, Grows
  <2>4. old \o <<fresh>> = Append(old, fresh)
    BY <1>13, ListJoinsOne
  <2> QED BY <1>1, <1>12, <2>1, <2>3, <2>4
<1>15. old = <<>> \/ Stream!Last(old).type # type
  <2>1. CASE n = 1
    BY <2>1 DEF Printable
  <2>2. CASE n # 1
    <3>1. n - 1 \in 1 .. n - 1 /\ (n - 1) + 1 = n /\ n \in 1 .. n
      BY <1>4, <2>2
    <3>2. Len(old) = n - 1
      BY <1>13, ListIsSeq
    <3>3. old[n - 1] = Token(mem, data, size)
      BY <1>4, <3>1 DEF Printable, Tokens
    <3> QED BY <1>1, <3>2, <3>3 DEF Stream!Last, Token, TypeAt
  <2> QED BY <2>1, <2>2
<1> HIDE DEF old
<1> QED BY <1>1, <1>14, <1>15 DEF Stream!Open

LEMMA PredefinedStep ==
  ASSUME StreamInv, NEW p \in Predefined, PredefinedNew(p)
  PROVE  /\ Listed'
         /\ Stream!OpenList(ListFrom(p.data, Header, p.next, p.size - p.next))
<1> DEFINE block == data + size
           W == {data - 1} \cup block .. (block + p.size - 1)
           w == [i \in W |-> IF i = data - 1 THEN size % (U8Max + 1)
                                            ELSE p.data[i - block]]
           left == p.size - p.next
<1>1. /\ isTokenList /\ isTokenList' = isTokenList /\ isTokenList' /\ saved' = saved
      /\ capacity > size + p.size
      /\ data' = block + p.next /\ size' = left /\ mem' = Poke(mem, w)
  BY DEF PredefinedNew
<1>2. IInv' /\ IInv
  BY PredefinedNewInv DEF StreamInv
<1>3. PICK s, n : Walk(s, n)
  BY <1>1 DEF StreamInv, Listed
<1>4. /\ p.size \in Nat /\ p.next \in Nat /\ 2 <= p.next /\ p.next < p.size
      /\ p.data \in [0 .. p.size - 1 -> Byte] /\ Byte \subseteq Nat
  BY PredefinedAssumption, ByteAssumption DEF Byte
<1>5. /\ data \in Nat /\ data >= 2 /\ size \in Nat /\ size >= 1 /\ size <= U8Max
      /\ U8Max \in Nat /\ DOMAIN mem = Offsets
      /\ data + capacity = Length /\ Length \in Nat /\ capacity \in Nat
  BY <1>1, <1>2, FitsByte, ByteAssumption, LengthAssumption
     DEF IInv, Sound, Placed, Accounting, LengthFitsByte
<1>6. /\ DOMAIN w = W /\ W \subseteq Offsets /\ \A i \in W : i >= data - 1
      /\ data - 1 \in W
  <2>1. capacity > size + p.size
    BY <1>1
  <2>2. data - 1 \in Offsets /\ data - 1 \in W
    BY <1>5 DEF Offsets
  <2>3. \A i \in block .. (block + p.size - 1) : i \in Offsets /\ i >= data - 1
    BY SMTT(30), <1>4, <1>5, <2>1 DEF Offsets
  <2>4. \A i \in W : i \in Offsets /\ i >= data - 1
    BY <1>5, <2>2, <2>3
  <2>5. DOMAIN w = W
    OBVIOUS
  <2> QED BY <2>2, <2>4, <2>5
<1>7. /\ w[data - 1] = size
      /\ \A i \in 0 .. p.size - 1 : block + i \in W /\ w[block + i] = p.data[i]
  <2>1. size % (U8Max + 1) = size
    BY <1>5
  <2>2. ASSUME NEW i \in 0 .. p.size - 1
        PROVE  block + i \in W /\ w[block + i] = p.data[i]
    <3>1. block + i \in W /\ block + i # data - 1 /\ (block + i) - block = i
      BY <1>4, <1>5
    <3> QED BY <3>1
  <2> QED BY <1>6, <2>1, <2>2
<1>8. \A i \in 1 .. size - 1 : data + i - 1 \in Offsets \ W
  <2>1. capacity > size + p.size
    BY <1>1
  <2> SUFFICES ASSUME NEW i \in 1 .. size - 1 PROVE data + i - 1 \in Offsets \ W
    OBVIOUS
  <2>2. data + i - 1 \in Offsets
    BY <1>4, <1>5, <2>1 DEF Offsets
  <2>3. data + i - 1 # data - 1 /\ data + i - 1 < block
    BY <1>5
  <2>4. data + i - 1 \notin block .. (block + p.size - 1)
    BY <1>5, <2>3
  <2> QED BY <2>2, <2>3, <2>4
<1> HIDE DEF w
<1>9. /\ mem'[data - 1] = size
      /\ \A i \in 0 .. p.size - 1 : mem'[block + i] = p.data[i]
      /\ \A i \in Offsets \ W : mem'[i] = mem[i]
  <2>1. /\ \A i \in DOMAIN w : Poke(mem, w)[i] = w[i]
        /\ \A i \in Offsets \ DOMAIN w : Poke(mem, w)[i] = mem[i]
    BY <1>5, <1>6, PokeInside
  <2> QED BY <1>1, <1>6, <1>7, <2>1
<1>10. Closes(mem, mem', s, n, data, size)
  <2>1. Kept(mem, mem', s, n, 2, data)
    BY <1>1, <1>2, <1>3, <1>6, WriteKeeps
  <2> QED BY <1>5, <1>8, <1>9, <2>1 DEF Closes
<1>11. PICK k \in 1 .. p.size : \E places \in [1 .. k -> 2 .. p.next] :
         /\ places[1] = 2 /\ places[k] = p.next
         /\ \A j \in 1 .. k - 1 : places[j + 1] = places[j] + 2 + p.data[places[j] - 1]
  BY LinkAssumption DEF Linked
<1>12. PICK places \in [1 .. k -> 2 .. p.next] :
         /\ places[1] = 2 /\ places[k] = p.next
         /\ \A j \in 1 .. k - 1 : places[j + 1] = places[j] + 2 + p.data[places[j] - 1]
  BY <1>11
<1>13. \A a \in 2 .. p.next : p.data[a - 1] \in Nat
  <2>1. \A a \in 2 .. p.next : a - 1 \in 0 .. p.size - 1
    BY <1>4
  <2> QED BY <1>4, <2>1
<1>14. Chain(p.data, places, k, 2, p.next)
  <2>1. places \in [1 .. k -> Nat] /\ k \in Nat \ {0}
    BY <1>4
  <2>2. \A j \in 1 .. k - 1 : j \in 1 .. k
    BY <2>1
  <2>3. \A j \in 1 .. k - 1 : /\ p.data[places[j] - 1] \in Nat
                              /\ places[j + 1] = After(p.data, places[j])
    BY <1>12, <1>13, <2>2 DEF After
  <2> QED BY <1>12, <2>1, <2>3 DEF Chain
<1>15. Copied(p.data, mem', places, k, p.next, left, block)
  <2>1. /\ p.next \in Nat /\ block \in Nat /\ left \in Nat \ {0}
        /\ p.next + left - 1 = p.size - 1
    BY <1>4, <1>5
  <2> HIDE DEF block, left
  <2> QED BY <1>9, <1>14, <2>1 DEF Copied
<1> DEFINE q == Shifted(places, k, block)
           list == ListFrom(p.data, 2, p.next, left)
<1>16. /\ Chain(mem', q, k, data + 2 + size, data')
       /\ Tokens(mem', q, k, left) = list
  <2>1. PICK m, last, l, b : m = mem' /\ last = p.next /\ l = left /\ b = block
    OBVIOUS
  <2>2. /\ Chain(m, Shifted(places, k, b), k, b + 2, b + last)
        /\ Tokens(m, Shifted(places, k, b), k, l) = Tokens(p.data, places, k, l)
    BY <1>15, <2>1, CopyOfList
  <2>3. block + 2 = data + 2 + size
    BY <1>5
  <2>4. list = Tokens(p.data, places, k, left)
    <3>1. PICK first \in Nat, end \in Nat : first = 2 /\ end = p.next
      BY <1>4
    <3>2. Chain(p.data, places, k, first, end) /\ \A a \in first .. end : p.data[a - 1] \in Nat
      BY <1>13, <1>14, <3>1
    <3>3. ListFrom(p.data, first, end, left) = Tokens(p.data, places, k, left)
      BY <3>2, ListOfTokens
    <3> QED BY <3>1, <3>3
  <2> QED BY <1>1, <2>1, <2>2, <2>3, <2>4
<1> HIDE DEF q, list, left
<1>17. /\ Listed' /\ StreamMarks' = StreamMarks
       /\ StreamToks' = StreamToks \o list
  BY <1>1, <1>2, <1>3, <1>10, <1>16, Grows
<1>18. Stream!OpenList(list)
  BY <1>1, <1>17 DEF Stream!OpenList
<1> QED BY <1>17, <1>18 DEF list, left

LEMMA TextExtended ==
  ASSUME NEW ty, NEW tx, NEW e, e = [type |-> ty, text |-> tx], NEW fill
  PROVE  [e EXCEPT !.text = @ \o fill] = [type |-> ty, text |-> tx \o fill]
<1>1. PICK v : v = tx \o fill
  OBVIOUS
<1>2. e.text = tx
  OBVIOUS
<1>3. [e EXCEPT !.text = v] = [type |-> ty, text |-> v]
  OBVIOUS
<1>4. v = e.text \o fill
  BY <1>1, <1>2
<1>5. [e EXCEPT !.text = @ \o fill] = [e EXCEPT !.text = v]
  BY ONLY <1>4
<1> QED BY <1>1, <1>3, <1>5

\* The text of the current string grows by what is written, the bytes in
\* front of its end stay.
LEMMA TextGrows ==
  ASSUME IInv, NEW n, n \in Nat \ {0}, NEW c, TextNew(n, c), IInv'
  PROVE  /\ Bytes(mem', data, (size + n) - 1) = Bytes(mem, data, size - 1) \o [i \in 1 .. n |-> c]
         /\ \E w : /\ mem' = Poke(mem, w) /\ DOMAIN w \subseteq Offsets
                   /\ \A i \in DOMAIN w : i >= data + size - 1
<1> DEFINE end == data + size + n - 1
           w == [i \in (data + size - 1) .. end |-> IF i = end THEN 0 ELSE c]
           fill == [i \in 1 .. n |-> c]
           old == Bytes(mem, data, size - 1)
<1>1. mem' = Poke(mem, w) /\ size + n <= limit
  BY DEF TextNew
<1>2. data \in Nat /\ size \in Nat /\ size >= 1 /\ DOMAIN mem = Offsets
  BY DEF IInv, Sound, Placed, Accounting
<1>3. DOMAIN w = (data + size - 1) .. end /\ DOMAIN w \subseteq Offsets
  <2>1. DOMAIN Poke(mem, w) = Offsets
    BY <1>1 DEF IInv, Sound, Placed
  <2>2. DOMAIN w \subseteq Offsets
    <3> HIDE DEF w
    <3> QED BY <2>1 DEF Poke
  <2> QED BY <2>2
<1>4. \A i \in (data + size - 1) .. (end - 1) : i \in DOMAIN w /\ w[i] = c
  BY <1>2
<1>5. \A i \in DOMAIN w : i >= data + size - 1
  BY <1>2
<1> HIDE DEF w
<1>6. /\ \A i \in (data + size - 1) .. (end - 1) : mem'[i] = c
      /\ \A i \in Offsets : i < data + size - 1 => mem'[i] = mem[i]
  <2>1. /\ \A i \in DOMAIN w : Poke(mem, w)[i] = w[i]
        /\ \A i \in Offsets \ DOMAIN w : Poke(mem, w)[i] = mem[i]
    BY <1>2, <1>3, PokeInside
  <2>2. \A i \in Offsets : i < data + size - 1 => i \notin DOMAIN w
    BY <1>2, <1>3
  <2> QED BY <1>1, <1>4, <2>1, <2>2
<1>7. \A i \in 0 .. data + size - 2 : i \in Offsets
  <2>1. data + size - 1 \in Offsets
    <3>1. data + size - 1 \in (data + size - 1) .. end
      BY <1>2
    <3> QED BY <1>3, <3>1
  <2> QED BY <1>2, <2>1, LengthAssumption DEF Offsets
<1>8. IsList(old, size - 1) /\ IsList(fill, n)
  <2>1. IsList(old, size - 1)
    BY <1>2 DEF IsList, Bytes
  <2>2. n \in Nat /\ fill = [i \in 1 .. n |-> fill[i]]
    OBVIOUS
  <2> HIDE DEF old, fill
  <2> QED BY <2>1, <2>2 DEF IsList
<1>9. old \o fill = [i \in 1 .. (size - 1) + n |->
                       IF i <= size - 1 THEN old[i] ELSE fill[i - (size - 1)]]
  <2>1. PICK a : a = size - 1
    OBVIOUS
  <2> HIDE DEF old, fill
  <2>2. IsList(old, a) /\ IsList(fill, n)
    BY <1>8, <2>1
  <2>3. old \o fill = [i \in 1 .. a + n |-> IF i <= a THEN old[i] ELSE fill[i - a]]
    BY <2>2, ListConcat
  <2> QED BY <2>1, <2>3
<1>10. Bytes(mem', data, (size + n) - 1) = [i \in 1 .. (size - 1) + n |-> mem'[data + i - 1]]
  <2>1. (size + n) - 1 = (size - 1) + n
    BY <1>2
  <2> QED BY <2>1 DEF Bytes
<1>11. ASSUME NEW i \in 1 .. (size - 1) + n
       PROVE  mem'[data + i - 1] = IF i <= size - 1 THEN old[i] ELSE fill[i - (size - 1)]
  <2>1. CASE i <= size - 1
    <3>1. i \in 1 .. size - 1 /\ data + i - 1 \in 0 .. data + size - 2
          /\ data + i - 1 < data + size - 1
      BY <1>2, <2>1
    <3>2. old[i] = mem[data + i - 1]
      BY <3>1 DEF Bytes
    <3> QED BY <1>6, <1>7, <2>1, <3>1, <3>2
  <2>2. CASE ~(i <= size - 1)
    <3>1. i - (size - 1) \in 1 .. n /\ data + i - 1 \in (data + size - 1) .. (end - 1)
      BY <1>2, <2>2
    <3> QED BY <1>6, <2>2, <3>1
  <2> QED BY <2>1, <2>2
<1> HIDE DEF old, fill
<1>12. Bytes(mem', data, (size + n) - 1) = old \o fill
  BY <1>9, <1>10, <1>11
<1> QED BY <1>1, <1>3, <1>5, <1>12 DEF old, fill

LEMMA WriteStep ==
  ASSUME StreamInv, NEW n \in 1 .. MaxText, NEW c \in Chars, TextNew(n, c)
  PROVE  Listed' /\ Stream!Write(n, c)
<1> DEFINE fill == [i \in 1 .. n |-> c]
           grown == Bytes(mem, data, size - 1) \o fill
<1>1. /\ HasString /\ size' = size + n /\ isTokenList' = isTokenList
      /\ data' = data /\ saved' = saved
  BY DEF TextNew
<1>2. IInv' /\ IInv
  BY TextNewInv DEF StreamInv
<1>3. /\ data \in Nat /\ size \in Nat /\ size >= 1 /\ n \in Nat \ {0}
  BY <1>2 DEF IInv, Sound, Placed, Accounting
<1>4. PICK w : /\ mem' = Poke(mem, w) /\ DOMAIN w \subseteq Offsets
               /\ \A i \in DOMAIN w : i >= data + size - 1
  BY <1>2, <1>3, TextGrows
<1>5. Bytes(mem', data, (size + n) - 1) = grown
  BY <1>2, <1>3, TextGrows
<1>6. CASE isTokenList
  <2>1. isTokenList' /\ TypeAt(data) # 0
    BY <1>1, <1>6 DEF HasString
  <2>2. PICK s, k : Walk(s, k)
    BY <1>6 DEF StreamInv, Listed
  <2>3. /\ k \in Nat \ {0} /\ s \in [1 .. k -> Nat] /\ s[1] = 2 /\ s[k] = data
        /\ Chain(mem, s, k, 2, data)
        /\ \A x \in saved : \E j \in 1 .. k : s[j] = x
    BY <2>2 DEF Walk, Chain
  <2>4. k # 1
    BY <1>2, <1>6, <2>1, <2>3 DEF IInv, Sound, Placeholder
  <2>5. Kept(mem, mem', s, k, 2, data)
    <3>1. \A i \in DOMAIN w : i >= data - 1
      BY <1>3, <1>4 DEF Offsets
    <3> QED BY <1>2, <1>4, <1>6, <2>2, <3>1, WriteKeeps
  <2>6. /\ Chain(mem', s, k, 2, data)
        /\ \A j \in 1 .. k - 1 : Token(mem', s[j], mem'[s[j] - 1]) = Token(mem, s[j], mem[s[j] - 1])
    BY <2>5, ChainKept
  <2>7. StreamMarks' = StreamMarks
    BY <1>1, <1>2, <1>6, <2>1, <2>2, <2>5, MarksSame
  <2>8. Listed'
    BY <1>1, <2>3, <2>6, ListedNext
  <2> DEFINE old == Printable(mem, s, k, size)
             new == Printable(mem', s, k, size + n)
  <2>9. StreamToks = old /\ StreamToks' = new
    <3>1. StreamToks = old
      BY <1>2, <1>6, <2>2, Mapped
    <3>2. Chain(mem', s, k, 2, data')
      BY <1>1, <2>6
    <3>3. StreamToks' = Printable(mem', s, k, size')
      BY <1>2, <2>1, <3>2, ToksNext
    <3> QED BY <1>1, <3>1, <3>3
  <2>10. IsList(old, k - 1) /\ Len(old) = k - 1 /\ old # <<>>
    <3>1. IsList(old, k - 1)
      BY <2>3 DEF IsList, Printable
    <3>2. Len(old) = k - 1
      BY <3>1, ListIsSeq
    <3>3. k - 1 # 0
      BY <2>3, <2>4
    <3> QED BY <3>1, <3>2, <3>3
  <2>11. ASSUME NEW j \in 1 .. k - 1
         PROVE  new[j] = IF j = k - 1 THEN [old[j] EXCEPT !.text = @ \o fill] ELSE old[j]
    <3>1. j + 1 \in 1 .. k
      BY <2>3
    <3>2. /\ old[j] = Token(mem, s[j + 1], IF j + 1 = k THEN size ELSE mem[s[j + 1] - 1])
          /\ new[j] = Token(mem', s[j + 1], IF j + 1 = k THEN size + n ELSE mem'[s[j + 1] - 1])
      BY <3>1 DEF Printable, Tokens
    <3>3. CASE j = k - 1
      <4>1. j + 1 = k
        BY <2>3, <3>3
      <4>2. old[j] = [type |-> mem[data - 2], text |-> Bytes(mem, data, size - 1)]
        BY <2>3, <3>2, <4>1 DEF Token
      <4>3. new[j] = [type |-> mem'[data - 2], text |-> grown]
        BY <1>5, <2>3, <3>2, <4>1 DEF Token
      <4>4. mem'[data - 2] = mem[data - 2]
        <5>1. data >= 2
          BY <1>2, <1>6 DEF IInv, Sound, Accounting
        <5>2. data - 2 \in 0 .. data - 2
          BY <1>3, <5>1
        <5> QED BY <2>5, <5>2 DEF Kept
      <4>5. [old[j] EXCEPT !.text = @ \o fill]
              = [type |-> mem[data - 2], text |-> Bytes(mem, data, size - 1) \o fill]
        <5> HIDE DEF old, fill
        <5>1. PICK e, ty, tx : /\ e = old[j] /\ ty = mem[data - 2]
                               /\ tx = Bytes(mem, data, size - 1)
          OBVIOUS
        <5>2. e = [type |-> ty, text |-> tx]
          BY <4>2, <5>1
        <5>3. [e EXCEPT !.text = @ \o fill] = [type |-> ty, text |-> tx \o fill]
          BY <5>2, TextExtended
        <5> QED BY <5>1, <5>3
      <4> QED BY <3>3, <4>3, <4>4, <4>5
    <3>4. CASE j # k - 1
      <4>1. j + 1 \in 1 .. k - 1 /\ j + 1 # k
        BY <2>3, <3>4
      <4> QED BY <2>6, <3>2, <3>4, <4>1
    <3> QED BY <3>3, <3>4
  <2>12. new = [old EXCEPT ![Len(old)].text = @ \o fill]
    <3>1. /\ old = [j \in 1 .. k - 1 |-> old[j]]
          /\ new = [j \in 1 .. k - 1 |-> new[j]]
      BY DEF Printable
    <3> HIDE DEF old, new, fill
    <3>2. [old EXCEPT ![k - 1].text = @ \o fill]
            = [j \in 1 .. k - 1 |-> IF j = k - 1 THEN [old[j] EXCEPT !.text = @ \o fill] ELSE old[j]]
      BY <3>1
    <3> QED BY <2>10, <2>11, <3>1, <3>2
  <2> HIDE DEF old, new
  <2>13. Stream!Write(n, c)
    BY <1>1, <2>7, <2>9, <2>10, <2>12 DEF Stream!Write
  <2> QED BY <2>8, <2>13
<1>7. CASE ~isTokenList
  <2>1. ~isTokenList' /\ Listed'
    BY <1>1, <1>7 DEF Listed
  <2>2. /\ StreamToks = <<[type |-> "string", text |-> Bytes(mem, data, size - 1)]>>
        /\ StreamToks' = <<[type |-> "string", text |-> grown]>>
    BY <1>1, <1>5, <1>7, <2>1 DEF StreamToks, Text
  <2>3. StreamMarks' = StreamMarks
    BY <1>1, <1>7, <2>1 DEF StreamMarks
  <2>4. /\ Len(StreamToks) = 1 /\ StreamToks # <<>>
        /\ [StreamToks EXCEPT ![1].text = @ \o fill] = <<[type |-> "string", text |-> grown]>>
    <3>1. PICK e : e = [type |-> "string", text |-> Bytes(mem, data, size - 1)]
      OBVIOUS
    <3>2. PICK q : q = <<e>>
      OBVIOUS
    <3> HIDE DEF fill
    <3>3. q = [j \in 1 .. 1 |-> q[j]] /\ q[1] = e /\ Len(q) = 1 /\ q # <<>>
      BY ONLY <3>2
    <3>4. [q EXCEPT ![1].text = @ \o fill]
            = [j \in 1 .. 1 |-> IF j = 1 THEN [q[j] EXCEPT !.text = @ \o fill] ELSE q[j]]
      BY ONLY <3>3
    <3>5. [e EXCEPT !.text = @ \o fill] = [type |-> "string", text |-> grown]
      BY <3>1, TextExtended
    <3>6. \A x : [j \in 1 .. 1 |-> x] = <<x>>
      OBVIOUS
    <3>7. [q EXCEPT ![1].text = @ \o fill] = <<[e EXCEPT !.text = @ \o fill]>>
      <4>1. PICK x : x = [e EXCEPT !.text = @ \o fill]
        OBVIOUS
      <4>2. ASSUME NEW j \in 1 .. 1
            PROVE  (IF j = 1 THEN [q[j] EXCEPT !.text = @ \o fill] ELSE q[j]) = x
        <5>1. j = 1 /\ q[j] = e
          BY <3>3
        <5>2. [q[j] EXCEPT !.text = @ \o fill] = x
          BY ONLY <4>1, <5>1
        <5> QED BY <5>1, <5>2
      <4>3. [q EXCEPT ![1].text = @ \o fill] = [j \in 1 .. 1 |-> x]
        BY <3>4, <4>2
      <4> QED BY <3>6, <4>1, <4>3
    <3>8. StreamToks = q
      BY <2>2, <3>1, <3>2
    <3> QED BY <3>3, <3>5, <3>7, <3>8
  <2>5. Stream!Write(n, c)
    BY <1>1, <2>2, <2>3, <2>4 DEF Stream!Write
  <2> QED BY <2>1, <2>5
<1> QED BY <1>6, <1>7

LEMMA RememberStep ==
  ASSUME StreamInv, Remember
  PROVE  Listed' /\ Stream!Mark
<1>1. /\ saved' = saved \cup {Snapshot} /\ isTokenList' = isTokenList
      /\ data' = data /\ size' = size /\ mem' = mem
  BY DEF Remember
<1>2. IInv
  BY DEF StreamInv
<1>3. data \in Nat /\ size \in Nat /\ size >= 1
  BY <1>2 DEF IInv, Sound, Placed, Accounting
<1>4. StreamToks' = StreamToks
  BY <1>1 DEF StreamToks, TokensUpTo, Text
<1>5. CASE isTokenList
  <2>1. PICK s, n : Walk(s, n)
    BY <1>5 DEF StreamInv, Listed
  <2>2. /\ n \in Nat \ {0} /\ s[n] = data /\ n \in 1 .. n
        /\ Chain(mem, s, n, 2, data)
        /\ \A x \in saved : \E k \in 1 .. n : s[k] = x
    BY <2>1 DEF Walk, Chain
  <2>3. Listed'
    <3>1. \A x \in saved' : \E k \in 1 .. n : s[k] = x
      BY <1>1, <1>5, <2>2 DEF Snapshot
    <3>2. Chain(mem', s, n, 2, data')
      BY <1>1, <2>2
    <3> QED BY <3>1, <3>2, ListedNext
  <2>4. Len(TokensUpTo(data, 1)) = n - 1
    BY ZenonT(40), <1>2, <1>5, <2>2, LinksInside, PlaceOfChain DEF TokensUpTo
  <2>5. Len(StreamToks) = n - 1
    <3>1. StreamToks = Printable(mem, s, n, size)
      BY <1>2, <1>5, <2>1, Mapped
    <3>2. IsList(Printable(mem, s, n, size), n - 1)
      BY <2>2 DEF IsList, Printable
    <3> QED BY <3>1, <3>2, ListIsSeq
  <2>6. /\ StreamMarks = {Len(TokensUpTo(x, 1)) : x \in saved}
        /\ StreamMarks' = {Len(TokensUpTo(x, 1)) : x \in saved \cup {data}}
    BY <1>1, <1>5 DEF StreamMarks, TokensUpTo, Snapshot
  <2>7. StreamMarks' = StreamMarks \cup {Len(TokensUpTo(data, 1))}
    BY <2>6
  <2> QED BY <1>1, <1>4, <1>5, <2>3, <2>4, <2>5, <2>7 DEF Stream!Mark, Stream!Place
<1>6. CASE ~isTokenList
  <2>1. Listed'
    BY <1>1, <1>6 DEF Listed
  <2>2. Len(StreamToks[1].text) = size - 1
    <3>1. StreamToks[1].text = Bytes(mem, data, size - 1)
      BY <1>6 DEF StreamToks, Text
    <3>2. IsList(Bytes(mem, data, size - 1), size - 1)
      BY <1>3 DEF IsList, Bytes
    <3> QED BY <3>1, <3>2, ListIsSeq
  <2>3. /\ StreamMarks = {x - 1 : x \in saved}
        /\ StreamMarks' = {x - 1 : x \in saved \cup {size}}
    BY <1>1, <1>6 DEF StreamMarks, Snapshot
  <2>4. StreamMarks' = StreamMarks \cup {size - 1}
    BY <2>3
  <2> QED BY <1>1, <1>4, <1>6, <2>1, <2>2, <2>4 DEF Stream!Mark, Stream!Place
<1> QED BY <1>5, <1>6

LEMMA RestoreListStep ==
  ASSUME StreamInv, isTokenList, NEW state \in saved, Restore(state)
  PROVE  Listed' /\ \E k \in StreamMarks : Stream!Rewind(k)
<1>1. /\ isTokenList' = isTokenList /\ isTokenList' /\ saved' = {x \in saved : x <= state}
      /\ data' = state /\ size' = 1 /\ mem' = Poke(mem, [i \in {state} |-> 0])
  BY DEF Restore, RestoreTokens, RestoreString
<1>2. IInv' /\ IInv
  BY RestoreInv DEF StreamInv
<1>3. PICK s, n : Walk(s, n)
  BY DEF StreamInv, Listed
<1>4. /\ n \in Nat \ {0} /\ s \in [1 .. n -> Nat] /\ s[n] = data
      /\ Chain(mem, s, n, 2, data)
      /\ \A x \in saved : \E k \in 1 .. n : s[k] = x
  BY <1>3 DEF Walk, Chain
<1>5. PICK k \in 1 .. n : s[k] = state
  BY <1>4
<1>6. /\ data \in Nat /\ size \in Nat /\ DOMAIN mem = Offsets /\ state \in Nat /\ 2 <= state
      /\ state <= data /\ data + capacity = Length /\ capacity \in Nat /\ size >= 1
      /\ size <= limit /\ limit \in Nat /\ limit <= capacity
  BY <1>2 DEF IInv, Sound, Placed, Accounting, SavedInRange
<1>7. /\ mem'[state] = 0 /\ \A i \in 0 .. state - 2 : mem'[i] = mem[i]
  <2> DEFINE w == [i \in {state} |-> 0]
  <2>1. state \in Offsets
    BY <1>6, LengthAssumption DEF Offsets
  <2>2. DOMAIN w = {state} /\ w[state] = 0
    OBVIOUS
  <2> HIDE DEF w
  <2>3. /\ \A i \in DOMAIN w : Poke(mem, w)[i] = w[i]
        /\ \A i \in Offsets \ DOMAIN w : Poke(mem, w)[i] = mem[i]
    BY <1>6, <2>1, <2>2, PokeInside
  <2>4. \A i \in 0 .. state - 2 : i \in Offsets /\ i # state
    BY <1>6, LengthAssumption DEF Offsets
  <2> QED BY <1>1, <2>2, <2>3, <2>4 DEF w
<1> DEFINE r == [j \in 1 .. k |-> s[j]]
           old == Printable(mem, s, n, size)
           new == Printable(mem', r, k, 1)
<1>8. Links(mem, data) /\ Chain(mem, r, k, 2, state) /\ \A j \in 1 .. k : r[j] = s[j]
  <2>1. Links(mem, data)
    BY <1>2, LinksInside
  <2>2. Chain(mem, [j \in 1 .. k |-> s[j]], k, 2, s[k])
    BY <1>4, <1>6, <2>1, PlaceOfChain
  <2> QED BY <1>5, <2>1, <2>2
<1> HIDE DEF r
<1>9. /\ Chain(mem', r, k, 2, state)
      /\ \A j \in 1 .. k - 1 : Token(mem', r[j], mem'[r[j] - 1]) = Token(mem, r[j], mem[r[j] - 1])
  <2>1. Kept(mem, mem', r, k, 2, state)
    BY <1>6, <1>7, <1>8 DEF Kept
  <2> QED BY <2>1, ChainKept
<1>10. StreamToks = old /\ StreamToks' = new
  <2>1. StreamToks = old
    BY <1>2, <1>3, Mapped
  <2>2. Chain(mem', r, k, 2, data')
    BY <1>1, <1>9
  <2>3. StreamToks' = Printable(mem', r, k, size')
    BY <1>1, <1>2, <2>2, ToksNext
  <2> QED BY <1>1, <2>1, <2>3
<1>11. /\ k \in Nat \ {0} /\ k <= n /\ k - 1 \in 0 .. n - 1 /\ n - 1 \in Nat
       /\ IsList(old, n - 1) /\ IsList(new, k - 1)
  BY <1>4 DEF IsList, Printable
<1>12. ASSUME NEW j \in 1 .. k - 1
       PROVE  new[j] = IF j = k - 1 THEN [type |-> old[j].type, text |-> <<>>] ELSE old[j]
  <2>1. j + 1 \in 1 .. k /\ j \in 1 .. n - 1 /\ j + 1 \in 1 .. n
    BY <1>4, <1>11
  <2>2. /\ old[j] = Token(mem, s[j + 1], IF j + 1 = n THEN size ELSE mem[s[j + 1] - 1])
        /\ new[j] = Token(mem', r[j + 1], IF j + 1 = k THEN 1 ELSE mem'[r[j + 1] - 1])
        /\ r[j + 1] = s[j + 1]
    BY <1>8, <2>1 DEF Printable, Tokens
  <2>3. CASE j = k - 1
    <3>1. j + 1 = k
      BY <1>11, <2>3
    <3>2. new[j] = [type |-> mem'[state - 2], text |-> <<>>]
      BY <1>5, <2>2, <3>1 DEF Token, Bytes
    <3>3. old[j].type = mem[state - 2]
      BY <1>5, <2>2, <3>1 DEF Token
    <3>4. mem'[state - 2] = mem[state - 2]
      <4>1. state - 2 \in 0 .. state - 2
        BY <1>6
      <4> QED BY <1>7, <4>1
    <3> QED BY <2>3, <3>2, <3>3, <3>4
  <2>4. CASE j # k - 1
    <3>1. j + 1 \in 1 .. k - 1 /\ j + 1 # k /\ j + 1 # n
      BY <1>11, <2>1, <2>4
    <3> QED BY <1>9, <2>2, <2>4, <3>1
  <2> QED BY <2>3, <2>4
<1>13. new = Stream!CutTo(k - 1)
  <2>1. /\ old = [j \in 1 .. n - 1 |-> old[j]]
        /\ new = [j \in 1 .. k - 1 |-> new[j]]
    BY <1>11 DEF IsList
  <2> HIDE DEF old, new
  <2>2. CASE k - 1 = 0
    <3>1. Len(new) = 0
      BY <1>11, <2>2, ListIsSeq
    <3>2. new = <<>>
      BY <2>1, <2>2
    <3> QED BY <2>2, <3>2 DEF Stream!CutTo
  <2>3. CASE k - 1 # 0
    <3>1. PICK c : c = k - 1
      OBVIOUS
    <3>2. c \in 0 .. n - 1 /\ c # 0 /\ c \in 1 .. c
      BY <1>11, <2>3, <3>1
    <3>3. SubSeq(old, 1, c) = [j \in 1 .. c |-> old[j]]
      BY <1>11, <3>2, ListCut
    <3>4. [SubSeq(old, 1, c) EXCEPT ![c].text = <<>>]
            = [j \in 1 .. c |-> IF j = c THEN [old[c] EXCEPT !.text = <<>>] ELSE old[j]]
      BY <3>2, <3>3
    <3>5. [old[c] EXCEPT !.text = <<>>] = [type |-> old[c].type, text |-> <<>>]
      <4>1. PICK ty, tx : old[c] = [type |-> ty, text |-> tx]
        <5>1. c \in 1 .. n - 1
          BY <1>11, <3>2
        <5>2. c + 1 \in 1 .. n
          BY <1>4, <5>1
        <5>3. old[c] = Token(mem, s[c + 1], IF c + 1 = n THEN size ELSE mem[s[c + 1] - 1])
          BY <5>1, <5>2 DEF old, Printable, Tokens
        <5> QED BY <5>3 DEF Token
      <4> QED BY <4>1
    <3>6. \A j \in 1 .. c : new[j] = IF j = c THEN [type |-> old[c].type, text |-> <<>>] ELSE old[j]
      BY <1>12, <3>1
    <3>7. new = [SubSeq(old, 1, c) EXCEPT ![c].text = <<>>]
      BY ZenonT(40), <2>1, <3>1, <3>4, <3>5, <3>6
    <3> QED BY <1>10, <2>3, <3>1, <3>7 DEF Stream!CutTo
  <2> QED BY <2>2, <2>3
<1>14. /\ \A j \in 1 .. n : Len(Tail(ListFrom(mem, 2, s[j], 1))) = j - 1
       /\ \A j \in 1 .. k : Len(Tail(ListFrom(mem', 2, s[j], 1))) = j - 1
  <2>1. \A j \in 1 .. n : Len(Tail(ListFrom(mem, 2, s[j], 1))) = j - 1
    <3>1. Chain(mem, s, n, 2, data) /\ data \in Nat /\ Links(mem, data)
      BY <1>4, <1>6, <1>8
    <3> QED BY ONLY <3>1, PlaceOfChain
  <2>2. PICK m, last : m = mem' /\ last = state
    OBVIOUS
  <2>3. last \in Nat /\ last <= Length /\ m \in [Offsets -> Byte]
    BY <1>2, <1>6, <2>2, LengthAssumption DEF IInv
  <2>4. Links(m, last) /\ Chain(m, r, k, 2, last)
    BY <1>9, <2>2, <2>3, BytesLink
  <2>5. \A j \in 1 .. k : Len(Tail(ListFrom(m, 2, r[j], 1))) = j - 1
    BY <2>3, <2>4, PlaceOfChain
  <2> QED BY <1>8, <2>1, <2>2, <2>5
<1>15. /\ StreamMarks = {Len(Tail(ListFrom(mem, 2, x, 1))) : x \in saved}
       /\ StreamMarks' = {Len(Tail(ListFrom(mem', 2, x, 1))) : x \in saved'}
  BY <1>1 DEF StreamMarks, TokensUpTo
<1>16. \A x \in saved : \E j \in 1 .. n : s[j] = x /\ (x <= state <=> j \in 1 .. k)
  <2> SUFFICES ASSUME NEW x \in saved
               PROVE  \E j \in 1 .. n : s[j] = x /\ (x <= state <=> j \in 1 .. k)
    OBVIOUS
  <2>1. PICK j \in 1 .. n : s[j] = x
    BY <1>4
  <2>2. k < j <=> s[k] < s[j]
    BY <1>4, ChainIncreases
  <2>3. s[j] \in Nat /\ s[k] \in Nat
    BY <1>4
  <2> QED BY <1>5, <1>11, <2>1, <2>2, <2>3
<1>17. StreamMarks' = {m \in StreamMarks : m <= k - 1}
  <2>1. ASSUME NEW x \in saved'
        PROVE  Len(Tail(ListFrom(mem', 2, x, 1))) \in {m \in StreamMarks : m <= k - 1}
    <3>1. PICK j \in 1 .. k : s[j] = x
      BY <1>1, <1>16
    <3>2. j \in 1 .. n /\ j - 1 <= k - 1
      BY <1>4, <1>11
    <3>3. x \in saved
      BY <1>1
    <3>4. Len(Tail(ListFrom(mem', 2, x, 1))) = j - 1
      BY <1>14, <3>1
    <3>5. Len(Tail(ListFrom(mem, 2, x, 1))) = j - 1
      BY <1>14, <3>1, <3>2
    <3>6. j - 1 \in StreamMarks
      BY <1>15, <3>3, <3>5
    <3> QED BY <3>2, <3>4, <3>6
  <2>2. ASSUME NEW x \in saved, Len(Tail(ListFrom(mem, 2, x, 1))) <= k - 1
        PROVE  Len(Tail(ListFrom(mem, 2, x, 1))) \in StreamMarks'
    <3>1. PICK j \in 1 .. n : s[j] = x /\ (x <= state <=> j \in 1 .. k)
      BY <1>16
    <3>2. j \in 1 .. k
      BY <1>11, <1>14, <2>2, <3>1
    <3>3. x \in saved'
      BY <1>1, <3>1, <3>2
    <3> QED BY <1>14, <1>15, <3>1, <3>2, <3>3
  <2> QED BY <1>15, <2>1, <2>2
<1>18. k - 1 \in StreamMarks
  BY <1>5, <1>14, <1>15
<1>19. Listed'
  <2>1. \A x \in saved' : \E j \in 1 .. k : r[j] = x
    BY <1>1, <1>8, <1>16
  <2> QED BY <1>1, <1>9, <2>1, ListedNext
<1> HIDE DEF old, new
<1>20. Stream!Rewind(k - 1)
  BY <1>1, <1>10, <1>13, <1>17, <1>18 DEF Stream!Rewind
<1> QED BY <1>18, <1>19, <1>20

LEMMA TextCut ==
  ASSUME NEW ty, NEW tx, NEW e, e = [type |-> ty, text |-> tx], NEW k
  PROVE  [<<e>> EXCEPT ![1].text = SubSeq(@, 1, k)]
           = <<[type |-> ty, text |-> SubSeq(tx, 1, k)]>>
<1>1. PICK v : v = SubSeq(tx, 1, k)
  OBVIOUS
<1>2. e.text = tx /\ <<e>>[1] = e
  OBVIOUS
<1>3. [e EXCEPT !.text = v] = [type |-> ty, text |-> v]
  OBVIOUS
<1>4. v = SubSeq(<<e>>[1].text, 1, k)
  BY <1>1, <1>2
<1>5. [<<e>> EXCEPT ![1].text = SubSeq(@, 1, k)] = [<<e>> EXCEPT ![1].text = v]
  BY ONLY <1>4
<1>6. [<<e>> EXCEPT ![1].text = v] = <<[e EXCEPT !.text = v]>>
  OBVIOUS
<1> QED BY <1>1, <1>3, <1>5, <1>6

LEMMA RestoreStringStep ==
  ASSUME StreamInv, ~isTokenList, NEW state \in saved, Restore(state)
  PROVE  Listed' /\ \E k \in StreamMarks : Stream!Rewind(k)
<1>1. /\ isTokenList' = isTokenList /\ ~isTokenList' /\ saved' = {x \in saved : x <= state}
      /\ data' = data /\ size' = state /\ mem' = Poke(mem, [i \in {data + state - 1} |-> 0])
  BY DEF Restore, RestoreTokens, RestoreString
<1>2. IInv
  BY DEF StreamInv
<1>3. /\ data = 0 /\ size \in Nat /\ size <= Length /\ state \in Nat /\ 1 <= state /\ state <= size
      /\ DOMAIN mem = Offsets /\ saved \subseteq Nat
  BY <1>2 DEF IInv, Sound, Placed, Accounting, SavedInRange
<1>4. \A i \in 1 .. state - 1 : mem'[data + i - 1] = mem[data + i - 1]
  <2> DEFINE w == [i \in {data + state - 1} |-> 0]
  <2>1. DOMAIN w \subseteq Offsets
    BY <1>3, LengthAssumption DEF Offsets
  <2>2. \A i \in 1 .. state - 1 : data + i - 1 \in Offsets /\ data + i - 1 \notin DOMAIN w
    BY <1>3, LengthAssumption DEF Offsets
  <2> HIDE DEF w
  <2>3. \A i \in Offsets \ DOMAIN w : Poke(mem, w)[i] = mem[i]
    BY <1>3, <2>1, PokeInside
  <2> QED BY <1>1, <2>2, <2>3 DEF w
<1> DEFINE old == Bytes(mem, data, size - 1)
           new == Bytes(mem', data, state - 1)
<1>5. new = SubSeq(old, 1, state - 1)
  <2>1. PICK n, k : n = size - 1 /\ k = state - 1
    OBVIOUS
  <2>2. k \in 0 .. n /\ n \in Nat
    BY <1>3, <2>1
  <2>3. IsList(old, n)
    BY <2>1, <2>2 DEF IsList, Bytes
  <2>4. SubSeq(old, 1, k) = [i \in 1 .. k |-> old[i]]
    <3> HIDE DEF old
    <3> QED BY <2>2, <2>3, ListCut
  <2>5. \A i \in 1 .. k : old[i] = mem[data + i - 1]
    BY <2>1, <2>2 DEF Bytes
  <2>6. new = [i \in 1 .. k |-> mem'[data + i - 1]]
    BY <2>1 DEF Bytes
  <2> HIDE DEF old, new
  <2> QED BY <1>4, <2>1, <2>4, <2>5, <2>6
<1>6. /\ StreamToks = <<[type |-> "string", text |-> old]>>
      /\ StreamToks' = <<[type |-> "string", text |-> new]>>
  BY <1>1 DEF StreamToks, Text
<1>7. StreamToks' = Stream!CutTo(state - 1)
  <2> HIDE DEF old, new
  <2>1. PICK t, k : t = old /\ k = state - 1
    OBVIOUS
  <2>2. PICK e : e = [type |-> "string", text |-> t]
    OBVIOUS
  <2>3. [<<e>> EXCEPT ![1].text = SubSeq(@, 1, k)]
          = <<[type |-> "string", text |-> SubSeq(t, 1, k)]>>
    BY <2>2, TextCut
  <2> QED BY <1>1, <1>5, <1>6, <2>1, <2>2, <2>3 DEF Stream!CutTo
<1>8. /\ StreamMarks = {x - 1 : x \in saved}
      /\ StreamMarks' = {x - 1 : x \in {y \in saved : y <= state}}
  BY <1>1 DEF StreamMarks
<1>9. StreamMarks' = {m \in StreamMarks : m <= state - 1} /\ state - 1 \in StreamMarks
  <2>1. \A x \in saved : x <= state <=> x - 1 <= state - 1
    BY <1>3
  <2> QED BY <1>8, <2>1
<1>10. Listed'
  BY <1>1 DEF Listed
<1>11. Stream!Rewind(state - 1)
  BY <1>1, <1>7, <1>9 DEF Stream!Rewind
<1> QED BY <1>9, <1>10, <1>11

-----------------------------------------------------------------------------
(* The refinement                                                           *)

LEMMA StreamStarts == Init => Listed /\ Stream!TSInit
<1> SUFFICES ASSUME Init PROVE Listed /\ Stream!TSInit
  OBVIOUS
<1>1. IInv /\ saved = {}
  BY InitInv DEF Init
<1>2. StreamMarks = {}
  BY <1>1 DEF StreamMarks
<1>3. isTokenList \in BOOLEAN
  BY <1>1 DEF IInv, Sound, Placed
<1>4. CASE isTokenList
  <2>1. data = 2 /\ size = 1
    BY <1>4 DEF Init, InitString, InitTokenized
  <2> DEFINE s == [j \in 1 .. 1 |-> 2]
  <2>2. PICK n : n = 1
    OBVIOUS
  <2>3. Chain(mem, s, n, 2, data)
    BY <2>1, <2>2 DEF Chain
  <2> HIDE DEF s
  <2>4. Walk(s, n)
    BY <1>1, <2>3 DEF Walk
  <2>5. StreamToks = Printable(mem, s, n, size)
    BY <1>1, <1>4, <2>4, Mapped
  <2>6. StreamToks = <<>>
    BY <2>2, <2>5 DEF Printable
  <2> QED BY <1>2, <1>3, <1>4, <2>4, <2>6 DEF Listed, Stream!TSInit
<1>5. CASE ~isTokenList
  <2>1. data = 0 /\ size = 1
    BY <1>5 DEF Init, InitString, InitTokenized
  <2>2. Bytes(mem, data, size - 1) = <<>>
    BY <2>1 DEF Bytes
  <2>3. StreamToks = <<[type |-> "string", text |-> <<>>]>>
    BY <1>5, <2>2 DEF StreamToks, Text
  <2> QED BY <1>2, <1>3, <1>5, <2>3 DEF Listed, Stream!TSInit, Stream!TheString
<1> QED BY <1>4, <1>5

\* A call that fails changes nothing a reader of the list sees.
LEMMA Stutters ==
  ASSUME StreamInv,
         UNCHANGED <<isTokenList, capacity, data, size, limit, mem, saved>>
  PROVE  Listed' /\ UNCHANGED Stream!tsVars
<1>1. Listed'
  BY DEF StreamInv, Listed, Walk
<1>2. StreamToks' = StreamToks /\ StreamMarks' = StreamMarks
  BY DEF StreamToks, StreamMarks, TokensUpTo, Text
<1> QED BY <1>1, <1>2 DEF Stream!tsVars

LEMMA StreamStep ==
  ASSUME StreamInv, [Next]_vars
  PROVE  StreamInv' /\ [Stream!TSNext]_(Stream!tsVars)
<1>1. IInv'
  BY StepInv DEF StreamInv
<1> SUFFICES Listed' /\ [Stream!TSNext]_(Stream!tsVars)
  BY <1>1 DEF StreamInv
<1>2. CASE UNCHANGED vars
  BY <1>2, Stutters DEF vars
<1>3. ASSUME NEW why, Fails(why) PROVE Listed' /\ UNCHANGED Stream!tsVars
  BY <1>3, Stutters DEF Fails
<1>4. ASSUME NEW type \in TokenTypes, Append_(type)
      PROVE  Listed' /\ [Stream!TSNext]_(Stream!tsVars)
  <2>1. CASE AppendNew(type)
    BY <2>1, OpenStep DEF Stream!TSNext
  <2>2. CASE AppendSame(type) \/ AppendFull(type)
    BY <1>3, <2>2 DEF AppendSame, AppendFull
  <2> QED BY <1>4, <2>1, <2>2 DEF Append_
<1>5. ASSUME NEW p \in Predefined, AppendPredefined(p)
      PROVE  Listed' /\ [Stream!TSNext]_(Stream!tsVars)
  <2>1. CASE PredefinedNew(p)
    BY <2>1, PredefinedStep DEF Stream!TSNext
  <2>2. CASE PredefinedFull(p)
    BY <1>3, <2>2 DEF PredefinedFull
  <2> QED BY <1>5, <2>1, <2>2 DEF AppendPredefined
<1>6. ASSUME NEW n \in 1 .. MaxText, NEW c \in Chars, AppendText(n, c)
      PROVE  Listed' /\ [Stream!TSNext]_(Stream!tsVars)
  <2>1. CASE TextNew(n, c)
    BY <2>1, WriteStep DEF Stream!TSNext
  <2>2. CASE TextFull(n)
    BY <1>3, <2>2 DEF TextFull
  <2> QED BY <1>6, <2>1, <2>2 DEF AppendText
<1>7. CASE Remember
  BY <1>7, RememberStep DEF Stream!TSNext
<1>8. ASSUME NEW state \in saved, Restore(state)
      PROVE  Listed' /\ [Stream!TSNext]_(Stream!tsVars)
  BY <1>8, RestoreListStep, RestoreStringStep DEF Stream!TSNext
<1> QED BY <1>2, <1>4, <1>5, <1>6, <1>7, <1>8 DEF Next

(* What a reader of the token list, or of the string, sees is at all times  *)
(* what the interface promises: an append opens a token of another type or  *)
(* adds to the last one, a predefined list is appended whole, a snapshot    *)
(* brings back exactly the tokens it was taken with, and a call that fails  *)
(* leaves no trace (src/include/Zydis/FormatterBuffer.h).                   *)
THEOREM ImplementsTheStream == Spec => ImplementsStream
<1>1. Init => StreamInv /\ Stream!TSInit
  BY InitInv, StreamStarts DEF StreamInv
<1>2. StreamInv /\ [Next]_vars => StreamInv' /\ [Stream!TSNext]_(Stream!tsVars)
  BY StreamStep
<1> QED BY <1>1, <1>2, PTL DEF Spec, ImplementsStream, Stream!TSSpec

=============================================================================
