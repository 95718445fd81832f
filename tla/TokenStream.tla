------------------------------ MODULE TokenStream ------------------------------
(****************************************************************************)
(* What the formatter buffer promises to the functions that print into it  *)
(* (src/include/Zydis/FormatterBuffer.h): a list of tokens that grows at    *)
(* its end, of which only the last is written to, and that can be cut back  *)
(* to a remembered place.  No memory, no links, no sizes.                   *)
(****************************************************************************)
EXTENDS Integers, Sequences

CONSTANTS
  Types,     \* token types
  Lists,     \* static token lists
  Symbols,   \* characters
  MaxWrite   \* longest text written at once

VARIABLES
  tokenized, \* a list of tokens, or a single string
  toks,      \* the tokens, as [type, text]
  marks      \* remembered places

tsVars == <<tokenized, toks, marks>>

Last(s) == s[Len(s)]
Front(s) == SubSeq(s, 1, Len(s) - 1)

\* A plain pass has one token, of no particular type.
TheString == "string"

TSInit ==
  /\ tokenized \in BOOLEAN
  /\ toks = IF tokenized THEN <<>> ELSE <<[type |-> TheString, text |-> <<>>]>>
  /\ marks = {}

\* A place is a number of tokens, in a plain pass a number of characters.
Place == IF tokenized THEN Len(toks) ELSE Len(toks[1].text)

\* A new token, unless the current one has the type already.
Open(type) ==
  /\ tokenized
  /\ toks = <<>> \/ Last(toks).type # type
  /\ toks' = Append(toks, [type |-> type, text |-> <<>>])
  /\ UNCHANGED <<tokenized, marks>>

OpenList(list) ==
  /\ tokenized
  /\ toks' = toks \o list
  /\ UNCHANGED <<tokenized, marks>>

\* More text at the end of the current token.
Write(n, c) ==
  /\ toks # <<>>
  /\ toks' = [toks EXCEPT ![Len(toks)].text = @ \o [i \in 1 .. n |-> c]]
  /\ UNCHANGED <<tokenized, marks>>

Mark ==
  /\ marks' = marks \cup {Place}
  /\ UNCHANGED <<tokenized, toks>>

\* Back to a remembered place.  In a token list the text of the token that
\* becomes current is lost ("does NOT restore any string content").
CutTo(m) ==
  IF ~tokenized
  THEN [toks EXCEPT ![1].text = SubSeq(@, 1, m)]
  ELSE IF m = 0 THEN <<>>
  ELSE [SubSeq(toks, 1, m) EXCEPT ![m].text = <<>>]

Rewind(m) ==
  /\ m \in marks
  /\ toks' = CutTo(m)
  /\ marks' = {k \in marks : k <= m}
  /\ UNCHANGED tokenized

TSNext ==
  \/ \E type \in Types : Open(type)
  \/ \E list \in Lists : OpenList(list)
  \/ \E n \in 1 .. MaxWrite, c \in Symbols : Write(n, c)
  \/ Mark
  \/ \E m \in marks : Rewind(m)

TSSpec == TSInit /\ [][TSNext]_tsVars

=============================================================================
