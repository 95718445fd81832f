---------------------- MODULE FormatterBufferRefinement ----------------------
(****************************************************************************)
(* The formatter buffer implements a token stream: the list a consumer      *)
(* finds by following ZydisFormatterTokenNext from the first token up to    *)
(* the current one is the abstract list, token by token, text by text.      *)
(****************************************************************************)
EXTENDS FormatterBuffer

\* n bytes of m from a on.
Bytes(m, a, n) == [i \in 1 .. n |-> m[a + i - 1]]

Token(m, a, n) == [type |-> m[a - 2], text |-> Bytes(m, a, n - 1)]

\* Where the text of the token behind the one at a begins.
After(m, a) == a + Header + m[a - 1]

\* ZydisFormatterTokenGetValue and ZydisFormatterTokenNext, from the token
\* whose text is at first to the token whose text is at last and has n bytes.
\* A link that misses the last token ends the walk.
ListFrom(m, first, last, n) ==
  LET walk[a \in first .. last] ==
        IF a = last THEN <<Token(m, a, n)>>
        ELSE IF After(m, a) > last THEN <<>>
        ELSE <<Token(m, a, m[a - 1])>> \o walk[After(m, a)]
  IN  walk[first]

\* The first token is a placeholder that the tokenizer skips.
TokensUpTo(a, n) == Tail(ListFrom(mem, Header, a, n))

Text == [type |-> "string", text |-> Bytes(mem, data, size - 1)]

\* The list and the remembered places as the interface knows them.
StreamToks == IF isTokenList THEN TokensUpTo(data, size) ELSE <<Text>>
StreamMarks == IF isTokenList THEN {Len(TokensUpTo(s, 1)) : s \in saved}
                              ELSE {s - 1 : s \in saved}

Stream == INSTANCE TokenStream WITH
  Types <- TokenTypes,
  Lists <- {ListFrom(p.data, Header, p.next, p.size - p.next) : p \in Predefined},
  Symbols <- Chars,
  MaxWrite <- MaxText,
  tokenized <- isTokenList,
  toks <- StreamToks,
  marks <- StreamMarks

(* Every call of the buffer does to the list read back from memory what the *)
(* interface says it does to a token list, or nothing when it fails.        *)
ImplementsStream == Stream!TSSpec

=============================================================================
