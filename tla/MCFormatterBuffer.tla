-------------------------- MODULE MCFormatterBuffer --------------------------
(* A buffer just large enough for both limits of a token to bite: the bytes *)
(* left in the buffer, and the largest length a byte (0 .. 8) can hold.     *)
EXTENDS FormatterBufferRefinement

\* '+' as TOK_ADD, and ", " as the two-token TOK_DELIM_OPERAND, with types
\* 1 and 2 and the character 3.
Block(bytes, last) ==
  [size |-> Len(bytes), next |-> last,
   data |-> [i \in 0 .. Len(bytes) - 1 |-> bytes[i + 1]]]

MCPredefined == {Block(<<1, 0, 3, 0>>, 2), Block(<<1, 2, 3, 0, 2, 0, 3, 0>>, 6)}

=============================================================================
