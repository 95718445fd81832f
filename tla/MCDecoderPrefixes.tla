------------------------- MODULE MCDecoderPrefixes -------------------------
(***************************************************************************)
(* TLC instance of DecoderPrefixes: every sequence of up to MaxLength      *)
(* prefixes over one byte of each kind the loop tells apart.               *)
(***************************************************************************)
EXTENDS DecoderPrefixes

(* F0 F2 F3 2E 3E 64 66 67, two REX prefixes (40 and 48) and an opcode.    *)
MCBytes == {240, 242, 243, 46, 62, 100, 102, 103, 64, 72, 144}
=============================================================================
