---------------------------- MODULE MC_SgrParser ----------------------------
(* The SGR parser on an alphabet that reaches the reset code 0, bold 1,    *)
(* the foreground codes 30, 31, 33, 34, the background codes 40, 41, 43,   *)
(* 44, unknown codes and malformed tokens, with parameter lists abandoned  *)
(* after BufMax bytes.                                                     *)
EXTENDS SgrParser

MCBytes == {"ESC", "[", "m", ";", "0", "1", "3", "4"}

\* The byte scan that SetAttributes uses agrees with the tokenizer loop it
\* stands for, on every parameter list of up to five bytes and from a
\* reset and a coloured state.
ASSUME ScanMatchesTokenizer ==
    \A s \in BoundedSeq(MCBytes \ {"m"}, 5),
      a \in {<<-1, -1, FALSE>>, <<3, 4, TRUE>>} :
        LET r == EndToken(Scan(<<a[1], a[2], a[3], FALSE, <<>>>>, s))
        IN  <<r[1], r[2], r[3], r[4]>>
              = TokenizedAttributes(<<a[1], a[2], a[3], FALSE>>, s)
=============================================================================
