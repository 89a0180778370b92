------------------------- MODULE MC_SgrParserWide -------------------------
(* The node writes one SGR sequence whose only parameter is               *)
(* 4294967327 = 2^32 + 31, ten digits, well inside the 16-byte buffer.    *)
EXTENDS SgrParser

VARIABLE pos   \* the next byte of Input to be parsed

Input == <<"ESC", "[", "4", "2", "9", "4", "9", "6", "7", "3", "2", "7", "m">>

MCBytes == Digits \cup {"ESC", "[", "m", ";"}

\* The parameters of the sequence, between "[" and "m".
Params == SubSeq(Input, 3, Len(Input) - 1)

WideInit == Init /\ pos = 1

WideNext == /\ pos <= Len(Input)
            /\ Parse(Input[pos])
            /\ pos' = pos + 1

WideSpec == WideInit /\ [][WideNext]_<<vars, pos>>

\* A token spells one of the foreground codes 30..37, leading zeros aside.
SpellsFgCode(t) ==
    \E k \in 0..(Len(t) - 2) :
        /\ Len(t) = k + 2
        /\ \A j \in 1..k : t[j] = "0"
        /\ t[k + 1] = "3"
        /\ t[k + 2] \in {"0", "1", "2", "3", "4", "5", "6", "7"}

\* What the specification (section 4.4) says of the SGR codes: a
\* foreground colour is set only by a parameter 30..37, and other codes
\* are ignored.  parseSetAttributes() casts strtoul()'s result to int
\* first, so a parameter 2^32 + 31 sets the foreground like 31.
ForegroundOnlyFromFgCode ==
    fg # -1 => \E i \in 1..Len(Tokens(Params)) : SpellsFgCode(Tokens(Params)[i])

=============================================================================
