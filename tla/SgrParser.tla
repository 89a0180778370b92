----------------------------- MODULE SgrParser -----------------------------
(***************************************************************************)
(* Terminal::Parser of src/rosmon_core/src/terminal.cpp: the incremental   *)
(* parser that follows the SGR escape sequences in a node's output, one    *)
(* byte at a time, and Terminal::Parser::apply(), which re-emits the       *)
(* parsed colours on rosmon's own terminal.                                *)
(*                                                                         *)
(* Bytes are abstracted to a small alphabet: the escape byte "ESC", the    *)
(* characters "[", "m" and ";", and a few digits.  "[" and "ESC" stand for *)
(* the other bytes a parameter list may hold, which make strtoul() stop    *)
(* short of the end.  Leading blanks and a sign, which strtoul() skips,    *)
(* are left out of the alphabet.                                           *)
(***************************************************************************)
EXTENDS Integers, Sequences, SequencesExt

CONSTANTS
    Bytes,   \* the bytes the node writes
    BufMax   \* the length at which a parameter list is abandoned (16)

Digits == {"0", "1", "2", "3", "4", "5", "6", "7", "8", "9"}
DigitValue == [d \in Digits |->
                 CHOOSE v \in 0..9 : <<"0","1","2","3","4","5","6","7","8","9">>[v + 1] = d]

ASSUME BytesAssumption == {"ESC", "[", "m", ";"} \subseteq Bytes
                            /\ Bytes \subseteq Digits \cup {"ESC", "[", "m", ";"}
ASSUME BufMaxAssumption == BufMax \in Nat \ {0}

VARIABLES
    st,    \* m_state
    buf,   \* m_buf
    fg,    \* m_fgColor, -1 when unset
    bg,    \* m_bgColor, -1 when unset
    bold   \* m_bold

vars == <<st, buf, fg, bg, bold>>

-----------------------------------------------------------------------------
(* parseSetAttributes().                                                   *)

\* boost::tokenizer with char_separator(";"): the non-empty runs of bytes
\* between separators.
Tokens(s) ==
    LET cuts == SetToSortSeq({0, Len(s) + 1} \cup {i \in 1..Len(s) : s[i] = ";"},
                             LAMBDA a, b : a < b)
        runs == [k \in 1..(Len(cuts) - 1) |-> SubSeq(s, cuts[k] + 1, cuts[k + 1] - 1)]
    IN SelectSeq(runs, LAMBDA t : t # <<>>)

\* strtoul() of a token: its value when every byte is a digit, else the
\* token is malformed (endptr does not reach its end).
Wellformed(t) == \A i \in 1..Len(t) : t[i] \in Digits

\* strtoul() of a well-formed token, reduced modulo 2^32 digit by digit and
\* kept as <<high, low>> 16-bit halves.  A token has fewer than 16 digits
\* (BufMax), so the unsigned long never saturates and errno stays 0.
Strtoul(t) ==
    FoldLeft(LAMBDA w, d : LET lo == 10 * w[2] + DigitValue[d]
                           IN <<(10 * w[1] + lo \div 65536) % 65536, lo % 65536>>,
             <<0, 0>>, t)

\* "int code = strtoul(...)": the low 32 bits read as two's complement.
ToInt(w) == IF w[1] < 32768 THEN w[1] * 65536 + w[2]
            ELSE (w[1] - 65536) * 65536 + w[2]

\* Fault variant: the foreground range check reaching into the
\* background codes.
ApplyTokenWideFg(a, t) ==
    LET code == ToInt(Strtoul(t)) IN
    IF a[4] THEN a
    ELSE IF ~Wellformed(t) THEN <<-1, -1, a[3], TRUE>>
    ELSE IF code = 0 THEN <<-1, -1, a[3], FALSE>>
    ELSE IF code \in 30..47 THEN <<code - 30, a[2], a[3], FALSE>>
    ELSE IF code = 1 THEN <<a[1], a[2], TRUE, FALSE>>
    ELSE a

\* One token applied to <<fg, bg, bold, stopped>>; a malformed token
\* resets both colours and stops the loop.
ApplyToken(a, t) ==
    LET code == ToInt(Strtoul(t)) IN
    IF a[4] THEN a
    ELSE IF ~Wellformed(t) THEN <<-1, -1, a[3], TRUE>>
    ELSE IF code = 0 THEN <<-1, -1, a[3], FALSE>>
    ELSE IF code \in 30..37 THEN <<code - 30, a[2], a[3], FALSE>>
    ELSE IF code \in 40..47 THEN <<a[1], code - 40, a[3], FALSE>>
    ELSE IF code = 1 THEN <<a[1], a[2], TRUE, FALSE>>
    ELSE a

\* The loop of parseSetAttributes() over the tokens of s, applied to the
\* attributes a; the reference the byte scan below is checked against.
TokenizedAttributes(a, s) == FoldLeft(ApplyToken, a, Tokens(s))

\* The end of a token in the scan of <<fg, bg, bold, stopped, token>>: a
\* non-empty token is applied; an empty one is dropped, as char_separator
\* drops empty tokens.
EndToken(a) ==
    IF a[5] = <<>> THEN a
    ELSE LET r == ApplyToken(<<a[1], a[2], a[3], a[4]>>, a[5])
         IN  <<r[1], r[2], r[3], r[4], <<>>>>

\* One byte of the tokenizer loop: ";" ends the current token, any other
\* byte extends it.
ScanByte(a, c) ==
    IF c = ";" THEN EndToken(a)
    ELSE <<a[1], a[2], a[3], a[4], Append(a[5], c)>>

\* The tokenizer loop over the bytes of s, from the scan state a0.
Scan(a0, s) ==
    LET scan[i \in 0..Len(s)] ==
          IF i = 0 THEN a0 ELSE ScanByte(scan[i - 1], s[i])
    IN  scan[Len(s)]

\* The attributes after parseSetAttributes(s): the scan from the current
\* attributes, the last token ending with the string.
SetAttributes(s) == EndToken(Scan(<<fg, bg, bold, FALSE, <<>>>>, s))

-----------------------------------------------------------------------------
(* Terminal::Parser::parse(char).                                          *)

Init ==
    /\ st = "ESCAPE"
    /\ buf = <<>>
    /\ fg = -1
    /\ bg = -1
    /\ bold = FALSE

Parse(c) ==
    \/ /\ st = "ESCAPE"
       /\ st' = IF c = "ESC" THEN "TYPE" ELSE "ESCAPE"
       /\ UNCHANGED <<buf, fg, bg, bold>>
    \/ /\ st = "TYPE"
       /\ IF c = "["
            THEN st' = "CSI" /\ buf' = <<>>
            ELSE st' = "ESCAPE" /\ buf' = buf
       /\ UNCHANGED <<fg, bg, bold>>
    \/ /\ st = "CSI"
       /\ c = "m"
       /\ LET a == SetAttributes(buf) IN
            fg' = a[1] /\ bg' = a[2] /\ bold' = a[3]
       /\ st' = "ESCAPE"
       /\ buf' = buf
    \/ /\ st = "CSI"
       /\ c # "m"
       /\ buf' = Append(buf, c)
       /\ st' = IF Len(buf') >= BufMax THEN "ESCAPE" ELSE "CSI"
       /\ UNCHANGED <<fg, bg, bold>>

Next == \E c \in Bytes : Parse(c)

Spec == Init /\ [][Next]_vars

-----------------------------------------------------------------------------
(* Terminal::Parser::apply().                                              *)

\* The <<foreground, background>> the terminal shows after apply(): both
\* colours as a pair, or the standard colours and then the one that is
\* set; for a lone background, apply() passes m_fgColor to
\* setSimpleBackground().
ApplyOutput ==
    IF fg >= 0 /\ bg >= 0 THEN <<fg, bg>>
    ELSE IF fg >= 0 THEN <<fg, -1>>
    ELSE IF bg >= 0 THEN <<-1, fg>>
    ELSE <<-1, -1>>

-----------------------------------------------------------------------------
(* Properties.                                                             *)

\* The parsed state stays within what the code can hold: both colours are
\* an ANSI colour 0..7 or unset, and a pending parameter list is shorter
\* than the abandon bound.  The colour ranges rest on the SGR range checks
\* of parseSetAttributes().
TypeOK ==
    /\ st \in {"ESCAPE", "TYPE", "CSI"}
    /\ buf \in Seq(Bytes) /\ Len(buf) <= BufMax
    /\ fg \in -1..7
    /\ bg \in -1..7
    /\ bold \in BOOLEAN

\* What the specification (section 4.4) asks of the renderer: after
\* apply() the terminal shows the parsed foreground and background.
ApplyShowsColors == ApplyOutput = <<fg, bg>>

=============================================================================
