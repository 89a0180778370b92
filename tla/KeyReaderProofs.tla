-------------------------- MODULE KeyReaderProofs --------------------------
(***************************************************************************)
(* Proofs about Terminal::readKey() (KeyReader.tla), for every alphabet    *)
(* and every table of special keys the constructor can register.           *)
(***************************************************************************)
EXTENDS KeyReader, SequenceTheorems, TLAPS

\* s ends t: the last Len(s) bytes of t are s, indexed from the end.
EndsWith(s, t) ==
    /\ Len(s) <= Len(t)
    /\ \A i \in 1..Len(s) : s[i] = t[Len(t) - Len(s) + i]

\* The history after one more byte c.
Window(r, c) == IF Len(r) < MaxRecent THEN Append(r, c) ELSE Append(Tail(r), c)

TypeInv ==
    /\ esc \in Seq(Bytes)
    /\ recent \in Seq(Bytes)
    /\ Len(recent) <= MaxRecent

\* The pending escape string is made of the last bytes read.
IInv == TypeInv /\ EscapeIsPendingPrefix /\ EndsWith(esc, recent)

\* Some registered code starts with the escape byte: terminfo's kf1..kf12.
EscapeCodeExists == \E code \in Codes : code[1] = "ESC"

-----------------------------------------------------------------------------
(* Lemmas about the operators.                                             *)

\* The index form of EndsWith is SequencesExt's IsSuffix.
LEMMA EndsWithIsSuffix ==
    ASSUME NEW S, NEW s \in Seq(S), NEW t \in Seq(S), EndsWith(s, t)
    PROVE  IsSuffix(s, t)
<1>1. Len(Reverse(s)) = Len(s) /\ Len(Reverse(t)) = Len(t)
  BY DEF Reverse
<1>2. Reverse(s) \in Seq(S) /\ Reverse(t) \in Seq(S)
  BY DEF Reverse
<1>3. \A i \in 1..Len(s) : Reverse(s)[i] = Reverse(t)[i]
  BY DEF EndsWith, Reverse
<1>4. SubSeq(Reverse(s), 1, Len(s)) = SubSeq(Reverse(t), 1, Len(s))
  BY <1>1, <1>2, <1>3 DEF EndsWith
<1>5. QED
  BY <1>1, <1>4 DEF IsSuffix, IsPrefix, EndsWith

\* A string that ends the history, extended by the byte just read, ends
\* the new history if it still fits into it.
LEMMA EndsWithWindow ==
    ASSUME NEW S, NEW e \in Seq(S), NEW r \in Seq(S), NEW c \in S,
           MaxRecent \in Nat, Len(r) <= MaxRecent, Len(e) + 1 <= MaxRecent,
           EndsWith(e, r)
    PROVE  /\ EndsWith(Append(e, c), Window(r, c))
           /\ Window(r, c) \in Seq(S)
           /\ Len(Window(r, c)) <= MaxRecent
<1>1. CASE Len(r) < MaxRecent
  BY <1>1 DEF EndsWith, Window
<1>2. CASE ~(Len(r) < MaxRecent)
  <2> DEFINE n == Len(r)
             w == Append(Tail(r), c)
             a == Append(e, c)
  <2>1. n = MaxRecent /\ r # <<>> /\ n >= 1
    BY <1>2
  <2>2. Tail(r) \in Seq(S) /\ Len(Tail(r)) = n - 1
        /\ \A j \in 1..n - 1 : Tail(r)[j] = r[j + 1]
    BY <2>1
  <2>3. w \in Seq(S) /\ Len(w) = n /\ w[n] = c
        /\ \A j \in 1..n - 1 : w[j] = r[j + 1]
    BY <2>2
  <2>4. Len(a) = Len(e) + 1 /\ a[Len(e) + 1] = c
        /\ \A i \in 1..Len(e) : a[i] = e[i]
    OBVIOUS
  <2>5. \A i \in 1..Len(e) : e[i] = r[n - Len(e) + i]
    BY DEF EndsWith
  <2>6. \A i \in 1..Len(e) : a[i] = w[n - Len(a) + i]
    BY <2>1, <2>3, <2>4, <2>5
  <2>7. \A i \in 1..Len(a) : a[i] = w[n - Len(a) + i]
    <3> SUFFICES ASSUME NEW i \in 1..Len(a) PROVE a[i] = w[n - Len(a) + i]
      OBVIOUS
    <3>1. CASE i \in 1..Len(e)
      BY <3>1, <2>6
    <3>2. CASE i = Len(e) + 1
      <4>1. n - Len(a) + i = n /\ Len(e) \in Nat
        BY <3>2, <2>4
      <4>2. a[i] = c
        BY <3>2, <2>4
      <4>3. QED
        BY <4>1, <4>2, <2>3, Zenon
    <3>3. i \in 1..Len(e) \/ i = Len(e) + 1
      BY <2>4
    <3>4. QED
      BY <3>1, <3>2, <3>3
  <2>8. Window(r, c) = w
    BY <1>2 DEF Window
  <2>9. QED
    BY <2>1, <2>3, <2>4, <2>7, <2>8 DEF EndsWith
<1>3. QED
  BY <1>1, <1>2

\* A code is not longer than the history, and a proper prefix of one is
\* shorter.
LEMMA CodeLength ==
    ASSUME NEW code \in Codes
    PROVE  code \in Seq(Bytes) /\ 1 <= Len(code) /\ Len(code) <= MaxRecent
  BY KeysAssumption DEF Codes

\* A proper prefix is shorter.
LEMMA ProperPrefixShorter ==
    ASSUME NEW S, NEW x \in Seq(S), NEW y \in Seq(S), IsPrefix(x, y), x # y
    PROVE  Len(x) < Len(y)
<1>1. SUFFICES ASSUME Len(x) = Len(y) PROVE FALSE
  BY DEF IsPrefix
<1>2. SubSeq(x, 1, Len(x)) = x /\ SubSeq(y, 1, Len(y)) = y
  OBVIOUS
<1>3. QED
  BY <1>1, <1>2 DEF IsPrefix

\* The escape byte alone is a proper prefix of a code that starts with it.
LEMMA EscapeIsPrefix ==
    ASSUME NEW code \in Codes, code[1] = "ESC"
    PROVE  IsPrefix(<<"ESC">>, code) /\ <<"ESC">> # code
<1>1. code \in Seq(Bytes) /\ Len(code) >= 2
  BY KeysAssumption DEF Codes
<1>2. SubSeq(code, 1, 1) = <<"ESC">>
  <2>1. Len(SubSeq(code, 1, 1)) = 1 /\ SubSeq(code, 1, 1)[1] = "ESC"
    BY <1>1
  <2>2. SubSeq(code, 1, 1) \in Seq(Bytes)
    BY <1>1
  <2>3. <<"ESC">> \in Seq(Bytes) /\ Len(<<"ESC">>) = 1 /\ <<"ESC">>[1] = "ESC"
    BY KeysAssumption
  <2>4. \A i \in 1..Len(SubSeq(code, 1, 1)) : SubSeq(code, 1, 1)[i] = <<"ESC">>[i]
    BY <2>1, <2>3
  <2>5. QED
    BY <2>1, <2>2, <2>3, <2>4, SeqEqual, Zenon
<1>3. QED
  BY <1>1, <1>2 DEF IsPrefix

\* Before a byte is read, the pending string has room for it in the
\* history.
LEMMA PendingFits ==
    ASSUME IInv, esc # <<>>
    PROVE  Len(esc) + 1 <= MaxRecent
<1>1. PICK code \in Codes : IsPrefix(esc, code) /\ esc # code
  BY DEF IInv, EscapeIsPendingPrefix
<1>2. Len(esc) < Len(code)
  BY <1>1, CodeLength, ProperPrefixShorter DEF IInv, TypeInv
<1>3. QED
  BY <1>2, CodeLength, MaxRecentAssumption DEF IInv, TypeInv

-----------------------------------------------------------------------------
(* The invariant.                                                          *)

LEMMA InitIInv == Init => IInv
  BY MaxRecentAssumption DEF Init, IInv, TypeInv, EscapeIsPendingPrefix, EndsWith


\* One readKey() keeps IInv when some code starts with the escape byte.
LEMMA ReadKeyIInv ==
    ASSUME EscapeCodeExists, IInv, NEW c \in Bytes, ReadKey(c)
    PROVE  IInv'
<1>1. recent' = Window(recent, c)
  BY DEF ReadKey, Remember, Window
<1>2. MaxRecent >= 2
  <2>1. PICK code \in Codes : code[1] = "ESC"
    BY DEF EscapeCodeExists
  <2>2. Len(code) >= 2 /\ Len(code) <= MaxRecent
    BY <2>1, KeysAssumption DEF Codes
  <2>3. QED
    BY <2>2, MaxRecentAssumption
<1>3. CASE esc = <<>>
  <2>1. EndsWith(<<c>>, recent') /\ recent' \in Seq(Bytes) /\ Len(recent') <= MaxRecent
    <3>1. EndsWith(<<>>, recent)
      BY DEF EndsWith, IInv, TypeInv
    <3>2. Append(<<>>, c) = <<c>>
      OBVIOUS
    <3>3. <<>> \in Seq(Bytes) /\ recent \in Seq(Bytes) /\ Len(recent) <= MaxRecent
          /\ Len(<<>>) + 1 <= MaxRecent /\ MaxRecent \in Nat
      BY <1>2, MaxRecentAssumption DEF IInv, TypeInv
    <3>4. /\ EndsWith(Append(<<>>, c), Window(recent, c))
          /\ Window(recent, c) \in Seq(Bytes)
          /\ Len(Window(recent, c)) <= MaxRecent
      BY <3>1, <3>3, EndsWithWindow
    <3>5. QED
      BY <1>1, <3>2, <3>4
  <2>2. CASE c = "ESC"
    <3>1. esc' = <<"ESC">>
      BY <1>3, <2>2 DEF ReadKey
    <3>2. EscapeIsPendingPrefix'
      BY <3>1, EscapeIsPrefix DEF EscapeCodeExists, EscapeIsPendingPrefix
    <3>3. QED
      BY <2>1, <2>2, <3>1, <3>2, KeysAssumption DEF IInv, TypeInv
  <2>3. CASE c # "ESC"
    <3>1. esc' = <<>>
      BY <1>3, <2>3 DEF ReadKey
    <3>2. QED
      BY <2>1, <3>1 DEF IInv, TypeInv, EscapeIsPendingPrefix, EndsWith
  <2>4. QED
    BY <2>2, <2>3
<1>4. CASE esc # <<>>
  <2> DEFINE s == Append(esc, c)
  <2>1. EndsWith(s, recent') /\ recent' \in Seq(Bytes) /\ Len(recent') <= MaxRecent
        /\ s \in Seq(Bytes)
    BY <1>1, <1>4, PendingFits, EndsWithWindow, MaxRecentAssumption DEF IInv, TypeInv
  <2>2. \/ esc' = <<>>
        \/ esc' = s /\ Matches(s) # {} /\ s \notin Codes
    BY <1>4 DEF ReadKey
  <2>3. CASE esc' = <<>>
    BY <2>1, <2>3 DEF IInv, TypeInv, EscapeIsPendingPrefix, EndsWith
  <2>4. CASE esc' = s /\ Matches(s) # {} /\ s \notin Codes
    <3>1. PICK code \in Codes : IsPrefix(s, code)
      BY <2>4 DEF Matches
    <3>2. s # code
      BY <2>4
    <3>3. QED
      BY <2>1, <2>4, <3>1, <3>2 DEF IInv, TypeInv, EscapeIsPendingPrefix
  <2>5. QED
    BY <2>2, <2>3, <2>4
<1>5. QED
  BY <1>3, <1>4

\* Every step keeps IInv when some code starts with the escape byte.
LEMMA NextIInv ==
    ASSUME EscapeCodeExists
    PROVE  IInv /\ [Next]_vars => IInv'
<1> SUFFICES ASSUME IInv, [Next]_vars PROVE IInv'
  OBVIOUS
<1>1. CASE ReadFails
  BY <1>1 DEF ReadFails, IInv, TypeInv, EscapeIsPendingPrefix, EndsWith
<1>2. ASSUME NEW c \in Bytes, ReadKey(c) PROVE IInv'
  BY <1>2, ReadKeyIInv
<1>3. CASE UNCHANGED vars
  BY <1>3 DEF vars, IInv, TypeInv, EscapeIsPendingPrefix, EndsWith
<1>4. QED
  BY <1>1, <1>2, <1>3 DEF Next

\* When terminfo registers a code that starts with the escape byte (kf1..
\* kf12 on every terminal that has them), the escape string readKey()
\* keeps pending is always a proper prefix of a registered code.
THEOREM EscapePending == EscapeCodeExists => (Spec => []EscapeIsPendingPrefix)
<1> SUFFICES ASSUME EscapeCodeExists PROVE Spec => []EscapeIsPendingPrefix
  OBVIOUS
<1>1. IInv => EscapeIsPendingPrefix
  BY DEF IInv
<1>2. QED
  BY <1>1, InitIInv, NextIInv, PTL DEF Spec

-----------------------------------------------------------------------------
(* Special keys are reported only on their codes.                          *)

\* The step KeyOnlyOnCode asks every step to be.
KeyStep ==
    \A code \in Codes :
        (ret' = SpecialKeys[code] /\ SpecialKeys[code] \notin Bytes)
          => \/ IsSuffix(code, recent')
             \/ ret' = Backspace /\ Last(recent') = "DEL"

\* A byte returned as itself is no special key that lies outside the
\* alphabet; a byte returned as a key id is DEL returned as SK_Backspace.
LEMMA PlainIsBackspace ==
    ASSUME NEW c \in Bytes, NEW code \in Codes,
           Plain(c) = SpecialKeys[code], SpecialKeys[code] \notin Bytes
    PROVE  c = "DEL" /\ Plain(c) = Backspace
  BY DEF Plain

\* The byte just read is the last one of the history.
LEMMA LastOfWindow ==
    ASSUME NEW S, NEW r \in Seq(S), NEW c \in S,
           MaxRecent \in Nat, 1 <= MaxRecent, Len(r) <= MaxRecent
    PROVE  Last(Window(r, c)) = c
<1>1. CASE Len(r) < MaxRecent
  BY <1>1 DEF Window, Last
<1>2. CASE ~(Len(r) < MaxRecent)
  <2>1. r # <<>>
    BY <1>2
  <2>2. Tail(r) \in Seq(S)
    BY <2>1
  <2> QED
    BY <1>2, <2>2 DEF Window, Last
<1> QED
  BY <1>1, <1>2

\* Under IInv, every readKey() that reports a key has just read its code,
\* or DEL for SK_Backspace.
LEMMA ReadKeyStep ==
    ASSUME EscapeCodeExists, IInv, NEW c \in Bytes, ReadKey(c)
    PROVE  KeyStep
<1> SUFFICES ASSUME NEW code \in Codes, ret' = SpecialKeys[code],
                    SpecialKeys[code] \notin Bytes
             PROVE  \/ IsSuffix(code, recent')
                    \/ ret' = Backspace /\ Last(recent') = "DEL"
  BY DEF KeyStep
<1>0. recent' = Window(recent, c)
  BY DEF ReadKey, Remember, Window
\* A DEL read in any state is reported as SK_Backspace right after it.
<1>9. ASSUME ret' = Plain(c)
      PROVE  ret' = Backspace /\ Last(recent') = "DEL"
  <2>1. c = "DEL" /\ Plain(c) = Backspace
    BY <1>9, PlainIsBackspace
  <2>2. Last(recent') = c
    BY <1>0, CodeLength, LastOfWindow, MaxRecentAssumption DEF IInv, TypeInv
  <2> QED
    BY <1>9, <2>1, <2>2
<1>1. CASE esc = <<>>
  <2>1. ret' = Plain(c)
    BY <1>1 DEF ReadKey
  <2>2. QED
    BY <2>1, <1>9
<1>2. CASE esc # <<>>
  <2> DEFINE s == Append(esc, c)
  <2>1. EndsWith(s, recent') /\ recent' \in Seq(Bytes) /\ s \in Seq(Bytes)
    <3>1. recent' = Window(recent, c)
      BY DEF ReadKey, Remember, Window
    <3>2. QED
      BY <1>2, <3>1, PendingFits, EndsWithWindow, MaxRecentAssumption DEF IInv, TypeInv
  <2>2. ret' = Plain(c) \/ (s \in Codes /\ ret' = SpecialKeys[s])
    BY <1>2 DEF ReadKey
  <2>3. CASE ret' = Plain(c)
    BY <2>3, <1>9
  <2>4. CASE s \in Codes /\ ret' = SpecialKeys[s]
    <3>1. code = s
      BY <2>4, KeysAssumption DEF Codes
    <3>2. code \in Seq(Bytes)
      BY CodeLength
    <3>3. QED
      BY <2>1, <3>1, <3>2, EndsWithIsSuffix
  <2>5. QED
    BY <2>2, <2>3, <2>4
<1>3. QED
  BY <1>1, <1>2

\* Every step of readKey() reports a special key only on its code.
LEMMA NextKeyStep ==
    ASSUME EscapeCodeExists
    PROVE  IInv /\ [Next]_vars => [KeyStep]_vars
<1> SUFFICES ASSUME IInv, [Next]_vars PROVE [KeyStep]_vars
  OBVIOUS
<1>1. CASE ReadFails
  <2>1. ASSUME NEW code \in Codes, SpecialKeys[code] = NoKey PROVE FALSE
    BY <2>1, KeysAssumption DEF Codes
  <2>2. QED
    BY <1>1, <2>1 DEF ReadFails, KeyStep
<1>2. ASSUME NEW c \in Bytes, ReadKey(c) PROVE [KeyStep]_vars
  BY <1>2, ReadKeyStep
<1>3. CASE UNCHANGED vars
  BY <1>3 DEF vars
<1>4. QED
  BY <1>1, <1>2, <1>3 DEF Next

\* When terminfo registers a code that starts with the escape byte,
\* readKey() reports a special key only when the bytes just read spell
\* that key's code, or, for SK_Backspace, the id kbs is registered under,
\* when the byte just read is DEL, whatever code kbs has.
THEOREM KeysOnlyOnCodes == EscapeCodeExists => (Spec => KeyOnlyOnCode)
<1> SUFFICES ASSUME EscapeCodeExists PROVE Spec => KeyOnlyOnCode
  OBVIOUS
<1>1. Spec => []IInv
  BY InitIInv, NextIInv, PTL DEF Spec
<1>2. QED
  BY <1>1, NextKeyStep, PTL DEF Spec, KeyOnlyOnCode, KeyStep

=============================================================================
