-------------------------- MODULE SgrParserProofs --------------------------
(***************************************************************************)
(* Proofs about the SGR parser of Terminal::Parser: the parsed state keeps *)
(* its type for every alphabet and every abandon bound.  The colour ranges *)
(* rest on the range checks of parseSetAttributes() for any token, so the  *)
(* value strtoul() gives is never looked into; the bound on the pending    *)
(* parameter list rests on parse() abandoning it as it reaches BufMax.     *)
(***************************************************************************)
EXTENDS SgrParser, NaturalsInduction, WellFoundedInduction, TLAPS

\* The attributes parseSetAttributes() works on: <<fg, bg, bold, stopped>>.
Attr == (-1..7) \X (-1..7) \X BOOLEAN \X BOOLEAN

\* The state of its tokenizer loop: the attributes and the current token.
ScanState == (-1..7) \X (-1..7) \X BOOLEAN \X BOOLEAN \X Seq(Bytes)

\* The inductive invariant: while a parameter list is being read, it is
\* shorter than the abandon bound, so one more byte keeps it within it.
IInv == TypeOK /\ (st = "CSI" => Len(buf) < BufMax)

-----------------------------------------------------------------------------
(* The operators of parseSetAttributes().                                  *)

\* The components of an attribute tuple and of a scan state.
LEMMA AttrIntro ==
    ASSUME NEW x \in -1..7, NEW y \in -1..7, NEW z \in BOOLEAN, NEW w \in BOOLEAN
    PROVE  <<x, y, z, w>> \in Attr
BY Zenon DEF Attr

LEMMA AttrElim ==
    ASSUME NEW a \in Attr
    PROVE  /\ a[1] \in -1..7 /\ a[2] \in -1..7
           /\ a[3] \in BOOLEAN /\ a[4] \in BOOLEAN
BY DEF Attr

LEMMA ScanIntro ==
    ASSUME NEW x \in -1..7, NEW y \in -1..7, NEW z \in BOOLEAN, NEW w \in BOOLEAN,
           NEW q \in Seq(Bytes)
    PROVE  <<x, y, z, w, q>> \in ScanState
BY Zenon DEF ScanState

LEMMA ScanElim ==
    ASSUME NEW a \in ScanState
    PROVE  /\ a[1] \in -1..7 /\ a[2] \in -1..7
           /\ a[3] \in BOOLEAN /\ a[4] \in BOOLEAN
           /\ a[5] \in Seq(Bytes)
BY DEF ScanState

\* Every token, well formed or not and whatever its code, leaves the
\* colours an ANSI colour or unset.
LEMMA ApplyTokenAttr ==
    ASSUME NEW a \in Attr, NEW t
    PROVE  ApplyToken(a, t) \in Attr
<1> DEFINE code == ToInt(Strtoul(t))
<1>1. ApplyToken(a, t) =
        IF a[4] THEN a
        ELSE IF ~Wellformed(t) THEN <<-1, -1, a[3], TRUE>>
        ELSE IF code = 0 THEN <<-1, -1, a[3], FALSE>>
        ELSE IF code \in 30..37 THEN <<code - 30, a[2], a[3], FALSE>>
        ELSE IF code \in 40..47 THEN <<a[1], code - 40, a[3], FALSE>>
        ELSE IF code = 1 THEN <<a[1], a[2], TRUE, FALSE>>
        ELSE a
  BY DEF ApplyToken
<1>2. /\ a[1] \in -1..7 /\ a[2] \in -1..7
      /\ a[3] \in BOOLEAN /\ a[4] \in BOOLEAN
  BY AttrElim
<1> HIDE DEF code
<1>3. CASE a[4]
  BY <1>1, <1>3
<1>0. -1 \in -1..7
  OBVIOUS
<1>4. CASE ~a[4] /\ ~Wellformed(t)
  <2>1. <<-1, -1, a[3], TRUE>> \in Attr
    BY <1>0, <1>2, AttrIntro, Zenon
  <2> QED
    BY <1>1, <1>4, <2>1
<1>5. CASE ~a[4] /\ Wellformed(t) /\ code = 0
  <2>1. <<-1, -1, a[3], FALSE>> \in Attr
    BY <1>0, <1>2, AttrIntro, Zenon
  <2> QED
    BY <1>1, <1>5, <2>1
<1>6. CASE ~a[4] /\ Wellformed(t) /\ code # 0 /\ code \in 30..37
  <2>1. code - 30 \in -1..7
    BY <1>6
  <2> QED
    BY <1>1, <1>2, <1>6, <2>1, AttrIntro
<1>7. CASE ~a[4] /\ Wellformed(t) /\ code # 0 /\ code \notin 30..37
           /\ code \in 40..47
  <2>1. code - 40 \in -1..7
    BY <1>7
  <2> QED
    BY <1>1, <1>2, <1>7, <2>1, AttrIntro
<1>8. CASE ~a[4] /\ Wellformed(t) /\ code # 0 /\ code \notin 30..37
           /\ code \notin 40..47 /\ code = 1
  BY <1>1, <1>2, <1>8, AttrIntro
<1>9. CASE ~a[4] /\ Wellformed(t) /\ code # 0 /\ code \notin 30..37
           /\ code \notin 40..47 /\ code # 1
  BY <1>1, <1>9
<1> QED
  BY <1>2, <1>3, <1>4, <1>5, <1>6, <1>7, <1>8, <1>9

\* Ending a token keeps the scan state's type.
LEMMA EndTokenType ==
    ASSUME NEW a \in ScanState
    PROVE  EndToken(a) \in ScanState
<1>1. ApplyToken(<<a[1], a[2], a[3], a[4]>>, a[5]) \in Attr
  BY ScanElim, AttrIntro, ApplyTokenAttr
<1>2. CASE a[5] = <<>>
  BY <1>2 DEF EndToken
<1>3. CASE a[5] # <<>>
  <2> DEFINE r == ApplyToken(<<a[1], a[2], a[3], a[4]>>, a[5])
  <2>1. EndToken(a) = <<r[1], r[2], r[3], r[4], <<>>>>
    BY <1>3 DEF EndToken
  <2>2. <<>> \in Seq(Bytes)
    OBVIOUS
  <2>0. r \in Attr
    BY <1>1
  <2> HIDE DEF r
  <2>3. /\ r[1] \in -1..7 /\ r[2] \in -1..7
        /\ r[3] \in BOOLEAN /\ r[4] \in BOOLEAN
    BY <2>0, AttrElim
  <2>4. <<r[1], r[2], r[3], r[4], <<>>>> \in ScanState
    BY <2>2, <2>3, ScanIntro, Zenon
  <2> QED
    BY <2>1, <2>4
<1> QED
  BY <1>2, <1>3

\* One byte of the loop keeps the scan state's type.
LEMMA ScanByteType ==
    ASSUME NEW a \in ScanState, NEW c \in Bytes
    PROVE  ScanByte(a, c) \in ScanState
<1>1. CASE c = ";"
  BY <1>1, EndTokenType DEF ScanByte
<1>2. CASE c # ";"
  <2>1. Append(a[5], c) \in Seq(Bytes)
    BY ScanElim
  <2> QED
    BY <1>2, <2>1, ScanElim, ScanIntro DEF ScanByte
<1> QED
  BY <1>1, <1>2

\* The whole loop over a byte string keeps the scan state's type.
LEMMA ScanType ==
    ASSUME NEW s \in Seq(Bytes), NEW a0 \in ScanState
    PROVE  Scan(a0, s) \in ScanState
<1> DEFINE n == Len(s)
           Def(v, i) == ScanByte(v, s[i])
           scan == CHOOSE g : g = [i \in 0..n |->
                                     IF i = 0 THEN a0 ELSE Def(g[i - 1], i)]
<1>1. n \in Nat
  OBVIOUS
<1>2. FiniteNatInductiveDefConclusion(scan, a0, Def, 0, n)
  <2>1. FiniteNatInductiveDefHypothesis(scan, a0, Def, 0, n)
    BY DEF FiniteNatInductiveDefHypothesis
  <2> HIDE DEF scan, Def
  <2> QED
    BY <1>1, <2>1, FiniteNatInductiveDef
<1>3. \A v \in ScanState, i \in (0 + 1)..n : Def(v, i) \in ScanState
  BY ScanByteType
<1>4. \A i \in 0..n : scan[i] \in ScanState
  <2> DEFINE Bad == {i \in 0..n : scan[i] \notin ScanState}
  <2> SUFFICES ASSUME NEW j \in 0..n, scan[j] \notin ScanState
               PROVE  FALSE
    OBVIOUS
  <2> HIDE DEF scan, Def
  <2>1. Bad \subseteq Nat /\ Bad # {}
    BY <1>1
  <2>2. PICK m \in Bad : \A k \in Bad : ~(<<k, m>> \in OpToRel(<, Nat))
    BY <2>1, NatLessThanWellFounded, WFMin
  <2>6. \A k \in Bad : ~(k < m)
    BY <2>1, <2>2 DEF OpToRel
  <2>3. scan[m] = IF m = 0 THEN a0 ELSE Def(scan[m - 1], m)
    BY <2>2, <1>2 DEF FiniteNatInductiveDefConclusion
  <2>4. CASE m = 0
    BY <2>2, <2>3, <2>4
  <2>5. CASE m # 0
    <3>a. m \in 0..n
      BY <2>2, Zenon DEF Bad
    <3>0. m \in 1..n /\ m - 1 \in 0..n
      BY <1>1, <3>a, <2>5
    <3>1. m - 1 \in 0..n /\ scan[m - 1] \in ScanState
      <4> SUFFICES ASSUME scan[m - 1] \notin ScanState PROVE FALSE
        BY <3>0
      <4>1. m - 1 \in Bad
        BY <3>0
      <4>2. m - 1 < m
        BY <3>0
      <4> QED
        BY <4>1, <4>2, <2>6
    <3>2. Def(scan[m - 1], m) \in ScanState
      BY <3>0, <3>1, <1>3
    <3> QED
      BY <2>2, <2>3, <2>5, <3>2
  <2> QED
    BY <2>4, <2>5
<1>5. Scan(a0, s) = scan[n]
  BY DEF Scan
<1> QED
  BY <1>1, <1>4, <1>5

-----------------------------------------------------------------------------
(* The type invariant.                                                     *)

LEMMA InitIInv == Init => IInv
<1> SUFFICES ASSUME Init PROVE IInv
  OBVIOUS
<1>1. st \in {"ESCAPE", "TYPE", "CSI"} /\ st # "CSI" /\ bold \in BOOLEAN
  BY Zenon DEF Init
<1>2. buf \in Seq(Bytes) /\ Len(buf) <= BufMax /\ fg \in -1..7 /\ bg \in -1..7
  BY BufMaxAssumption DEF Init
<1> QED
  BY <1>1, <1>2, Zenon DEF IInv, TypeOK

\* The parts of the invariant a step of parse() must re-establish: the
\* parser state and the pending list, and the attributes.
LEMMA IInvIntro ==
    ASSUME st' \in {"ESCAPE", "TYPE", "CSI"},
           buf' \in Seq(Bytes), Len(buf') <= BufMax,
           st' = "CSI" => Len(buf') < BufMax,
           fg' \in -1..7, bg' \in -1..7, bold' \in BOOLEAN
    PROVE  IInv'
BY Zenon DEF IInv, TypeOK

LEMMA NextIInv == IInv /\ [Next]_vars => IInv'
<1> SUFFICES ASSUME IInv, [Next]_vars PROVE IInv'
  OBVIOUS
<1>0. /\ st \in {"ESCAPE", "TYPE", "CSI"}
      /\ buf \in Seq(Bytes) /\ Len(buf) <= BufMax
      /\ st = "CSI" => Len(buf) < BufMax
      /\ fg \in -1..7 /\ bg \in -1..7 /\ bold \in BOOLEAN
  BY Zenon DEF IInv, TypeOK
<1>1. CASE UNCHANGED vars
  BY <1>0, <1>1, IInvIntro, Zenon DEF vars
<1>2. ASSUME NEW c \in Bytes, Parse(c) PROVE IInv'
  <2>1. CASE st = "ESCAPE" /\ st' = (IF c = "ESC" THEN "TYPE" ELSE "ESCAPE")
                           /\ UNCHANGED <<buf, fg, bg, bold>>
    <3>1. st' \in {"ESCAPE", "TYPE", "CSI"} /\ st' # "CSI"
      BY <2>1
    <3> QED
      BY <1>0, <2>1, <3>1, IInvIntro, Zenon
  <2>2. CASE st = "TYPE" /\ (IF c = "["
                               THEN st' = "CSI" /\ buf' = <<>>
                               ELSE st' = "ESCAPE" /\ buf' = buf)
                         /\ UNCHANGED <<fg, bg, bold>>
    <3>1. CASE c = "["
      <4>1. st' = "CSI" /\ buf' = <<>>
        BY <2>2, <3>1
      <4>2. buf' \in Seq(Bytes) /\ Len(buf') <= BufMax /\ Len(buf') < BufMax
        BY <4>1, BufMaxAssumption
      <4> QED
        BY <1>0, <2>2, <4>1, <4>2, IInvIntro, Zenon
    <3>2. CASE c # "["
      <4>1. st' = "ESCAPE" /\ buf' = buf
        BY <2>2, <3>2
      <4> QED
        BY <1>0, <2>2, <4>1, IInvIntro, Zenon
    <3> QED
      BY <3>1, <3>2
  <2>3. CASE st = "CSI" /\ c = "m"
             /\ (LET a == SetAttributes(buf) IN
                   fg' = a[1] /\ bg' = a[2] /\ bold' = a[3])
             /\ st' = "ESCAPE" /\ buf' = buf
    <3>1. <<fg, bg, bold, FALSE, <<>>>> \in ScanState
      <4>1. <<>> \in Seq(Bytes) /\ FALSE \in BOOLEAN
        OBVIOUS
      <4> QED
        BY <1>0, <4>1, ScanIntro, Zenon
    <3>2. SetAttributes(buf) \in ScanState
      <4>1. Scan(<<fg, bg, bold, FALSE, <<>>>>, buf) \in ScanState
        BY <1>0, <3>1, ScanType
      <4> QED
        BY <4>1, EndTokenType DEF SetAttributes
    <3>3. fg' \in -1..7 /\ bg' \in -1..7 /\ bold' \in BOOLEAN
      BY <2>3, <3>2, ScanElim
    <3> QED
      BY <1>0, <2>3, <3>3, IInvIntro, Zenon
  <2>4. CASE st = "CSI" /\ c # "m" /\ buf' = Append(buf, c)
             /\ st' = (IF Len(buf') >= BufMax THEN "ESCAPE" ELSE "CSI")
             /\ UNCHANGED <<fg, bg, bold>>
    <3>0. buf \in Seq(Bytes) /\ Len(buf) < BufMax
      BY <1>0, <2>4, Zenon
    <3>1. buf' \in Seq(Bytes) /\ Len(buf') <= BufMax
      BY <3>0, <2>4, BufMaxAssumption
    <3>2. st' \in {"ESCAPE", "TYPE", "CSI"} /\ (st' = "CSI" => Len(buf') < BufMax)
      BY <2>4, <3>1, BufMaxAssumption
    <3> QED
      BY <1>0, <2>4, <3>1, <3>2, IInvIntro, Zenon
  <2> QED
    BY <1>2, <2>1, <2>2, <2>3, <2>4 DEF Parse
<1> QED
  BY <1>1, <1>2 DEF Next

\* The parser's state stays within what the code holds, whatever bytes a
\* node writes: both parsed colours are an ANSI colour or unset, because
\* parseSetAttributes() takes only the codes 30..37 and 40..47 as colours,
\* and the pending parameter list never outgrows m_buf's bound, because
\* parse() abandons it on the byte that reaches BufMax.
THEOREM TypeCorrect == Spec => []TypeOK
<1>1. Init => IInv
  BY InitIInv
<1>2. IInv /\ [Next]_vars => IInv'
  BY NextIInv
<1>3. IInv => TypeOK
  BY DEF IInv
<1> QED
  BY <1>1, <1>2, <1>3, PTL DEF Spec
=============================================================================
