------------------------ MODULE TerminalColorsProofs ------------------------
(***************************************************************************)
(* Proofs about the colour mode of Terminal (TerminalColors.tla), for     *)
(* every set of RGB colours and every environment and terminfo answer.     *)
(***************************************************************************)
EXTENDS TerminalColors, TLAPS

\* The variables in their types.
TypeInv ==
    /\ env \in Envs
    /\ built \in {"no", "yes", "threw"}
    /\ valid \in BOOLEAN
    /\ c256 \in BOOLEAN
    /\ truecolor \in BOOLEAN

\* The constructor's promise behind RenderingsAgree: true colour is chosen
\* only together with 256 colours, and nothing is chosen before the
\* constructor has run.
ModeInv ==
    /\ truecolor => c256
    /\ built = "no" => ~valid /\ ~c256 /\ ~truecolor

IInv == TypeInv /\ ModeInv

LEMMA InitIInv == Init => IInv
  BY DEF Init, IInv, TypeInv, ModeInv

\* Every step keeps IInv: only the constructor sets the mode, and it sets
\* m_256colors wherever it sets m_truecolor.
LEMMA NextIInv == IInv /\ [Next]_vars => IInv'
<1> SUFFICES ASSUME IInv, [Next]_vars PROVE IInv'
  OBVIOUS
<1> USE DEF IInv, TypeInv, ModeInv
<1>1. CASE Construct
  <2> DEFINE m == env.mode
             detected == m = "unset" /\ (env.konsole \/ env.vte = "new")
             tc == m = "truecolor" \/ detected
             forced256 == m \in {"truecolor", "256colors"} \/ detected
             ok == IF forced256 THEN env.xtermOk ELSE env.termOk
  <2>1. env.mode \in ModeValues /\ env.colors \in {8, 256}
        /\ env.xtermOk \in BOOLEAN /\ env.termOk \in BOOLEAN
    BY DEF Envs
  <2>2. CASE m = "unset" /\ env.vte = "junk"
    BY <1>1, <2>2 DEF Construct
  <2>3. CASE ~(m = "unset" /\ env.vte = "junk")
    <3>1. /\ built' = "yes" /\ truecolor' = tc /\ valid' = ok
          /\ c256' = (forced256 \/ (ok /\ m = "unset" /\ env.colors >= 256))
          /\ env' = env
      BY <1>1, <2>3 DEF Construct
    <3>2. tc => forced256
      OBVIOUS
    <3>3. QED
      BY <2>1, <3>1, <3>2
  <2>4. QED
    BY <2>2, <2>3
<1>2. ASSUME NEW rgb \in RGBs, SetForegroundColor(rgb) \/ SetBackgroundColor(rgb)
      PROVE IInv'
  BY <1>2 DEF SetForegroundColor, SetBackgroundColor
<1>3. ASSUME NEW cap \in {"setaf", "setab"}, NEW c \in SimpleColors,
             SetSimple(cap, c)
      PROVE IInv'
  BY <1>3 DEF SetSimple
<1>4. ASSUME NEW rgb \in RGBs, NEW c \in SimpleColors, Color(rgb, c)
      PROVE IInv'
  BY <1>4 DEF Color
<1>5. CASE UNCHANGED vars
  BY <1>5 DEF vars
<1>6. QED
  BY <1>1, <1>2, <1>3, <1>4, <1>5 DEF Next

\* Under the mode invariant, the two renderings of an RGB colour coincide.
LEMMA IInvRenderingsAgree == IInv => RenderingsAgree
<1> SUFFICES ASSUME IInv, built = "yes", valid, c256 \/ truecolor,
                    NEW rgb \in RGBs, NEW c \in SimpleColors
             PROVE  ColorFg(rgb, c) = SetColor("setaf", rgb)
  BY DEF RenderingsAgree
<1>1. c256
  BY DEF IInv, ModeInv
<1>2. QED
  BY <1>1 DEF ColorFg, SetColor

\* On every set-up terminal with 256 colours or true colour, color(rgb,
\* fallback) and setForegroundColor(rgb) render every colour alike.
THEOREM RenderingsAgreeInvariant == Spec => []RenderingsAgree
  BY InitIInv, NextIInv, IInvRenderingsAgree, PTL DEF Spec

=============================================================================
