--------------------------- MODULE TerminalColors ---------------------------
(***************************************************************************)
(* The colour mode of rosmon's Terminal (src/rosmon_core/src/terminal.cpp) *)
(* and how an RGB colour is rendered in it.  The constructor chooses ANSI, *)
(* 256 colours or true colour from ROSMON_COLOR_MODE, KONSOLE_DBUS_SESSION,*)
(* VTE_VERSION and terminfo; setForegroundColor, setBackgroundColor, the   *)
(* simple setters and color() then produce a colour directive.  Escape     *)
(* strings are abstracted to what they select: nothing, a terminfo colour  *)
(* index, or an RGB triple.                                                *)
(***************************************************************************)
EXTENDS Naturals

CONSTANTS
    RGBs   \* the colours the UI asks for, as uint32_t 0xBBGGRR

ASSUME RGBAssumption == RGBs \subseteq 0..(2^24 - 1)

SimpleColors == 0..7

\* ROSMON_COLOR_MODE (compared with strcasecmp) and VTE_VERSION: unset,
\* below 3600, 3600 or more, or not a number.
ModeValues == {"unset", "truecolor", "256colors", "ansi", "other"}
VteValues == {"unset", "old", "new", "junk"}

\* The environment and terminfo: whether setupterm() finds $TERM and
\* xterm-256color, tigetnum("colors") of $TERM, and whether setaf and setab
\* exist.
Envs == [mode : ModeValues, konsole : BOOLEAN, vte : VteValues,
         termOk : BOOLEAN, xtermOk : BOOLEAN, colors : {8, 256},
         setaf : BOOLEAN, setab : BOOLEAN]

VARIABLES
    env,        \* what getenv() and terminfo answer
    built,      \* "no", "yes", or "threw" out of the constructor
    valid,      \* m_valid
    c256,       \* m_256colors
    truecolor,  \* m_truecolor
    out         \* the colour directive produced last

vars == <<env, built, valid, c256, truecolor, out>>

None == <<"none">>

-----------------------------------------------------------------------------
(* Rendering.                                                              *)

\* ansiColor(): the 6x6x6 cube index of an RGB colour.
AnsiColor(rgb) ==
    LET r == rgb % 256
        g == (rgb \div 256) % 256
        b == (rgb \div 65536) % 256
    IN 16 + 36 * ((r * 6) \div 256) + 6 * ((g * 6) \div 256) + (b * 6) \div 256

\* The "\033[38;2;%d;%d;%dm" escape: red is the low byte.
RGBOf(rgb) == <<"rgb", rgb % 256, (rgb \div 256) % 256, (rgb \div 65536) % 256>>

\* tiparm() of the setaf or setab string: empty when the constructor left
\* it empty (setupterm() failed) or terminfo has no such capability.
Tiparm(cap, code) == IF valid /\ env[cap] THEN <<"index", code>> ELSE None

\* setForegroundColor (cap "setaf") and setBackgroundColor (cap "setab").
SetColor(cap, rgb) ==
    IF ~valid THEN None
    ELSE IF truecolor THEN RGBOf(rgb)
    ELSE Tiparm(cap, AnsiColor(rgb))

\* The foreground of color(rgb, fallback); color(code) is two tiparm()s.
ColorFg(rgb, fallback) ==
    IF ~c256 THEN Tiparm("setaf", fallback)
    ELSE IF ~truecolor THEN Tiparm("setaf", AnsiColor(rgb))
    ELSE RGBOf(rgb)

-----------------------------------------------------------------------------
(* The constructor and the calls.                                          *)

Init ==
    /\ env \in Envs
    /\ built = "no"
    /\ valid = FALSE /\ c256 = FALSE /\ truecolor = FALSE
    /\ out = None

\* Fault variant: the true-colour override and detection set m_truecolor
\* but leave m_256colors to the terminfo query.
ConstructTruecolorOnly ==
    LET m == env.mode
        detected == m = "unset" /\ (env.konsole \/ env.vte = "new")
        tc == m = "truecolor" \/ detected
        forced256 == m \in {"truecolor", "256colors"} \/ detected
        ok == IF forced256 THEN env.xtermOk ELSE env.termOk
    IN /\ built = "no"
       /\ IF m = "unset" /\ env.vte = "junk"
            THEN built' = "threw" /\ UNCHANGED <<valid, c256, truecolor>>
            ELSE /\ built' = "yes"
                 /\ truecolor' = tc
                 /\ valid' = ok
                 /\ c256' = (m = "256colors" \/ (ok /\ m = "unset" /\ env.colors >= 256))
       /\ UNCHANGED <<env, out>>

\* Terminal::Terminal().  An override or a true-colour terminal makes
\* setupterm() look up xterm-256color instead of $TERM; a VTE_VERSION that
\* is not a number makes lexical_cast throw out of the constructor.
Construct ==
    LET m == env.mode
        detected == m = "unset" /\ (env.konsole \/ env.vte = "new")
        tc == m = "truecolor" \/ detected
        forced256 == m \in {"truecolor", "256colors"} \/ detected
        ok == IF forced256 THEN env.xtermOk ELSE env.termOk
    IN /\ built = "no"
       /\ IF m = "unset" /\ env.vte = "junk"
            THEN built' = "threw" /\ UNCHANGED <<valid, c256, truecolor>>
            ELSE /\ built' = "yes"
                 /\ truecolor' = tc
                 /\ valid' = ok
                 /\ c256' = (forced256 \/ (ok /\ m = "unset" /\ env.colors >= 256))
       /\ UNCHANGED <<env, out>>

SetForegroundColor(rgb) ==
    /\ built = "yes"
    /\ out' = SetColor("setaf", rgb)
    /\ UNCHANGED <<env, built, valid, c256, truecolor>>

SetBackgroundColor(rgb) ==
    /\ built = "yes"
    /\ out' = SetColor("setab", rgb)
    /\ UNCHANGED <<env, built, valid, c256, truecolor>>

\* setSimpleForeground / setSimpleBackground.
SetSimple(cap, c) ==
    /\ built = "yes"
    /\ out' = Tiparm(cap, c)
    /\ UNCHANGED <<env, built, valid, c256, truecolor>>

\* The UI takes the foreground of color(rgb, fallback).
Color(rgb, fallback) ==
    /\ built = "yes"
    /\ out' = ColorFg(rgb, fallback)
    /\ UNCHANGED <<env, built, valid, c256, truecolor>>

Next ==
    \/ Construct
    \/ \E rgb \in RGBs : SetForegroundColor(rgb) \/ SetBackgroundColor(rgb)
    \/ \E cap \in {"setaf", "setab"}, c \in SimpleColors : SetSimple(cap, c)
    \/ \E rgb \in RGBs, c \in SimpleColors : Color(rgb, c)

Spec == Init /\ [][Next]_vars

-----------------------------------------------------------------------------
(* Properties.                                                             *)

\* On a set-up terminal that renders more than the eight simple colours
\* (256 colours or true colour), color(rgb, fallback) and
\* setForegroundColor(rgb) render every colour the same way.  color()
\* falls back to the simple colour unless has256Colors(), while the setter
\* decides by m_truecolor alone: they agree only because the constructor
\* never chooses true colour without 256 colours.
RenderingsAgree ==
    built = "yes" /\ valid /\ (c256 \/ truecolor) =>
        \A rgb \in RGBs, c \in SimpleColors : ColorFg(rgb, c) = SetColor("setaf", rgb)

\* "Could not setup the terminal. Disabling all colors...": once the
\* constructor failed to set up the terminal, no colour is produced.
ColorsOffWhenSetupFails == built = "yes" /\ ~valid => out = None

=============================================================================
