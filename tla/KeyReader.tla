----------------------------- MODULE KeyReader -----------------------------
(***************************************************************************)
(* Terminal::readKey() of src/rosmon_core/src/terminal.cpp: one byte is    *)
(* read from stdin per call; an escape byte starts m_currentEscapeStr,     *)
(* which grows while it is a prefix of a code in m_specialKeys (the        *)
(* terminfo strings of kf1..kf12 and kbs registered by the Terminal        *)
(* constructor) and is reported as that key once it is complete.  Bytes   *)
(* are abstract; "ESC" is '\E' and "DEL" is 0x7f.                          *)
(***************************************************************************)
EXTENDS Integers, Sequences, SequencesExt

CONSTANTS
    Bytes,        \* the bytes stdin may deliver
    SpecialKeys,  \* m_specialKeys: key code (a byte sequence) -> key id
    Backspace,    \* SK_Backspace
    NoKey,        \* -1: read() failed
    MaxRecent     \* how many of the last bytes read the history keeps

ASSUME MaxRecentAssumption == MaxRecent \in Nat

ASSUME KeysAssumption ==
    /\ {"ESC", "DEL"} \subseteq Bytes
    /\ DOMAIN SpecialKeys \subseteq Seq(Bytes) \ {<<>>}
    \* terminfo has no key whose whole code is the escape byte
    /\ \A code \in DOMAIN SpecialKeys : code[1] = "ESC" => Len(code) >= 2
    /\ \A code \in DOMAIN SpecialKeys : Len(code) <= MaxRecent
    \* key ids and -1 are no bytes; kbs is registered under SK_Backspace
    /\ {Backspace, NoKey} \cap Bytes = {}
    /\ NoKey \notin {SpecialKeys[c] : c \in DOMAIN SpecialKeys}
    \* registerKey() gives every key id one code (kf1..kf12, kbs)
    /\ \A c1, c2 \in DOMAIN SpecialKeys : SpecialKeys[c1] = SpecialKeys[c2] => c1 = c2

VARIABLES
    esc,     \* m_currentEscapeStr
    ret,     \* what the last call of readKey() returned
    recent   \* history: the last MaxRecent bytes read

vars == <<esc, ret, recent>>

Codes == DOMAIN SpecialKeys

\* The codes that the loop over m_specialKeys counts as matches of s: not
\* shorter than s and starting with it.
Matches(s) == {code \in Codes : IsPrefix(s, code)}

\* "if(c == 0x7f) return SK_Backspace; return c;"
Plain(c) == IF c = "DEL" THEN Backspace ELSE c

Remember(c) ==
    recent' = IF Len(recent) < MaxRecent THEN Append(recent, c)
              ELSE Append(Tail(recent), c)

Init ==
    /\ esc = <<>>
    /\ ret = NoKey
    /\ recent = <<>>

\* read() does not deliver a byte.
ReadFails ==
    /\ ret' = NoKey
    /\ UNCHANGED <<esc, recent>>

\* Fault variant: a sequence that matches no code is not dropped.
ReadKeyKeepsUnknown(c) ==
    /\ Remember(c)
    /\ IF esc = <<>>
         THEN /\ esc' = IF c = "ESC" THEN <<c>> ELSE esc
              /\ ret' = Plain(c)
         ELSE LET s == Append(esc, c) IN
              IF s \in Codes
                THEN esc' = <<>> /\ ret' = SpecialKeys[s]
                ELSE esc' = s /\ ret' = Plain(c)

\* Fault variant: a sequence that only one code starts with is reported
\* as that key before it is complete.
ReadKeyOnUniquePrefix(c) ==
    /\ Remember(c)
    /\ IF esc = <<>>
         THEN /\ esc' = IF c = "ESC" THEN <<c>> ELSE esc
              /\ ret' = Plain(c)
         ELSE LET s == Append(esc, c) IN
              CASE Matches(s) = {} -> esc' = <<>> /\ ret' = Plain(c)
                [] \E code \in Codes : Matches(s) = {code}
                                   -> esc' = <<>> /\ ret' = SpecialKeys[CHOOSE code \in Matches(s) : TRUE]
                [] OTHER           -> esc' = s /\ ret' = Plain(c)

\* One call of readKey() that reads byte c.
ReadKey(c) ==
    /\ Remember(c)
    /\ IF esc = <<>>
         THEN /\ esc' = IF c = "ESC" THEN <<c>> ELSE esc
              /\ ret' = Plain(c)
         ELSE LET s == Append(esc, c) IN
              CASE Matches(s) = {} -> esc' = <<>> /\ ret' = Plain(c)
                [] s \in Codes     -> esc' = <<>> /\ ret' = SpecialKeys[s]
                [] OTHER           -> esc' = s /\ ret' = Plain(c)

Next == ReadFails \/ \E c \in Bytes : ReadKey(c)

Spec == Init /\ [][Next]_vars

-----------------------------------------------------------------------------
(* Properties.                                                             *)

\* The pending escape string of readKey() is always a proper prefix of a
\* registered key code: it is dropped as soon as it can no longer become
\* one, so it never grows past the longest code, whatever bytes a user or
\* a paste sends.
EscapeIsPendingPrefix ==
    esc # <<>> => \E code \in Codes : IsPrefix(esc, code) /\ esc # code

\* readKey() reports a special key only when the bytes just read spell
\* that key's code, or, for SK_Backspace (the id of kbs), when the byte
\* just read is DEL: "if(c == 0x7f) return SK_Backspace" whatever code
\* terminfo gives kbs.
KeyOnlyOnCode ==
    [][\A code \in Codes :
         (ret' = SpecialKeys[code] /\ SpecialKeys[code] \notin Bytes)
           => \/ IsSuffix(code, recent')
              \/ ret' = Backspace /\ Last(recent') = "DEL"]_vars

=============================================================================
