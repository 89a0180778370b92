------------------------------- MODULE MC_Cli -------------------------------
(* Command lines of up to MaxArgs words over a vocabulary with every kind *)
(* of word main() tells apart: "-h", a flag, the two options with a value, *)
(* "--", an unknown option that is also a negative number, a valid and a   *)
(* malformed respawn value, a number, a plain word and a launch argument.  *)
EXTENDS Cli

MCWords == {"-h", "--no-start", "--stop-timeout", "--respawn-attr", "--", "-1",
            "force_true", "obey_default_false", "bogus", "2", "pkg", "a:=1"}
MCDashWords == {"-h", "--no-start", "--stop-timeout", "--respawn-attr", "--", "-1"}
MCArgWords == {"a:=1"}
MCNumeric == {"-1", "2"}
MCNumValue == [w \in MCNumeric |-> IF w = "-1" THEN -1 ELSE 2]
=============================================================================
