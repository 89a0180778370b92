------------------------- MODULE MC_TerminalColors -------------------------
(* Pure red and pure blue: their cube indices and RGB triples differ, so  *)
(* a swapped channel or a wrong mode shows.                               *)
EXTENDS TerminalColors

MCRGBs == {255, 16711680}
=============================================================================
