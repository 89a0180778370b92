---------------------------- MODULE MC_Monitor ----------------------------
(* Three nodes: a required one, a respawning one, a plain one; distinct  *)
(* stop timeouts so that the largest is not the first or the last.      *)
EXTENDS Monitor

CONSTANTS n1, n2, n3

MCNodes == {n1, n2, n3}
MCRequired == {n1}
MCRespawn == {n2}
MCStopTimeout == [n \in MCNodes |-> IF n = n2 THEN 2 ELSE 1]
=============================================================================
