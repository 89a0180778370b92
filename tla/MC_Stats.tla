----------------------------- MODULE MC_Stats -----------------------------
(* Two nodes, three pids and two ticks per process: enough for a node's  *)
(* leader plus a forked child, a second node, restarts, and the reuse of *)
(* a pid with a different CPU history.                                   *)
EXTENDS Stats

CONSTANTS n1, n2

MCNodes == {n1, n2}
MCPids == {1, 2, 3}
=============================================================================
