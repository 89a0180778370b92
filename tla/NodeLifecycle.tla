--------------------------- MODULE NodeLifecycle ---------------------------
(***************************************************************************)
(* What the supervision core of rosmon promises about its nodes and the    *)
(* session, without processes, signals, pipes or clocks: a node is         *)
(* started, asked to stop, and exits; a required node's exit ends the      *)
(* session's health; the session is shut down only when it was asked to    *)
(* stop or has lost its health, every node that still runs is asked to     *)
(* stop then, and the session ends only once no node runs any more.        *)
(*                                                                         *)
(* Monitor (Monitor.tla) implements this specification under the mapping  *)
(* given there (Monitor!Lifecycle).                                        *)
(***************************************************************************)
CONSTANTS
    Nodes,     \* the nodes of the launch file
    Required,  \* the required nodes
    Respawn    \* the nodes restarted after an exit of their own

VARIABLES
    life,          \* the life-cycle state of every node
    phase,         \* "running", "shutdown" or "ended"
    healthy,       \* no required node has exited or failed to start
    stopRequested  \* a stop of the session was requested from outside

vars == <<life, phase, healthy, stopRequested>>

\* The states start() accepts, and the states in which a node runs.
Startable == {"Idle", "Crashed", "Waiting", "Stopped"}
Live == {"Running", "Stopping"}

Init ==
    /\ life = [n \in Nodes |-> "Idle"]
    /\ phase = "running"
    /\ healthy = TRUE
    /\ stopRequested = FALSE

\* While the session runs, the nodes in up start and the nodes in failed
\* fail to start, which counts as their exit.
Start(up, failed) ==
    /\ phase = "running"
    /\ up \cap failed = {}
    /\ \A n \in up \cup failed : life[n] \in Startable
    /\ life' = [n \in Nodes |-> IF n \in up THEN "Running" ELSE life[n]]
    /\ healthy' = (healthy /\ failed \cap Required = {})
    /\ UNCHANGED <<phase, stopRequested>>

\* A running node is asked to stop while the session runs.
Stop(n) ==
    /\ phase = "running"
    /\ life[n] = "Running"
    /\ life' = [life EXCEPT ![n] = "Stopping"]
    /\ UNCHANGED <<phase, healthy, stopRequested>>

\* A running node exits: as asked, or on its own.
Exit(n) ==
    /\ life[n] \in Live
    /\ life' = [life EXCEPT ![n] = IF life[n] = "Stopping" THEN "Stopped"
                                   ELSE IF n \in Respawn THEN "Waiting"
                                   ELSE "Crashed"]
    /\ healthy' = (healthy /\ n \notin Required)
    /\ UNCHANGED <<phase, stopRequested>>

RequestStop ==
    /\ ~stopRequested
    /\ stopRequested' = TRUE
    /\ UNCHANGED <<life, phase, healthy>>

\* The session is shut down: every running node is asked to stop at once.
BeginShutdown ==
    /\ phase = "running"
    /\ stopRequested \/ ~healthy
    /\ phase' = "shutdown"
    /\ life' = [n \in Nodes |-> IF life[n] = "Running" THEN "Stopping" ELSE life[n]]
    /\ UNCHANGED <<healthy, stopRequested>>

\* The session ends once no node runs.
End ==
    /\ phase = "shutdown"
    /\ \A n \in Nodes : life[n] \notin Live
    /\ phase' = "ended"
    /\ UNCHANGED <<life, healthy, stopRequested>>

Next ==
    \/ \E up, failed \in SUBSET Nodes : Start(up, failed)
    \/ \E n \in Nodes : Stop(n) \/ Exit(n)
    \/ RequestStop \/ BeginShutdown \/ End

\* A shutdown that is due happens, a node that is asked to stop during the
\* shutdown does exit, and the session then ends.  A node stopped while
\* the session runs is not promised to exit.
Fairness ==
    /\ WF_vars(BeginShutdown)
    /\ \A n \in Nodes : WF_vars(phase = "shutdown" /\ Exit(n))
    /\ WF_vars(End)

SafetySpec == Init /\ [][Next]_vars

Spec == SafetySpec /\ Fairness

=============================================================================
