CONSTANTS
    n1 = n1
    n2 = n2
    n3 = n3
    Nodes <- MCNodes
    Required <- MCRequired
    Respawn <- MCRespawn
    StopTimeout <- MCStopTimeout
    StartNodes = TRUE
    EarlySignals = TRUE

SPECIFICATION Spec
\* A signal before signal() installed handleSignal leaves children running.
INVARIANT NoOrphanOnSignal

\* main() returns once every child is gone: the model stops there.
CHECK_DEADLOCK FALSE
