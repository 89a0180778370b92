CONSTANTS
    n1 = n1
    n2 = n2
    n3 = n3
    Nodes <- MCNodes
    Required <- MCRequired
    Respawn <- MCRespawn
    StopTimeout <- MCStopTimeout
    StartNodes = TRUE
    EarlySignals = TRUE

SPECIFICATION Spec

INVARIANT TypeOK
INVARIANT PidIffRunning
INVARIANT NoOrphanOnExit
PROPERTY KillOnlyAfterGrace
PROPERTY SessionEnds

\* main() returns once every child is gone: the model stops there.
CHECK_DEADLOCK FALSE
