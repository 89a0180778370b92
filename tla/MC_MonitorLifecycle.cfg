CONSTANTS
    n1 = n1
    n2 = n2
    n3 = n3
    Nodes <- MCNodes
    Required <- MCRequired
    Respawn <- MCRespawn
    StopTimeout <- MCStopTimeout
    StartNodes = TRUE
    EarlySignals = FALSE

SPECIFICATION Spec
\* Monitor implements the abstract node life cycle, fairness included.
PROPERTY LifecycleRefined

\* main() returns once every child is gone: the model stops there.
CHECK_DEADLOCK FALSE
