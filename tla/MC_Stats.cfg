CONSTANTS
    n1 = n1
    n2 = n2
    Nodes <- MCNodes
    Pids <- MCPids
    MaxTicks = 2
    Recycle = FALSE

SPECIFICATION Spec

INVARIANT TypeOK
INVARIANT AttributionExact
