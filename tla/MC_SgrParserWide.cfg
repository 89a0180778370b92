CONSTANTS
    Bytes <- MCBytes
    BufMax = 16

SPECIFICATION WideSpec

INVARIANT ForegroundOnlyFromFgCode

\* The node's output is one finite sequence: the parser stops after it.
CHECK_DEADLOCK FALSE
