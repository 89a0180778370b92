CONSTANTS
    Bytes <- MCBytes
    BufMax = 4
SPECIFICATION Spec
INVARIANTS TypeOK
