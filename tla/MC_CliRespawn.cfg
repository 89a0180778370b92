CONSTANTS
    Words <- MCWords
    DashWords <- MCDashWords
    ArgWords <- MCArgWords
    Numeric <- MCNumeric
    NumValue <- MCNumValue
    MaxArgs = 5
SPECIFICATION Spec
INVARIANTS RespawnLastWins
CHECK_DEADLOCK FALSE
