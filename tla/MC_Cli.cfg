CONSTANTS
    Words <- MCWords
    DashWords <- MCDashWords
    ArgWords <- MCArgWords
    Numeric <- MCNumeric
    NumValue <- MCNumValue
    MaxArgs = 4
SPECIFICATION Spec
INVARIANTS TypeOK UsageRespected
CHECK_DEADLOCK FALSE
