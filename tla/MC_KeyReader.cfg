CONSTANTS
    Bytes <- MCBytes
    SpecialKeys <- MCSpecialKeys
    Backspace = Backspace
    NoKey = NoKey
    MaxRecent = 4
SPECIFICATION Spec
INVARIANTS EscapeIsPendingPrefix
PROPERTIES KeyOnlyOnCode
