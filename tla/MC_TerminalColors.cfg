CONSTANTS
    RGBs <- MCRGBs

SPECIFICATION Spec

INVARIANT RenderingsAgree

\* A constructor that threw ends the program: nothing follows it.
CHECK_DEADLOCK FALSE
