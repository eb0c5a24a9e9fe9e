SPECIFICATION Spec
CONSTANTS
    Half = 8
    MaxBuffered = 4
    Base = 5
CHECK_DEADLOCK FALSE
INVARIANT
    NeverWrapsBackwards
