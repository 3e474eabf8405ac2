CONSTANTS
    Server = {s1, s2}
    NoServer = NoServer
    Command = {c1}
    MaxTerm = 2
    MaxLog = 1
    MaxInFlight = 2
    MaxPowerOffs = 1
SPECIFICATION Spec
SYMMETRY Symmetry
CHECK_DEADLOCK FALSE
PROPERTY TermNeverDecreases
