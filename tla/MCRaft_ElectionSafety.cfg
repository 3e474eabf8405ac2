CONSTANTS
    Server = {s1, s2, s3}
    NoServer = NoServer
    Command = {c1}
    MaxTerm = 2
    MaxLog = 0
    MaxInFlight = 2
    MaxPowerOffs = 0
SPECIFICATION Spec
SYMMETRY Symmetry
CHECK_DEADLOCK FALSE
INVARIANT ElectionSafety
