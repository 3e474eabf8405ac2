CONSTANTS
    Server = {s1, s2, s3}
    NoServer = NoServer
    Command = {c1, c2}
    MaxTerm = 2
    MaxLog = 1
    MaxInFlight = 2
    MaxPowerOffs = 0
SPECIFICATION Spec
SYMMETRY Symmetry
CHECK_DEADLOCK FALSE
INVARIANT StateMachineSafety
