CONSTANTS
    Server = {s1, s2, s3}
    NoServer = NoServer
    Command = {c1, c2, c3}
    MaxTerm = 2
    MaxLog = 2
    MaxInFlight = 1
    MaxPowerOffs = 0
SPECIFICATION Spec
SYMMETRY Symmetry
VIEW WithoutDisks
CHECK_DEADLOCK FALSE
INVARIANTS
    NextIndexInLog
    LogTermsOrdered
    LogMatchingUnderElectionSafety
PROPERTY UncommittedAnswered
