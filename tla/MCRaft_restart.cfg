CONSTANTS
    Server = {s1, s2}
    NoServer = NoServer
    Command = {c1, c2}
    MaxTerm = 2
    MaxLog = 2
    MaxInFlight = 2
    MaxPowerOffs = 1
SPECIFICATION Spec
SYMMETRY Symmetry
CHECK_DEADLOCK FALSE
INVARIANTS
    TypeOK
    VoteDurable
    LeaderHasDurableVotes
    CommitOnMajorityDisks
    LogDurable
