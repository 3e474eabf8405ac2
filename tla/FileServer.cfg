CONSTANTS
    Server = {s1, s2}
    NoServer = NoServer
    MaxTerm = 1
    MaxLog = 2
    MaxInFlight = 1
    MaxPowerOffs = 1
    Clients = {1}
    Files = {f1}
    Contents = {x}
    EmptyContent = x
    Lives = {0}
    Versions = {1}
    NoFile = NoFile
    NoCommand = NoCommand
    MaxLines = 2
    Times = {0}
SPECIFICATION Spec
CHECK_DEADLOCK FALSE
INVARIANTS
    TypeOK
    AnswersAwaited
    ReplicasAgree
PROPERTY FollowerAnswers
