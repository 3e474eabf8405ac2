CONSTANTS
    NumChannels = 1
    Peers = 1
    MaxEvents = 4
SPECIFICATION Spec
CHECK_DEADLOCK FALSE
INVARIANTS
    TypeOK
    RecordsBeforeMessages
    TimerFollowsRole
PROPERTIES
    EventsHandled
    ShutdownCompletes
