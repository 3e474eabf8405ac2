CONSTANTS
    Clients = {c1, c2}
    Files = {f1}
    Contents = {x, empty}
    EmptyContent = empty
    Lives = {0, 1}
    Versions = {1, 2}
    NoFile = NoFile
    NoCommand = NoCommand
    MaxLines = 2
    MaxNow = 2
SPECIFICATION Spec
CHECK_DEADLOCK FALSE
PROPERTY PermanentFilesStay
