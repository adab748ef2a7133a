\* At most three packets and two exports.
SPECIFICATION Spec
CONSTANTS
    Feed <- MCFeed
    Files <- MCFiles
    MaxPackets = 3
    MaxSaves = 2
INVARIANTS
    TypeOK
    CollectsEachOnce
    QuietWhenDisconnected
    UndisturbedSaveIsComplete
PROPERTY HangsOnlyWhileDrawing
\* Disconnecting while a packet is being shown stops both threads.
CHECK_DEADLOCK FALSE
