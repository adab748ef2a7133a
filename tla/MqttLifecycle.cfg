CONSTANTS
    TaskIds = {t1, t2}
    AppWaits = TRUE
SPECIFICATION FairSpec
INVARIANTS OneTask NoTaskAfterStop SocketClosed BitFollowsState
PROPERTY StopReturns
CHECK_DEADLOCK FALSE
