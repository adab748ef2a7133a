SPECIFICATION SessionSpec
CONSTANTS
    Ids = {i1, i2}
    i1 = i1
    i2 = i2
    Kinds = {"PUBLISH0", "PUBLISH1", "PUBLISH2", "SUBSCRIBE", "UNSUBSCRIBE"}
    MaxCalls = 2
    MaxIncoming = 1
    MaxDrops = 1
    OutboxMax = 1
INVARIANTS AckAwaited WrittenOnce
CONSTRAINT NotRaced
SYMMETRY IdsAreAlike
CHECK_DEADLOCK FALSE
