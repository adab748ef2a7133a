CONSTANTS
    QueueLen = 1
    BusMayFail = FALSE
SPECIFICATION FairSpec
INVARIANTS GivesOnlyCreated OneSampleAfterDeep
PROPERTIES PressLostOnlyWhenStale EventuallyAsleep KeepsSampling RedRecoversAwake
