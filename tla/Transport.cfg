CONSTANTS
    MaxConnects = 2
    MaxChunks = 6
SPECIFICATION Spec
INVARIANTS NothingLeaks TaskUsesOpenSocket FramesPaired ConnectComesFirst AnsweredOrStale
CHECK_DEADLOCK FALSE
