CONSTANTS
    TickRange = 256
    Inputs <- AllInputs
SPECIFICATION InputSpec
INVARIANTS MessagesReadBack OutboxKeepsRest TextReadBack GpsKeepsLast FramesReadBack DebounceSpacing
