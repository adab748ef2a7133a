CONSTANTS
    TickRange = 256
    Inputs <- Packets
SPECIFICATION InputSpec
INVARIANT StrongestChosen
