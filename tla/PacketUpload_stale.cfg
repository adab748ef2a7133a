CONSTANTS
    Blocks = {b1, b2, b3}
    MaxPackets = 4
    BatchMax = 3
SPECIFICATION UploadSpec
INVARIANT QueuedAreAllocated
CHECK_DEADLOCK FALSE
