CONSTANTS
    Blocks = {b1, b2, b3, b4}
    MaxPackets = 6
    BatchMax = 3
SPECIFICATION UploadSpec
INVARIANTS SentOnceInOrder LostOnlyFromFullBatch FreedWhenGone
CHECK_DEADLOCK FALSE
