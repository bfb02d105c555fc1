\* The seal-up ticker when the retention interval ends on an empty file.
CONSTANTS
    w1 = w1
    w2 = w2
    b1 = b1
    b2 = b2
    b3 = b3
    i1 = i1
    i2 = i2
    i3 = i3
    i4 = i4
    i5 = i5
    i6 = i6
    i7 = i7
    None = None
    Writers <- MCWriters
    Batches <- MCBatches
    Inodes <- MCInodes
    OldSealed = {}
    MaxCrashes = 0

SPECIFICATION Spec

PROPERTY TickerWaitsForDeadline
