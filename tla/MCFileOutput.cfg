\* Two batcher workers, three batches, one crash-and-restart.  A crash may
\* come after out() returned and before the batcher committed, so a batch
\* can be written twice; seven inodes cover the first file, one per write
\* and one per restart.  The directory starts with an earlier run's sealed
\* files 0..8, so this run's seals reach idx 10 and more, where the glob's
\* name order (name_10_... before name_9_...) differs from idx order.
CONSTANTS
    w1 = w1
    w2 = w2
    b1 = b1
    b2 = b2
    b3 = b3
    i1 = i1
    i2 = i2
    i3 = i3
    i4 = i4
    i5 = i5
    i6 = i6
    i7 = i7
    None = None
    Writers <- MCWriters
    Batches <- MCBatches
    Inodes <- MCInodes
    OldSealed <- MCOldSealed
    MaxCrashes = 1

SPECIFICATION FairSpec

INVARIANT TypeOK
INVARIANT WriterSeesOpenFile
INVARIANT AckedDurable
INVARIANT NextSealNameFree
PROPERTY EventuallySealed
