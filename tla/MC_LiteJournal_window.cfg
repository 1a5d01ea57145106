CONSTANTS
    NCPU = 1
    NumSlots = 4
    MaxTxnEntries = 3
    i1 = i1
    i2 = i2
    f1 = f1
    Inodes <- MCInodes
    Fields <- MCFields
    Vals <- MCVals
    ReplicaInode = TRUE
    ExtendedADR = FALSE
    None = None
SPECIFICATION Spec
INVARIANT JournalWindowIntact
