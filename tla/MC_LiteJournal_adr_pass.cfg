CONSTANTS
    NCPU = 1
    NumSlots = 3
    MaxTxnEntries = 2
    i1 = i1
    i2 = i2
    f1 = f1
    Inodes <- MCInodes
    Fields <- MCNoFields
    Vals <- MCVals
    ReplicaInode = TRUE
    ExtendedADR = FALSE
    None = None
SPECIFICATION Spec
SYMMETRY InodeSymmetry
INVARIANT PointersDurableWhenIdle
