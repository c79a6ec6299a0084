SPECIFICATION Spec
CONSTANTS
    id1 = id1
    id2 = id2
    id3 = id3
    crcA = crcA
    crcB = crcB
    crcC = crcC
    Ids <- MCIds
    Crcs <- MCCrcs3
    CalcCRC32 <- Distinct
    Nicks = {n1, n2}
    Addrs = {a1, a2, a3}
    NULL = NULL
    HeapFails = TRUE
SYMMETRY Symmetry
INVARIANTS TypeOK WalkIsSafe
PROPERTY IsCache
