SPECIFICATION Spec
CONSTANTS
    id1 = id1
    id2 = id2
    id3 = id3
    crcA = crcA
    crcB = crcB
    crcC = crcC
    Ids <- MCIds
    Crcs <- MCCrcs
    CalcCRC32 <- Collide
    Nicks = {n1, n2}
    Addrs = {a1, a2, a3}
    NULL = NULL
    HeapFails = FALSE
PROPERTY IsReliable
