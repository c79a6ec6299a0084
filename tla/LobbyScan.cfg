SPECIFICATION ScanSpec
CONSTANTS
    MAX_SERVERS = 2
    MAX_PLAYERS = 3
    Ids = {g1}
    Users = {u1, u2}
    Names = {n1, n2}
    Limits = {2}
    NULL = NULL
    g1 = g1
    u1 = u1
    u2 = u2
    n1 = n1
    n2 = n2
    Accounts <- MCAccounts
    MaxAddrs = 2
    MaxScans = 2
    MaxObjects = 5
INVARIANTS ScanTypeOK TableInBounds NothingHeld RowsMatchList ChangesAreTold NoFalseNews StatusMatches StoppedScanFails
PROPERTIES ImplementsTable AcceptsLists EveryScanEnds
