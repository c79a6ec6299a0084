SPECIFICATION UsersSpec
CONSTANTS
    Threads = {t1, t2}
    MAX_SERVERS = 1
    NULL = NULL
    EmptyScans = FALSE
    CreateThreadFails = FALSE
INVARIANT AutoScanNotLost
PROPERTIES AutoScanRecurs StopEnds AutoScanSettles SecondCloseExits
