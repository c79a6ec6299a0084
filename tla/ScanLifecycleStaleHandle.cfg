SPECIFICATION Spec
CONSTANTS
    Threads = {t1}
    MAX_SERVERS = 1
    NULL = NULL
    EmptyScans = TRUE
    CreateThreadFails = FALSE
INVARIANT HScanMeansScanning
