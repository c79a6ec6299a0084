SPECIFICATION Spec
CONSTANTS
    Threads = {t1, t2}
    MAX_SERVERS = 2
    NULL = NULL
    EmptyScans = FALSE
    CreateThreadFails = TRUE
SYMMETRY Symmetry
INVARIANTS TypeOK SingleScanner HScanMeansScanning SelectionListed QuiescentUi
PROPERTY DialogTargetStable
