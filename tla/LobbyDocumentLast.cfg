SPECIFICATION DocumentSpec
CONSTANTS
    MAX_DEPTH = 6
    GENERIC_BUFLEN = 2
    KEY_SIZE = 1
    VALUE_SIZE = 1
    MaxLength = 0
    MaxListLength = 0
    MaxSlots = 2
PROPERTY LastIsMarked
