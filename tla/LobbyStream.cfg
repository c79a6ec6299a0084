SPECIFICATION StreamSpec
CONSTANTS
    MAX_DEPTH = 6
    GENERIC_BUFLEN = 3
    KEY_SIZE = 1
    VALUE_SIZE = 2
    MaxLength = 2
    MaxSlots = 2
    MaxListLength = 24
INVARIANTS TypeOK NestingInBounds BuffersTerminated
PROPERTIES DeliveredInOrder PairsDelivered ListAccepted
