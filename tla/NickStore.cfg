SPECIFICATION Spec
CONSTANTS
    u1 = u1
    bad = bad
    empty = empty
    short = short
    long = long
    NoId = noid
    Ids = {u1, bad}
    ValidIds = {u1}
    Names = {empty, short, long}
    NoName = empty
    Length <- MCLength
    PLAYER_NAME_LEN = 64
    Lists <- MCLists
    NULL = NULL
INVARIANTS TypeOK ShownAsGiven TableAgreesWithRegistry
PROPERTY AutoSaveYields
