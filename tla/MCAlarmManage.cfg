CONSTANTS
    Blocks = {b1, b2, b3}
    NULL = NULL
    Handles = {h1, h2}
    Deaf = {h2}
    MAX_PUSHMSG_NUM = 1
    MaxAlarms = 4
    MaxRegistered = 2
SPECIFICATION FairSpec
PROPERTIES AlarmsLeave
INVARIANTS HeapConsistent InOrder OnlyEvictionDisturbs
