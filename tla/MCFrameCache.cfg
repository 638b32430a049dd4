\* Three rows of two places, and frames that do not fit.
SPECIFICATION CacheSpec
CONSTANTS
    NET_IPC_MAX_NUM = 3
    MAX_FRAME_LENTH = 2
    MaxStreams = 2
    MaxPacks = 6
CHECK_DEADLOCK FALSE
INVARIANTS
    CacheInv
    FramesInOrder
    FramesWhole
