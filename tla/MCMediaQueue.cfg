SPECIFICATION FairSpec
CONSTANTS
    Size = 6
    QUEUE_USE_MAX = 2
    HeadLen = 2
    FrameLens = {2, 3}
    BuffLen = 3
    MaxFrames = 5
INVARIANTS
    IInv
    NoTornRead
    NoRedelivery
    WalkAgrees
    MoveReadPointFindsIframe
PROPERTIES
    MovedToIframe
    
CHECK_DEADLOCK FALSE
