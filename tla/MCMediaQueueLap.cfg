SPECIFICATION Spec
CONSTANTS
    Size = 8
    QUEUE_USE_MAX = 1
    HeadLen = 2
    FrameLens = {2}
    BuffLen = 2
    MaxFrames = 6
PROPERTIES IframeNotOverwritten
CHECK_DEADLOCK FALSE
