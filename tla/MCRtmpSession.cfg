CONSTANTS
    RTMP_USR_NUM = 2
    QUEUE_CHN_MAX = 3
    QUEUE_USE_MAX = 2
    SerialNumbers = {"d1", "d2"}
    FirstDvr = "d1"
    NumChannels = 1
    Threads = {1, 2}
    MaxAdds = 1
    MaxConf = 1
SPECIFICATION FairSpec
INVARIANTS EntriesNotShared ReadersOwnTheirSlot EntriesServed
PROPERTIES SessionsEnd
