CONSTANTS
    RTMP_USR_NUM = 1
    QUEUE_CHN_MAX = 2
    QUEUE_USE_MAX = 2
    SerialNumbers = {"d1"}
    FirstDvr = "d1"
    NumChannels = 1
    Threads = {1}
    MaxAdds = 0
    MaxConf = 1
SPECIFICATION FairSpec
PROPERTIES Reconnects
