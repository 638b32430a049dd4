\* All calls, four of them by two threads after the start, with two deaths.
SPECIFICATION Spec
CONSTANTS
    dvr1 = dvr1
    dvr2 = dvr2
    dvr3 = dvr3
    main = main
    srv1 = srv1
    srv2 = srv2
    Keys = {"ConfDvrList", "ConfDeviceAlarmLeave"}
    Values <- AllValues
    NoItem = NoItem
    FirstDoc <- ShippedDoc
    Broken = Broken
    Threads = {main, srv1, srv2}
    NoThread = NoThread
    Dvrs = {dvr1, dvr2, dvr3}
    HomeDvr = dvr1
    Params = {1, 2}
    HomeParam = 1
    low = low
    high = high
    Levels = {low, high}
    FirstLevel = low
    Main = main
    NET_DVR_MAX_LEN = 3
    MaxCalls = 4
    MaxDeaths = 2
SYMMETRY Alike
CHECK_DEADLOCK FALSE
INVARIANTS
    SerialsUnique
    
    ListNeverReturns
PROPERTIES
    IsConfStore
