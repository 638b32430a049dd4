\* Three logins and three other calls; the counter starts again at the second login.
SPECIFICATION Spec
CONSTANTS
    http = http
    mqtt = mqtt
    Threads = {http, mqtt}
    Levels = {2, 4}
    InnerLevel = 4
    ID_MAX = 3
    MaxLogins = 3
    MaxCalls = 3
SYMMETRY Alike
CHECK_DEADLOCK FALSE
INVARIANTS
    FaultsOnlyOnOverlap
    RunsAsOwner
    RegisteredIsAllocated
