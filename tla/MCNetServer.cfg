\* Two servers, three connections, requests of two parts.
SPECIFICATION Spec
CONSTANTS
    Servers = {"http", "hj212"}
    Http = {"http"}
    Parts = 2
    NumFds = 2
    MaxConns = 3
    MaxEvents = 6
CHECK_DEADLOCK FALSE
INVARIANTS
    SocketsAreOwn
    AnswersAreOwn

    
