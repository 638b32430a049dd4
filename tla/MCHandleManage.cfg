CONSTANTS
    h1 = h1
    h2 = h2
    h3 = h3
    Nodes = {n1, n2, n3}
    head = head
    NULL = NULL
    Handles = {h1, h2, h3}
    Values = {1, 2, 3}
    Member <- MCMember
    Threads = {t1, t2}
SPECIFICATION FairSpec
INVARIANTS WellLinked
PROPERTIES ImplementsHandleList LoopsEnd
