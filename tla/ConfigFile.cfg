SPECIFICATION Spec
CONSTANTS
    t1 = t1
    t2 = t2
    t3 = t3
    c1 = c1
    c2 = c2
    plain = plain
    cut = cut
    other = other
    NoValue = NoValue
    Cut = Cut
    Nobody = Nobody
    WritesFail = FALSE
    Threads <- MCThreads
    Clients <- MCClients
    Sends <- MCSends
    Reload <- MCReload
    KeyIn <- MCKeyIn
INVARIANTS
    FileFollowsMap
