\* Every message is clicked once: the system may come to rest.
CHECK_DEADLOCK FALSE
SPECIFICATION Spec
CONSTANTS
    exportA = exportA
    exportB = exportB
    browse = browse
    sort = sort
    sA = sA
    sB = sB
    sFiles = sFiles
    None = None
    Workers = {w1, w2}
    MaxTries = 2
    Further = {sort}
    Lossy = {sFiles}
    MaxClicks = 3
    Pages = 2
    Messages <- MCMessages
    Sockets <- MCSockets
    SocketOf <- MCSocketOf
    Kind <- MCKind
INVARIANTS
    TypeOK
    PendingIsKept
    OncePerChain
    FileOfOneExport
    OpenOnlyAfterFailure
PROPERTIES
    EveryClickSettles
