\* One worker, two clients, three connections, one upload, one SIGINT at any moment.
CONSTANTS
    c1 = c1
    c2 = c2
    v = v
    Num = 1
    Fds = {f1, f2}
    NoFd = NoFd
    Backlog = 1
    MaxSignals = 1
    Sessions = {c1, c2}
    NoClient = NoClient
    Versions = {v}
    Size <- MCSize
    Hole = Hole
    Faults = {}
    MaxConnects = 3
    MaxPuts = 1
    MaxBreaks = 0
SPECIFICATION FairSpec
CHECK_DEADLOCK FALSE
INVARIANTS
    SessionInOnePlace
    StopKeepsResumePoint
PROPERTIES
    StopEndsPuts
    ImplementsPool
