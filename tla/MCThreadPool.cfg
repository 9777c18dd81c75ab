\* Two workers and three descriptors: a connection waits while both workers are busy,
\* and accept runs out of descriptors.
CONSTANTS
    Num = 2
    Fds = {fd1, fd2, fd3}
    NoFd = NoFd
    Backlog = 1
    MaxSignals = 2
SPECIFICATION FairSpec
INVARIANTS
    TypeOK
    FdOwnedOnce
    ActiveFdsExact
    NoLostWakeup
    ShutdownReachesSessions
    CleanReturn
PROPERTIES
    ShutdownCompletes
    QueuedConnectionsLeaveQueue
    ImplementsConnectionService
