\* Two workers and main, four configuration files, a crash at any point.
CONSTANTS
    Workers = {w1, w2}
    Main = Main
    NoFile = NoFile
    Configs <- MCConfigs
    Writable = {"a.log", "../log/server.log"}
    MaxCalls = 2
    UpperCase <- MCUpperCase
SPECIFICATION Spec
SYMMETRY WorkerSymmetry
CHECK_DEADLOCK FALSE
INVARIANTS
    LogOutlivesThreads
    ReturnedIsKept
