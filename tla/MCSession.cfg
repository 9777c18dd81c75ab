\* Four commands in any order, files of up to two blocks, every failure at any point.
CONSTANTS
    MaxBlocks = 2
    MaxCommands = 4
    Window = 1
SPECIFICATION FairSpec
CHECK_DEADLOCK FALSE
INVARIANTS
    TypeOK
    InStep
    BlocksGoHome
PROPERTIES
    CommandsEnd
    WorkerFreed
