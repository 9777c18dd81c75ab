\* Two sessions on one tree, four commands.
CONSTANTS
    Sessions = {s1, s2}
    Names = {"a", "b"}
    Args <- MCArgs
    PathMax = 5
    NameLen <- MCNameLen
    MaxText = 4
    NoPath = NoPath
    MaxCommands = 4
SPECIFICATION Spec
CHECK_DEADLOCK FALSE
INVARIANTS
    TypeOK
    LostOnlyByRemoval
PROPERTIES
    ListingWhole
    ImplementsDirectoryService
