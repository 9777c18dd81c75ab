\* Crashes, failing system calls and overlapping uploads: blocks stay in place, no client waits for ever.
CONSTANTS
    s1 = s1
    s2 = s2
    va = va
    vb = vb
    Sessions = {s1, s2}
    Versions = {vb}
    Size <- MCSize
    Hole = Hole
    Faults = {"crash", "fstat", "ftruncate", "mmap", "overlap"}
    MaxConnects = 2
    MaxPuts = 2
    MaxBreaks = 0
SPECIFICATION FairSpec
CHECK_DEADLOCK FALSE
INVARIANTS
    BlocksInPlace
PROPERTIES
    PutsEnds
