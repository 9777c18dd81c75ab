\* What the client tells its user.
CONSTANTS
    s1 = s1
    s2 = s2
    va = va
    vb = vb
    Sessions = {s1, s2}
    Versions = {va, vb}
    Size <- MCSize
    Hole = Hole
    Faults = {}
    MaxConnects = 1
    MaxPuts = 2
    MaxBreaks = 0
SPECIFICATION FairSpec
CHECK_DEADLOCK FALSE
PROPERTIES
    TruthfulSuccess
