\* The server is killed in the middle of an upload.
CONSTANTS
    s1 = s1
    s2 = s2
    va = va
    vb = vb
    Sessions = {s1, s2}
    Versions = {va, vb}
    Size <- MCSize
    Hole = Hole
    Faults = {"crash"}
    MaxConnects = 2
    MaxPuts = 2
    MaxBreaks = 0
SPECIFICATION Spec
CHECK_DEADLOCK FALSE
INVARIANTS
    ResumePointIsReal
