\* Uploads of the same name one after the other; connections break, clients leave.
CONSTANTS
    s1 = s1
    s2 = s2
    va = va
    vb = vb
    Sessions = {s1, s2}
    Versions = {va, vb}
    Size <- MCSize
    Hole = Hole
    Faults = {}
    MaxConnects = 3
    MaxPuts = 3
    MaxBreaks = 1
SPECIFICATION Spec
SYMMETRY SessionSymmetry
CHECK_DEADLOCK FALSE
INVARIANTS
    TypeOK
    ResumePointIsReal
    AckedIsWhole
    HolesOnlyUnderUpload
    MappingInsideFile
