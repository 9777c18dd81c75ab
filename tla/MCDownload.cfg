\* Two sessions upload, cut and remove the file while it is downloaded; all faults.
CONSTANTS
    va = va
    vb = vb
    Uploaders = {u1, u2}
    Versions = {va, vb}
    Size <- MCSize
    Hole = Hole
    Inodes = {i1, i2}
    NoInode = NoInode
    Faults = {"crash", "disk", "mmap", "ftruncate"}
    MaxConnects = 2
    MaxCommands = 2
    MaxUploads = 2
SPECIFICATION Spec
SYMMETRY DownloadSymmetry
CHECK_DEADLOCK FALSE
INVARIANTS
    TypeOK
    OffsetsAgree
    LocalInPlace
    DoneIsWhole
    DoneIsReal
