\* Two runs at a time into one directory.
CONSTANTS
    Process = {p1, p2}
    File = {"a"}
    Batches <- OneFile
    Version = {v1, v2}
    Chunks = 2
    Inode = {i1, i2, i3, i4}
    NoInode = NoInode
SPECIFICATION Spec
SYMMETRY Symmetry
INVARIANTS NothingPartialRemains
CHECK_DEADLOCK FALSE
