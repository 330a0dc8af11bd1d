\* Two schema files, changed once; runs one after the other, failing and killed anywhere.
CONSTANTS
    Tool = p1
    Process = {p1}
    File = {"A", "B"}
    Version = {v1, v2}
    Batches = {}
    Chunks = 2
    Inode = {i1, i2, i3, i4}
    NoInode = NoInode
    Path = {1, 2}
    Missing = Missing
    Invalid = Invalid
    MaxChanges = 1
SPECIFICATION ToolSpec
SYMMETRY Symmetry
INVARIANTS NeverPartial FirstProblemReported SuccessMeansGenerated
PROPERTIES NothingWrittenUnlessValid
CHECK_DEADLOCK FALSE
