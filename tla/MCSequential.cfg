\* Words of three bits (sets, the compute sample), four bits (jobs), bytes of two (packets).
CONSTANTS
    InitialSize = 1
    Mask = 7
    Value = {v1, v2}
    MaxGeneration = 2
    MaxPosition = 1
    MaxIndex = 3
    NoValue = NoValue
    SizeMax = 15
    JobSize = 3
    JobAlignment = 2
    Alignments = {1, 2, 4, 8}
    Schemas <- SomeSchemas
    MaxSize = 6
    Byte = 4
    Languages = {"cpp", "csharp"}
    Versions = {1, 2}
    JsonValues <- SomeValues
    InputLists <- SomeBatches
    Max16 = 3
    MaxSource = 12
    Machines <- SomeMachines
    Computers <- SomeComputers
    JobLists <- SomeJobs
    Capacity = 4
    LocalSize = 2
    Word = 8
SPECIFICATION SequentialSpec
INVARIANTS LayoutIsSound ParseMatches FieldsTile CodecRoundTrip
           PoolMatchesReference SetupSound JobsVerified
PROPERTIES ImplementsHandleMap FlushRemovesMarked
CHECK_DEADLOCK FALSE
