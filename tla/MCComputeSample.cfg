\* Memory types that are visible but not coherent among them.
CONSTANTS
    Computers <- SomeComputers
    JobLists <- SomeJobs
    Capacity = 4
    LocalSize = 2
    Word = 8
SPECIFICATION Spec
INVARIANTS SelectedIsCoherent
CHECK_DEADLOCK FALSE
