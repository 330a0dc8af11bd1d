CONSTANTS
    Client = {c1, c2}
    Worker = {w1, w2}
    Lane = {l1, l2}
    Message = {m1, m2, m3, m4}
    NoMessage = NoMessage
    NoLane = NoLane
    LaneCapacity = 2
    ReadyCapacity = 2
    MaxMessagesPerDrain = 1
SPECIFICATION Spec
SYMMETRY Symmetry
INVARIANTS SchedulerConsistent ScheduleAssertions StopIsSafe
PROPERTIES ImplementsMailboxes
CHECK_DEADLOCK FALSE
