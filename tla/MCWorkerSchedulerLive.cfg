CONSTANTS
    Client = {c1, c2}
    Worker = {w1}
    Lane = {l1, l2}
    Message = {m1, m2}
    NoMessage = NoMessage
    NoLane = NoLane
    LaneCapacity = 2
    ReadyCapacity = 2
    MaxMessagesPerDrain = 1
SPECIFICATION FairSpec
PROPERTIES AcceptedIsHandled StopReturns
CHECK_DEADLOCK FALSE
