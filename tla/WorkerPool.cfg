\* More workers and clients than the ring has slots.
CONSTANTS
    Client = {c1, c2}
    Worker = {w1, w2, w3}
    Item = {i1, i2, i3}
    NoItem = NoItem
    Capacity = 2
SPECIFICATION FairSpec
INVARIANTS PoolConsistent WorkConserving
PROPERTIES ImplementsTaskPool AcceptedIsFinished CallsReturn
CHECK_DEADLOCK FALSE
