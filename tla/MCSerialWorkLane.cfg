\* Batches shorter than the backlog: a lane is drained several times.
CONSTANTS
    Publisher = {p1, p2}
    Drainer = {d1, d2}
    Message = {m1, m2, m3, m4}
    NoMessage = NoMessage
    NoThread = NoThread
    Capacity = 2
    MaxMessages = 2
    RingThread = {t1, t2}
    Item = {a, b, c}
    NoItem = NoItem
    StaleReads = FALSE
SPECIFICATION BothSpec
INVARIANTS LaneSafe
PROPERTIES ImplementsMailbox WorkFinishes
CHECK_DEADLOCK FALSE
