\* Loads see the latest value: answers of false are judged, and the ring is
\* compared with the bounded FIFO queue.
CONSTANTS
    Thread = {t1, t2, t3}
    Item = {a, b, c, d, e}
    NoItem = NoItem
    Capacity = 4
    StaleReads = FALSE
SPECIFICATION Spec
SYMMETRY Symmetry
PROPERTIES ImplementsFifo RefusalJustified
CHECK_DEADLOCK FALSE
