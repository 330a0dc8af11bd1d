CONSTANTS
    Thread = {t1, t2, t3}
    Item = {a, b, c, d, e}
    NoItem = NoItem
    Capacity = 2
    StaleReads = TRUE
SPECIFICATION Spec
SYMMETRY Symmetry
INVARIANTS RingConsistent SlotExclusion
CHECK_DEADLOCK FALSE
