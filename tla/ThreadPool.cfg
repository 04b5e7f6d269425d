SPECIFICATION Spec
CONSTANTS
    Workers = {w1, w2}
    Tasks = {t1, t2, t3}
    Closers = {c1, c2}
    queue_size = 2
    NULL = NULL
INVARIANTS
    InOrderOnce
    DrainedIfAnyWasLeft
PROPERTIES
    DestroyReturns
CHECK_DEADLOCK FALSE
