\* Every thread has its own connection.
SPECIFICATION Spec
CONSTANTS
    t1 = t1
    t2 = t2
    t3 = t3
    Threads = {t1, t2, t3}
    ApiThreads = {t1}
INVARIANTS
    ReadIsCurrent
    MarkDurable
PROPERTIES
    TransitionsLegal
    LockReleased
