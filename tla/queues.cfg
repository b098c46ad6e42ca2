\* Two threads push; the main thread waits and pops, or the two pop as well.
SPECIFICATION Spec
CONSTANTS
    t1 = t1
    t2 = t2
    t3 = t3
    a = a
    b = b
    none = none
    RingSize = 2
    NarrowLimit = 4
    Pushers = {t1, t2}
    Poppers = {t1, t2, t3}
    Tag <- Tags
    Main = t3
    Items = {a, b}
    NoItem = none
    MaxPushes <- Pushes
INVARIANTS
    FifoDelivery
    OneThreadPerSlot
    WaitSeesTheHead
PROPERTIES
    EveryElementPopped
    RefusedWithCause
    PushLockFree
\* The tag queue rests when it is empty and nobody pushes.
CHECK_DEADLOCK FALSE
