\* Main pushes and one worker executes, around a ring of four slots.
SPECIFICATION Spec
CONSTANTS
    a = a
    b = b
    none = none
    RingSize = 4
    NarrowLimit = 4
    Main = Main
    Worker = Worker
    Pushers = {Main}
    Poppers = {Worker}
    Items = {a, b}
    NoItem = none
    Permits = 3
    MaxTasks = 7
INVARIANTS
    PushTaskNeverRejected
    WorkerNeverEmptyHanded
    SlotsDisjoint
    ExecutedInOrder
PROPERTIES
    ImplementsFifo
    ProducerUnblocked
\* The system rests when every task is executed and none is pushed.
CHECK_DEADLOCK FALSE
