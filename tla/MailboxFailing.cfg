\* Registrations may fail, also the one of lvgl while storage looks for its node.
\* When both receivers are lost, and the sender is at MaxSend, nothing is left to do.
SPECIFICATION Spec
CONSTANTS
    collect = collect
    storage = storage
    lvgl = lvgl
    NoNode = NoNode
    Tasks <- MCTasks
    Senders <- MCSenders
    Order <- MCOrder
    MaxLen <- MCMaxLen
    MayFail <- MCMayFail
    MaxSend = 7
INVARIANTS
    TypeOK
    CountedAndBounded
    InOrder
    NoLostWakeup
    NoFalseMiss
PROPERTIES
    NoFreshDangling
    BoxSafe
CHECK_DEADLOCK FALSE
