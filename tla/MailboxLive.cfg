\* All threads start; fairness; small capacities so that boxes overflow often.
SPECIFICATION FairSpec
CONSTANTS
    collect = collect
    storage = storage
    lvgl = lvgl
    NoNode = NoNode
    Tasks <- MCTasks
    Senders <- MCSenders
    Order <- MCOrder
    MaxLen <- MCSmallLen
    MayFail <- MCNoFail
    MaxSend = 3
PROPERTIES
    Served
    BoxFair
