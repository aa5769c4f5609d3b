\* Two FINALIZEs, one discarded and the other signed while the job waits.
SPECIFICATION Spec
CONSTANTS
    Finals = {"f", "g", "there"}
    Ours = {"f", "g"}
    OurCancels = {"cancel"}
    Purchases = {"p"}
    Cancels = {"cancel", "elsewhere"}
    Foreign = {}
    MaxFaults = 0
    Depths = {1}
    MayExpire = FALSE
    TxIndex = FALSE
    Devices = {"seller"}
    MaxCommands = 4
    MaxPrompts = 1
    MaxFails = 0
PROPERTY FinalizeNotLost
CHECK_DEADLOCK FALSE
