\* A listing comes to say who has the name.
SPECIFICATION FairSpec
CONSTANTS
    Finals = {"f", "there"}
    Ours = {"f"}
    OurCancels = {"cancel"}
    Purchases = {"p"}
    Cancels = {"cancel", "elsewhere"}
    Foreign = {"elsewhere", "p", "leave", "away"}
    MaxFaults = 1
    Depths = {1}
    MayExpire = TRUE
    TxIndex = TRUE
    Devices = {"seller"}
    MaxCommands = 3
    MaxPrompts = 1
    MaxFails = 1
PROPERTY ListingFollowsName
CHECK_DEADLOCK FALSE
