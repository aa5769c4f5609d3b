\* One listing and its name: commands open at once, another device, a reorg
\* of one or two transactions, an eviction or the expiry, no transaction index.
SPECIFICATION Spec
CONSTANTS
    Finals = {"f", "there"}
    Ours = {"f"}
    OurCancels = {cancel1, cancel2}
    Purchases = {"p"}
    Cancels = {cancel1, cancel2, "elsewhere"}
    Foreign = {"leave", "there", "elsewhere", "away", "p"}
    MaxFaults = 1
    Depths = {1, 2}
    MayExpire = TRUE
    TxIndex = FALSE
    Devices = {"seller", "fresh"}
    MaxCommands = 3
    MaxPrompts = 2
    MaxFails = 0
INVARIANT TypeOK
INVARIANT NeverSignedTwice
INVARIANT FileIsOfItsLock
PROPERTY FinalizeKept
PROPERTY CancelKept
SYMMETRY Symmetry
CHECK_DEADLOCK FALSE
