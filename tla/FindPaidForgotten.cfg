SPECIFICATION Spec
CONSTANTS
    None = None
    Nodes <- MCNodes
    MaxFaults = 1
    MissingBlocks = 1
    ExpiryBlocks = 2
    Window = 1
PROPERTY PaidPurchaseKept
CHECK_DEADLOCK FALSE
