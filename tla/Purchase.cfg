SPECIFICATION FairSpec
CONSTANTS
    None = None
    Nodes <- MCNodes
    MaxFaults = 1
    MissingBlocks = 1
    ExpiryBlocks = 2
    Window = 1
INVARIANT TypeOK
PROPERTY SentPurchaseKept
PROPERTY LossIsTrue
PROPERTY RevivedWasMined
PROPERTY PurchaseSettles
CHECK_DEADLOCK FALSE
