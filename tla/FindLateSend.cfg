\* A draft sent after its reservation lapsed.
SPECIFICATION Spec
CONSTANTS
    d1 = d1
    d2 = d2
    c1 = c1
    c2 = c2
    None = None
    Drafts = {d1, d2}
    Coins = {c1}
    Inputs <- OneCoin
    Sends = {d1}
    HasTxIndex = TRUE
    MaxFaults = 0
    Grace = 1
    Ttl = 2
    Watch = 3
    Overlap = FALSE
    ReleaseByHand = FALSE
    MaxSubmits = 1
    MaxCrashes = 0
PROPERTY InFlightCoinsNotReselected
