\* One draft, commands overlapping each other, the poll, the sync, releases
\* by hand, a crash or a fault; its row and coin come to what the chain shows.
SPECIFICATION FairSpec
CONSTANTS
    d1 = d1
    d2 = d2
    c1 = c1
    c2 = c2
    None = None
    Drafts = {d1}
    Coins = {c1}
    Inputs <- OneCoin
    Sends = {d1}
    HasTxIndex = TRUE
    MaxFaults = 1
    Grace = 1
    Ttl = 2
    Watch = 3
    Overlap = TRUE
    ReleaseByHand = TRUE
    MaxSubmits = 2
    MaxCrashes = 1
PROPERTY TrackedDraftsConverge
PROPERTY CacheCatchesUp
PROPERTY MinedAfterAllIsConfirmed
INVARIANT TypeOK
INVARIANT GivenUpHoldsNothing
INVARIANT SentMeansSent
