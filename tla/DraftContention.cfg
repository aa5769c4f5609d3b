\* Two drafts over shared coins, a node without a transaction index, and
\* reservations seen as claims of whole drafts.
SPECIFICATION Spec
CONSTANTS
    d1 = d1
    d2 = d2
    c1 = c1
    c2 = c2
    None = None
    Drafts = {d1, d2}
    Coins = {c1, c2}
    Inputs <- TwoCoins
    Sends = {d1}
    HasTxIndex = FALSE
    MaxFaults = 1
    Grace = 0
    Ttl = 1
    Watch = 2
    Overlap = FALSE
    ReleaseByHand = FALSE
    MaxSubmits = 1
    MaxCrashes = 0
INVARIANT ReservationsAreOwned
INVARIANT GivenUpHoldsNothing
INVARIANT SentMeansSent
PROPERTY ClaimsKept
PROPERTY InFlightCoinsFreedOnlyByVerdict
