\* The sync lock, the reminders, the signer, the chain scanner, the local node.
SPECIFICATION DeskSpec
CONSTANTS
    app1 = app1
    app2 = app2
    syncd1 = syncd1
    syncd2 = syncd2
    run1 = run1
    run2 = run2
    run3 = run3
    cycle1 = cycle1
    cycle2 = cycle2
    sale = sale
    reveal = reveal
    alice = alice
    bob = bob
    bid1 = bid1
    bid2 = bid2
    hsd1 = hsd1
    hsd2 = hsd2
    hsd3 = hsd3
    Finalize = {sale}
    Own = {reveal}
    Fresh = 1
    LastDay = 2
    Profiles = {alice, bob}
    Nobody = Nobody
    MinSession = 1
    MaxSession = 3
    Procs = {app1, syncd1, syncd2}
    Threads = {run1, run2, cycle1, cycle2}
    Kind <- AppsAndDaemons
    Proc <- TheirRuns
    NoOne = NoOne
    Beat = 1
    StaleAfter = 2
    MaxMisses = 1
    MaxMishaps = 1
    Bids = {bid1, bid2}
    OpenOf <- OpenHeights
    Auction = 2
    Retained = 3
    Batch = 2
    LastHeight = 6
    MaxReorgs = 1
    MaxCrashes = 1
    Hsds = {hsd1, hsd2, hsd3}
    PidOf <- Pids
    NoHsd = NoHsd
INVARIANT TypeOK
INVARIANT StaleMeansGone
INVARIANT TakeoverNoticedInTime
PROPERTY LostRunsStop
PROPERTY DeadHolderReplaced
INVARIANT DeskTypeOK
INVARIANT KeyGoneInTime
INVARIANT NoKeyOfAnother
PROPERTY SentOnce
PROPERTY Reminded
INVARIANT IndexComplete
INVARIANT OnlyOwnStopped
INVARIANT NoneForgotten
