\* A run loses its fresh lock to the end of the run before it.
SPECIFICATION Spec
CONSTANTS
    app1 = app1
    app2 = app2
    syncd1 = syncd1
    syncd2 = syncd2
    run1 = run1
    run2 = run2
    run3 = run3
    cycle1 = cycle1
    cycle2 = cycle2
    Procs = {app1, syncd1, syncd2}
    Threads = {run1, run2, cycle1, cycle2}
    Kind <- AppsAndDaemons
    Proc <- TheirRuns
    NoOne = NoOne
    Beat = 1
    StaleAfter = 2
    MaxMisses = 1
    MaxMishaps = 0
PROPERTY FreshLockKept
