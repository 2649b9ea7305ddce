\* One process with two workers, as docker-compose.yml starts it; a kill and a signal.
SPECIFICATION FairSpec
CONSTANTS
    p1 = p1
    p2 = p2
    w1 = w1
    w2 = w2
    NumJobs = 2
    Proc = {p1}
    Worker = {w1, w2}
    ProcOf <- OneProc
    Unhandled = {2}
    MaxAttempts = 2
    StaleAfter = 1
    MaxClock = 3
    MaxCrashes = 1
    MaxStops = 1
    MaxErrors = 0
INVARIANTS
    LoneProcessNeverOverruns
PROPERTIES
    EveryJobEnds
    StaleOrphanEnds
    KeepsPromise
