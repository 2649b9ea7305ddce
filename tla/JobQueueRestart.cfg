\* One process, killed in mid-handler by a restart: the row stays running.
SPECIFICATION FairSpec
CONSTANTS
    p1 = p1
    p2 = p2
    w1 = w1
    w2 = w2
    NumJobs = 2
    Proc = {p1}
    Worker = {w1, w2}
    ProcOf <- OneProc
    Unhandled = {2}
    MaxAttempts = 2
    StaleAfter = 1
    MaxClock = 3
    MaxCrashes = 1
    MaxStops = 1
    MaxErrors = 0
PROPERTY
    RestartLosesNoJob
