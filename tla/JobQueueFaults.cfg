\* Two processes of one worker each: kills, signals, failed database calls, and a
\* run that outlives the recovery of its job.
SPECIFICATION Spec
CONSTANTS
    p1 = p1
    p2 = p2
    w1 = w1
    w2 = w2
    NumJobs = 2
    Proc = {p1, p2}
    Worker = {w1, w2}
    ProcOf <- TwoProcs
    Unhandled = {}
    MaxAttempts = 2
    StaleAfter = 1
    MaxClock = 3
    MaxCrashes = 1
    MaxStops = 1
    MaxErrors = 1
INVARIANTS
    ClaimsAreDistinct
    OneRunAtATime
    RunningHasARunner
    RetriesAreBounded
    TypeOK
PROPERTY
    EndIsFinal
