\* Two uploads that overwrite one document together.
SPECIFICATION Spec
CONSTANTS
    q1 = q1
    q2 = q2
    w1 = w1
    w2 = w2
    Req = {q1, q2}
    Worker = {w1}
    Ops = {"tus"}
    Exclusive = {}
    FileTypes = {"md"}
    Unreadable = {}
    MaxAttempts = 2
    MaxKilled = 0
    MaxRev = 3
    MaxVer = 4
    MaxJobs = 3
\* The operations are bounded: nothing is left to do at the end.
CHECK_DEADLOCK FALSE
INVARIANT
    NoAcceptedChangeIsLost
