\* Two workers process two jobs of one document.
SPECIFICATION Spec
CONSTANTS
    q1 = q1
    q2 = q2
    w1 = w1
    w2 = w2
    Req = {q1}
    Worker = {w1, w2}
    Ops = {"ingest", "create_text"}
    Exclusive = {}
    FileTypes = {"md"}
    Unreadable = {}
    MaxAttempts = 2
    MaxKilled = 0
    MaxRev = 3
    MaxVer = 4
    MaxJobs = 3
\* The operations are bounded: nothing is left to do at the end.
CHECK_DEADLOCK FALSE
INVARIANT
    SettledContentIsLive
