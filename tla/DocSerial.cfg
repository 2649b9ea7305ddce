\* One request and one worker: every change is followed to its end.
SPECIFICATION FairSpec
CONSTANTS
    q1 = q1
    q2 = q2
    w1 = w1
    w2 = w2
    Req = {q1}
    Worker = {w1}
    Ops = {"tus", "create_text", "restore", "reindex"}
    Exclusive = {}
    FileTypes = {"md", "pdf"}
    Unreadable = {2}
    MaxAttempts = 2
    MaxKilled = 0
    MaxRev = 3
    MaxVer = 4
    MaxJobs = 3
\* The operations are bounded: nothing is left to do at the end.
CHECK_DEADLOCK FALSE
INVARIANTS
    TypeOK
    NoAcceptedChangeIsLost
    SettledContentIsLive
PROPERTIES
    ProcessingEnds
    VersionsAreFrozen
