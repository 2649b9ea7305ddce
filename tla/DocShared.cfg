\* Two requests and two workers, which may be killed once in a job; an upload by the
\* API overlaps no other request.
SPECIFICATION Spec
CONSTANTS
    q1 = q1
    q2 = q2
    w1 = w1
    w2 = w2
    Req = {q1, q2}
    Worker = {w1, w2}
    Ops = {"fuse", "ingest", "edit", "wopi", "restore"}
    Exclusive = {"ingest"}
    FileTypes = {"pdf", "video"}
    Unreadable = {3}
    MaxAttempts = 2
    MaxKilled = 1
    MaxRev = 3
    MaxVer = 4
    MaxJobs = 3
\* The operations are bounded: nothing is left to do at the end.
CHECK_DEADLOCK FALSE
INVARIANTS
    NoAcceptedChangeIsLost
    FilesPresent
