------------------------------ MODULE JobQueue ------------------------------
(***************************************************************************)
(* The database job queue (backend/app/services/job_queue.py) and the      *)
(* worker processes that drain it (backend/app/worker.py).                 *)
(*                                                                         *)
(* A job is a row of table jobs. A worker is one coroutine worker_loop of  *)
(* one worker process; ProcOf says of which. Jobs are numbered in the      *)
(* order of their scheduled_at, which is written once, at the insertion.   *)
(* One step is one database statement or commit, or one await of the loop. *)
(* The clock counts in any unit in which StaleAfter is the ten minutes of  *)
(* recover_stale_jobs.                                                     *)
(***************************************************************************)
EXTENDS Naturals, FiniteSets

CONSTANTS
    NumJobs,      \* how many jobs the callers of create_job insert
    Proc,         \* worker processes that may exist side by side
    Worker,       \* worker coroutines of all the processes
    ProcOf,       \* the process of each worker
    Unhandled,    \* jobs whose job_type has no entry in HANDLERS
    MaxAttempts,  \* max_attempts of every job
    StaleAfter,   \* timeout_minutes of recover_stale_jobs
    MaxClock,     \* bound: last value of the clock
    MaxCrashes,   \* bound: processes killed
    MaxStops,     \* bound: processes stopped by SIGTERM
    MaxErrors     \* bound: database calls that raise in a worker

ASSUME NumJobsAssumption == NumJobs \in Nat
ASSUME ProcOfAssumption == ProcOf \in [Worker -> Proc]
ASSUME AttemptsAssumption == MaxAttempts \in Nat \ {0}
ASSUME StaleAfterAssumption == StaleAfter \in Nat

Job == 1 .. NumJobs
NoJob == 0
Never == 0        \* started_at IS NULL; the clock starts at 1

Status == {"absent", "pending", "running", "completed", "failed"}
Ended == {"completed", "failed"}

Row == [status : Status, attempts : Nat, startedAt : Nat, progress : BOOLEAN]
NoRow == [status |-> "absent", attempts |-> 0, startedAt |-> Never,
          progress |-> FALSE]

\* Where a worker is: outside its loop, at the head of it, between the SELECT
\* and the commit of claim_job, in the handler, between the handler and the
\* SELECT of complete_job or fail_job, between that SELECT and its commit.
Place == {"off", "poll", "locked", "handler",
          "complete", "completing", "fail", "failing"}

\* What a worker holds: its job, the attempts and started_at of the Job object
\* it claimed, and the row that complete_job or fail_job read.
Hold == [pc : Place, job : Nat, attempt : Nat, since : Nat, seen : Row]
Idle(pc) == [pc |-> pc, job |-> NoJob, attempt |-> 0, since |-> Never,
             seen |-> NoRow]

VARIABLES
    row,       \* row[j] is job j's row in table jobs
    worker,    \* worker[w] is what coroutine w is doing
    proc,      \* proc[p] is the state of process p
    clock,     \* the time, common to the processes and the database
    overrun,   \* history: jobs recovered while a worker still ran them
    crashes, stops, errors   \* faults so far

vars == <<row, worker, proc, clock, overrun, crashes, stops, errors>>
faults == <<crashes, stops, errors>>

Init ==
    /\ row = [j \in Job |-> NoRow]
    /\ worker = [w \in Worker |-> Idle("off")]
    /\ proc = [p \in Proc |-> "down"]
    /\ clock = 1
    /\ overrun = {}
    /\ crashes = 0 /\ stops = 0 /\ errors = 0

-----------------------------------------------------------------------------
(* Row locks and the rows a statement may touch                            *)

\* The row that a worker has locked by the SELECT ... FOR UPDATE of claim_job.
Locked(j) == \E w \in Worker : worker[w].pc = "locked" /\ worker[w].job = j

\* What claim_job selects: SKIP LOCKED leaves out the rows others have locked,
\* ORDER BY scheduled_at LIMIT 1 takes the oldest of the others.
ClaimableNoSkip(j) == row[j].status = "pending"   \* mutant: no FOR UPDATE
Claimable(j) == row[j].status = "pending" /\ ~Locked(j)
Oldest(j) == Claimable(j) /\ \A i \in Job : Claimable(i) => j <= i

\* The UPDATE of an ORM object: only the attributes that differ from what was
\* loaded are written, whatever the row has become meanwhile.
Flush(cur, seen, new) ==
    [cur EXCEPT
        !.status = IF new.status = seen.status THEN @ ELSE new.status,
        !.startedAt = IF new.startedAt = seen.startedAt THEN @ ELSE new.startedAt,
        !.progress = IF new.progress = seen.progress THEN @ ELSE new.progress]

Completed(r) == [r EXCEPT !.status = "completed", !.progress = FALSE]

FailedOnceMore(r) ==   \* mutant: <= for <
    IF r.attempts <= MaxAttempts
    THEN [r EXCEPT !.status = "pending", !.startedAt = Never]
    ELSE [r EXCEPT !.status = "failed"]
FailedNoReset(r) ==    \* mutant: a retry that forgets the status
    IF r.attempts < MaxAttempts
    THEN [r EXCEPT !.startedAt = Never]
    ELSE [r EXCEPT !.status = "failed"]
FailedAsError(r) ==    \* mutant: the status a document would get
    IF r.attempts < MaxAttempts
    THEN [r EXCEPT !.status = "pending", !.startedAt = Never]
    ELSE [r EXCEPT !.status = "error"]
Failed(r) ==
    IF r.attempts < MaxAttempts
    THEN [r EXCEPT !.status = "pending", !.startedAt = Never]
    ELSE [r EXCEPT !.status = "failed"]

Holds(w, j) == worker[w].job = j /\ worker[w].pc # "locked"
At(w, pc) == worker[w].pc = pc
Goto(w, pc, seen) ==
    worker' = [worker EXCEPT ![w] = [worker[w] EXCEPT !.pc = pc, !.seen = seen]]
Leave(w, pc) == worker' = [worker EXCEPT ![w] = Idle(pc)]

-----------------------------------------------------------------------------
(* job_queue.py                                                            *)

\* A router, the FUSE server or a restore inserts a job and commits. The order
\* of the commits is not the order of the scheduled_at.
CreateJob(j) ==
    /\ row[j].status = "absent"
    /\ row' = [row EXCEPT ![j].status = "pending"]
    /\ UNCHANGED <<worker, proc, clock, overrun, faults>>

\* claim_job, up to the row lock.
ClaimSelect(w, j) ==
    /\ At(w, "poll") /\ proc[ProcOf[w]] = "up"
    /\ Oldest(j)
    /\ worker' = [worker EXCEPT ![w] = [Idle("locked") EXCEPT !.job = j]]
    /\ UNCHANGED <<row, proc, clock, overrun, faults>>

\* claim_job finds no row; the worker sleeps and polls again.
ClaimNothing(w) ==
    /\ At(w, "poll") /\ proc[ProcOf[w]] = "up"
    /\ \A j \in Job : ~Claimable(j)
    /\ UNCHANGED vars

ClaimedQuietly(r) == [r EXCEPT !.startedAt = clock,   \* mutant: status not set
                               !.attempts = r.attempts + 1]
Claimed(r) == [status |-> "running", attempts |-> r.attempts + 1,
               startedAt |-> clock, progress |-> r.progress]

\* claim_job commits. A job type without a handler goes to fail_job at once.
ClaimCommit(w) ==
    LET j == worker[w].job
    IN  /\ At(w, "locked")
        /\ row' = [row EXCEPT ![j] = Claimed(@)]
        /\ worker' = [worker EXCEPT ![w] =
               [pc |-> IF j \in Unhandled THEN "fail" ELSE "handler",
                job |-> j, attempt |-> row[j].attempts + 1, since |-> clock,
                seen |-> NoRow]]
        /\ UNCHANGED <<proc, clock, overrun, faults>>

\* claim_job raises: rolled back, or committed with the answer lost. Nobody
\* holds the job in the second case.
ClaimError(w) ==
    LET j == worker[w].job
    IN  /\ At(w, "locked") /\ errors < MaxErrors
        /\ row' \in {row, [row EXCEPT ![j] = Claimed(@)]}
        /\ Leave(w, "poll")
        /\ errors' = errors + 1
        /\ UNCHANGED <<proc, clock, overrun, crashes, stops>>

\* update_progress, called by the handler: no look at the status.
UpdateProgress(w) ==
    LET j == worker[w].job
    IN  /\ At(w, "handler") /\ ~Locked(j)
        /\ row' = [row EXCEPT ![j].progress = TRUE]
        /\ UNCHANGED <<worker, proc, clock, overrun, faults>>

\* complete_job and fail_job first load the row.
LoadRow(w, from, to) ==
    /\ At(w, from)
    /\ Goto(w, to, row[worker[w].job])
    /\ UNCHANGED <<row, proc, clock, overrun, faults>>

CompleteRead(w) == LoadRow(w, "complete", "completing")
FailRead(w) == LoadRow(w, "fail", "failing")

\* ... then write what they decided and commit. The loop goes on.
WriteRow(w, from, Decide(_)) ==
    LET j == worker[w].job
        seen == worker[w].seen
    IN  /\ At(w, from) /\ ~Locked(j)
        /\ row' = [row EXCEPT ![j] = Flush(@, seen, Decide(seen))]
        /\ Leave(w, "poll")
        /\ UNCHANGED <<proc, clock, overrun, faults>>

CompleteWrite(w) == WriteRow(w, "completing", Completed)
FailWrite(w) == WriteRow(w, "failing", Failed)

-----------------------------------------------------------------------------
(* worker.py: the loop                                                     *)

HandlerReturns(w) ==
    /\ At(w, "handler") /\ Goto(w, "complete", NoRow)
    /\ UNCHANGED <<row, proc, clock, overrun, faults>>

HandlerRaises(w) ==
    /\ At(w, "handler") /\ Goto(w, "fail", NoRow)
    /\ UNCHANGED <<row, proc, clock, overrun, faults>>

\* complete_job raises, its commit done or not: the inner except calls fail_job
\* for a job whose handler has returned.
CompleteError(w) ==
    LET j == worker[w].job
        seen == worker[w].seen
    IN  /\ worker[w].pc \in {"complete", "completing"} /\ errors < MaxErrors
        /\ \/ row' = row
           \/ /\ At(w, "completing") /\ ~Locked(j)
              /\ row' = [row EXCEPT ![j] = Flush(@, seen, Completed(seen))]
        /\ Goto(w, "fail", NoRow)
        /\ errors' = errors + 1
        /\ UNCHANGED <<proc, clock, overrun, crashes, stops>>

\* fail_job raises: the outer except sleeps and the loop polls again.
FailError(w) ==
    LET j == worker[w].job
        seen == worker[w].seen
    IN  /\ worker[w].pc \in {"fail", "failing"} /\ errors < MaxErrors
        /\ \/ row' = row
           \/ /\ At(w, "failing") /\ ~Locked(j)
              /\ row' = [row EXCEPT ![j] = Flush(@, seen, Failed(seen))]
        /\ Leave(w, "poll")
        /\ errors' = errors + 1
        /\ UNCHANGED <<proc, clock, overrun, crashes, stops>>

\* while not _shutdown.
LoopEnds(w) ==
    /\ At(w, "poll") /\ proc[ProcOf[w]] = "draining" /\ Leave(w, "off")
    /\ UNCHANGED <<row, proc, clock, overrun, faults>>

-----------------------------------------------------------------------------
(* worker.py: the process                                                  *)

Crew(p) == {w \in Worker : ProcOf[w] = p}

Start(p) ==
    /\ proc[p] = "down"
    /\ proc' = [proc EXCEPT ![p] = "starting"]
    /\ UNCHANGED <<row, worker, clock, overrun, faults>>

StaleAny(j) ==   \* mutant: the status is not looked at
    row[j].startedAt # Never /\ row[j].startedAt + StaleAfter < clock
Stale(j) == row[j].status = "running" /\ row[j].startedAt + StaleAfter < clock

RecoverLate(p) ==   \* mutant: recovery once the workers run
    /\ \/ proc[p] = "up"
       \/ proc[p] = "starting" /\ \A j \in Job : ~Stale(j)
    /\ row' = [j \in Job |->
           IF Stale(j) THEN [row[j] EXCEPT !.status = "pending", !.startedAt = Never]
                       ELSE row[j]]
    /\ overrun' = overrun \cup
           {j \in Job : Stale(j) /\ \E w \in Worker : Holds(w, j)}
    /\ proc' = [proc EXCEPT ![p] = "up"]
    /\ worker' = [w \in Worker |->
           IF w \in Crew(p) /\ proc[p] = "starting" THEN Idle("poll") ELSE worker[w]]
    /\ UNCHANGED <<clock, faults>>
RecoverHalf(p) ==   \* mutant: started_at is reset, the status is not
    /\ proc[p] = "starting"
    /\ row' = [j \in Job |->
           IF Stale(j) THEN [row[j] EXCEPT !.startedAt = Never] ELSE row[j]]
    /\ proc' = [proc EXCEPT ![p] = "up"]
    /\ worker' = [w \in Worker |-> IF w \in Crew(p) THEN Idle("poll") ELSE worker[w]]
    /\ UNCHANGED <<clock, overrun, faults>>

\* recover_stale_jobs, then the worker tasks are created.
Recover(p) ==
    /\ proc[p] = "starting"
    /\ row' = [j \in Job |->
           IF Stale(j) THEN [row[j] EXCEPT !.status = "pending", !.startedAt = Never]
                       ELSE row[j]]
    /\ overrun' = overrun \cup
           {j \in Job : Stale(j) /\ \E w \in Worker : Holds(w, j)}
    /\ proc' = [proc EXCEPT ![p] = "up"]
    /\ worker' = [w \in Worker |-> IF w \in Crew(p) THEN Idle("poll") ELSE worker[w]]
    /\ UNCHANGED <<clock, faults>>

\* SIGTERM or SIGINT: handle_signal sets _shutdown.
Signal(p) ==
    /\ proc[p] = "up" /\ stops < MaxStops
    /\ proc' = [proc EXCEPT ![p] = "draining"]
    /\ stops' = stops + 1
    /\ UNCHANGED <<row, worker, clock, overrun, crashes, errors>>

\* gather returns and main ends.
Exit(p) ==
    /\ proc[p] = "draining" /\ \A w \in Crew(p) : At(w, "off")
    /\ proc' = [proc EXCEPT ![p] = "down"]
    /\ UNCHANGED <<row, worker, clock, overrun, faults>>

\* The process is killed: by the out-of-memory killer, the end of the host, or
\* the SIGKILL that follows the SIGTERM of a container that is slow to stop.
Crash(p) ==
    /\ proc[p] # "down" /\ crashes < MaxCrashes
    /\ proc' = [proc EXCEPT ![p] = "down"]
    /\ worker' = [w \in Worker |-> IF w \in Crew(p) THEN Idle("off") ELSE worker[w]]
    /\ crashes' = crashes + 1
    /\ UNCHANGED <<row, clock, overrun, stops, errors>>

Tick ==
    /\ clock < MaxClock
    /\ clock' = clock + 1
    /\ UNCHANGED <<row, worker, proc, overrun, faults>>

WorkerStep(w) ==
    \/ \E j \in Job : ClaimSelect(w, j)
    \/ ClaimNothing(w)
    \/ ClaimCommit(w)
    \/ UpdateProgress(w)
    \/ HandlerReturns(w)
    \/ HandlerRaises(w)
    \/ CompleteRead(w)
    \/ CompleteWrite(w)
    \/ FailRead(w)
    \/ FailWrite(w)
    \/ LoopEnds(w)

WorkerError(w) == ClaimError(w) \/ CompleteError(w) \/ FailError(w)

ProcStep(p) == Start(p) \/ Recover(p) \/ Signal(p) \/ Exit(p) \/ Crash(p)

Next ==
    \/ \E j \in Job : CreateJob(j)
    \/ \E w \in Worker : WorkerStep(w) \/ WorkerError(w)
    \/ \E p \in Proc : ProcStep(p)
    \/ Tick

Spec == Init /\ [][Next]_vars

\* What runs on its own: the event loop resumes every coroutine, a handler
\* returns or raises, docker restarts the container (restart: unless-stopped).
\* Nothing makes a caller create a job, a process fail or a signal arrive.
Fairness ==
    /\ \A w \in Worker :
          /\ WF_vars(\E j \in Job : ClaimSelect(w, j))
          /\ WF_vars(ClaimCommit(w))
          /\ WF_vars(HandlerReturns(w) \/ HandlerRaises(w))
          /\ WF_vars(CompleteRead(w) \/ CompleteWrite(w) \/ FailRead(w) \/ FailWrite(w))
          /\ WF_vars(LoopEnds(w))
    /\ \A p \in Proc : WF_vars(Start(p)) /\ WF_vars(Recover(p)) /\ WF_vars(Exit(p))
    /\ WF_vars(Tick)

FairSpec == Spec /\ Fairness

-----------------------------------------------------------------------------
(* Properties                                                              *)

TypeOK ==
    /\ row \in [Job -> Row]
    /\ worker \in [Worker -> Hold]
    /\ proc \in [Proc -> {"down", "starting", "up", "draining"}]
    /\ clock \in Nat
    /\ overrun \in SUBSET Job
    /\ crashes \in Nat /\ stops \in Nat /\ errors \in Nat

\* Every claim is a run of its own: whatever crashes, errors, restarts and
\* recoveries do, no two workers hold the same attempt of a job, and no two
\* hold the lock that claim_job takes on a row. (claim_job, FOR UPDATE SKIP
\* LOCKED and attempts += 1)
ClaimsAreDistinct ==
    \A v, w \in Worker :
        v # w /\ worker[v].job # NoJob /\ worker[v].job = worker[w].job
            => worker[v].attempt # worker[w].attempt

\* A job that recover_stale_jobs never took from under a live worker is run by
\* one worker at a time, also when crashes and failed database calls leave
\* rows behind. (claim_job, complete_job, fail_job, recover_stale_jobs)
OneRunAtATime ==
    \A j \in Job \ overrun : \A v, w \in Worker :
        worker[v].job = j /\ worker[w].job = j => v = w

\* With the one worker process that docker-compose.yml starts, recovery never
\* takes a job from under a worker: it runs before the workers exist. (main)
LoneProcessNeverOverruns ==
    (\A p, q \in Proc : p = q) => overrun = {}

\* As long as no process is killed and no database call fails, a row that says
\* "running" has a worker that will end it: SIGTERM and restarts lose nothing.
\* (worker_loop, main)
RunningHasARunner ==
    crashes = 0 /\ errors = 0 =>
        \A j \in Job : row[j].status = "running" =>
            \E w \in Worker : Holds(w, j) /\ worker[w].attempt = row[j].attempts

\* Retries end: a job gets max_attempts attempts and at most one more for each
\* fault that left its row "running", because recovery does not look at
\* attempts. (fail_job, recover_stale_jobs)
RetriesAreBounded ==
    \A j \in Job \ overrun : row[j].attempts <= MaxAttempts + crashes + errors

\* An ended job stays ended with the result it has, unless recovery gave it to a second
\* worker while the first still ran, or a database call failed: then the late
\* fail_job of one run may put a completed job back. (complete_job, fail_job)
EndIsFinal ==
    [][\A j \in Job \ overrun :
          errors = 0 /\ row[j].status \in Ended => row'[j].status = row[j].status]_vars

\* As long as there is no kill and no database failure every job that is
\* committed ends, graceful restarts included. (worker_loop, fail_job)
EveryJobEnds ==
    \A j \in Job :
        row[j].status # "absent" ~> row[j].status \in Ended \/ crashes + errors > 0

\* A job whose worker was killed ends if a process starts once the row is
\* stale. (recover_stale_jobs)
Orphan(j) == row[j].status = "running" /\ \A w \in Worker : ~Holds(w, j)
StaleOrphanEnds ==
    \A j \in Job :
        Orphan(j) /\ Stale(j) /\ (\E p \in Proc : proc[p] = "starting")
            ~> row[j].status \in Ended

\* The queue as its callers see it: what JobPromise promises is what the rows
\* and the workers do, in one process whose database calls do not fail.
Stage == [j \in Job |-> CASE row[j].status = "pending" -> "waiting"
                          [] row[j].status = "running" -> "taken"
                          [] row[j].status \in Ended -> "ended"
                          [] OTHER -> "absent"]
Holders == [j \in Job |-> {w \in Worker : Holds(w, j)}]
Promised == INSTANCE JobPromise WITH stage <- Stage, holders <- Holders
KeepsPromise == Promised!Spec

\* docs/db-job-queue-refactor.md: no job of the queue is lost when the worker
\* container is restarted. Docker kills a worker that is still in its handler
\* ten seconds after the signal.
RestartLosesNoJob ==
    \A j \in Job : row[j].status # "absent" ~> row[j].status \in Ended
=============================================================================
