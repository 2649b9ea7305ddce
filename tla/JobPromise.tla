----------------------------- MODULE JobPromise -----------------------------
(***************************************************************************)
(* What the job queue promises to the code that calls create_job: a job is *)
(* waiting, taken by one worker, or ended for good; it goes back to        *)
(* waiting when its worker gives it back, or when the worker is gone. How  *)
(* rows, locks, timestamps and processes bring that about is JobQueue.     *)
(***************************************************************************)
CONSTANTS Job, Worker

VARIABLES
    stage,    \* stage[j]: "absent", "waiting", "taken" or "ended"
    holders   \* holders[j]: the workers that run j

vars == <<stage, holders>>

Init ==
    /\ stage = [j \in Job |-> "absent"]
    /\ holders = [j \in Job |-> {}]

Submit(j) ==
    /\ stage[j] = "absent"
    /\ stage' = [stage EXCEPT ![j] = "waiting"]
    /\ UNCHANGED holders

\* A worker that runs nothing takes a waiting job, which nobody runs.
Take(w, j) ==
    /\ stage[j] = "waiting" /\ holders[j] = {}
    /\ \A i \in Job : w \notin holders[i]
    /\ stage' = [stage EXCEPT ![j] = "taken"]
    /\ holders' = [holders EXCEPT ![j] = {w}]

\* The one worker that runs j ends it or gives it back for another attempt.
Release(w, j) ==
    /\ stage[j] = "taken" /\ holders[j] = {w}
    /\ \E s \in {"ended", "waiting"} : stage' = [stage EXCEPT ![j] = s]
    /\ holders' = [holders EXCEPT ![j] = {}]

\* Workers die; what they ran stays taken, by nobody.
Lose(gone) == 
    /\ holders' = [j \in Job |-> holders[j] \ gone]
    /\ UNCHANGED stage

\* Jobs that nobody runs any more go back to waiting.
Reclaim(lost) ==
    /\ \A j \in lost : stage[j] = "taken" /\ holders[j] = {}
    /\ stage' = [j \in Job |-> IF j \in lost THEN "waiting" ELSE stage[j]]
    /\ UNCHANGED holders

Next ==
    \/ \E j \in Job : Submit(j) \/ \E w \in Worker : Take(w, j) \/ Release(w, j)
    \/ \E gone \in SUBSET Worker : Lose(gone)
    \/ \E lost \in SUBSET Job : Reclaim(lost)

Spec == Init /\ [][Next]_vars
=============================================================================
