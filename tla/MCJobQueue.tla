----------------------------- MODULE MCJobQueue -----------------------------
(* Instances of JobQueue for TLC: one worker process with two workers, as    *)
(* docker-compose.yml starts it, and two processes side by side.             *)
EXTENDS JobQueue

CONSTANTS p1, p2, w1, w2

OneProc == [w \in {w1, w2} |-> p1]
TwoProcs == [w \in {w1, w2} |-> IF w = w1 THEN p1 ELSE p2]
=============================================================================
