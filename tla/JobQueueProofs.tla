--------------------------- MODULE JobQueueProofs ---------------------------
(***************************************************************************)
(* Proofs about JobQueue, for every number of jobs, workers, processes,    *)
(* faults and clock values.                                                *)
(***************************************************************************)
EXTENDS JobQueue, TLAPS

\* Every value that is ever put in a row or a worker is of its type.
LEMMA RowTypes ==
    ASSUME NEW r \in Row, NEW s \in Row, NEW t \in Row
    PROVE  /\ NoRow \in Row
           /\ Completed(r) \in Row
           /\ Failed(r) \in Row
           /\ Flush(r, s, t) \in Row
<1>1. NoRow \in Row
  BY DEF NoRow, Row, Status, Never
<1>2. Completed(r) \in Row
  BY DEF Completed, Row, Status
<1>3. Failed(r) \in Row
  BY AttemptsAssumption DEF Failed, Row, Status, Never
<1>4. Flush(r, s, t) \in Row
  BY DEF Flush, Row
<1> QED  BY <1>1, <1>2, <1>3, <1>4

\* The same for what a worker holds.
LEMMA HoldTypes ==
    ASSUME NEW h \in Hold, NEW pc \in Place, NEW j \in Job, NEW r \in Row
    PROVE  /\ Idle(pc) \in Hold
           /\ [Idle(pc) EXCEPT !.job = j] \in Hold
           /\ [h EXCEPT !.pc = pc] \in Hold
           /\ [h EXCEPT !.pc = pc, !.seen = r] \in Hold
<1>1. NoRow \in Row
  BY DEF NoRow, Row, Status, Never
<1>2. Job \subseteq Nat
  BY NumJobsAssumption DEF Job
<1> QED  BY <1>1, <1>2 DEF Idle, Hold, NoJob, Never

\* The row that claim_job commits is a row.
LEMMA ClaimedType ==
    ASSUME clock \in Nat, NEW r \in Row
    PROVE  Claimed(r) \in Row
BY DEF Claimed, Row, Status

-----------------------------------------------------------------------------
(* Every claim is a run of its own                                         *)

\* A worker past the head of its loop holds a job, another none. An attempt
\* that was committed is at least 1 and at most the attempts of the row.
WellHeld(h, rows) ==
    /\ h.pc \in {"off", "poll"} <=> h.job = NoJob
    /\ h.pc \notin {"off", "poll"} => h.job \in Job
    /\ h.pc \in {"off", "poll", "locked"} => h.attempt = 0
    /\ h.pc \notin {"off", "poll", "locked"} =>
          h.attempt \in 1 .. rows[h.job].attempts

HoldsWell == \A w \in Worker : WellHeld(worker[w], row)

ClaimsInv == TypeOK /\ HoldsWell /\ ClaimsAreDistinct

\* The variables that are neither rows nor workers keep their types.
RestTyped ==
    /\ proc \in [Proc -> {"down", "starting", "up", "draining"}]
    /\ clock \in Nat
    /\ overrun \in SUBSET Job
    /\ crashes \in Nat /\ stops \in Nat /\ errors \in Nat

\* A worker outside a run holds nothing.
LEMMA IdleIsWell ==
    ASSUME NEW pc \in {"off", "poll"}, NEW rows
    PROVE  Idle(pc) \in Hold /\ WellHeld(Idle(pc), rows)
<1>1. NoRow \in Row
  BY DEF NoRow, Row, Status, Never
<1> QED  BY <1>1 DEF Idle, Hold, Place, NoJob, Never, WellHeld

\* Rows may change as long as no attempts count goes down.
LEMMA StillWell ==
    ASSUME TypeOK, NEW rows \in [Job -> Row],
           \A j \in Job : row[j].attempts <= rows[j].attempts,
           NEW h \in Hold, WellHeld(h, row)
    PROVE  WellHeld(h, rows)
<1>1. ASSUME h.job \in Job, h.attempt \in 1 .. row[h.job].attempts
      PROVE  h.attempt \in 1 .. rows[h.job].attempts
  <2>1. /\ row[h.job].attempts \in Nat /\ rows[h.job].attempts \in Nat
        /\ row[h.job].attempts <= rows[h.job].attempts
    BY <1>1 DEF TypeOK, Row
  <2> QED  BY <1>1, <2>1
<1> QED  BY <1>1 DEF WellHeld

\* One worker moves, with or without a write to a row.
LEMMA OneMoves ==
    ASSUME ClaimsInv, RestTyped',
           row' \in [Job -> Row],
           \A j \in Job : row[j].attempts <= row'[j].attempts,
           NEW w \in Worker, NEW h \in Hold,
           worker' = [worker EXCEPT ![w] = h],
           WellHeld(h, row'),
           \A v \in Worker \ {w} :
               h.job # NoJob /\ worker[v].job = h.job => worker[v].attempt # h.attempt
    PROVE  ClaimsInv'
<1>1. TypeOK'
  BY DEF ClaimsInv, TypeOK, RestTyped
<1>2. HoldsWell'
  <2> SUFFICES ASSUME NEW v \in Worker PROVE WellHeld(worker'[v], row')
    BY DEF HoldsWell
  <2>1. CASE v = w
    BY <2>1 DEF ClaimsInv, TypeOK
  <2>2. CASE v # w
    <3>1. worker'[v] = worker[v] /\ worker[v] \in Hold /\ WellHeld(worker[v], row)
      BY <2>2 DEF ClaimsInv, TypeOK, HoldsWell
    <3> QED  BY <3>1, StillWell DEF ClaimsInv
  <2> QED  BY <2>1, <2>2
<1>3. ClaimsAreDistinct'
  <2> SUFFICES ASSUME NEW u \in Worker, NEW v \in Worker, u # v,
                      worker'[u].job # NoJob, worker'[u].job = worker'[v].job
               PROVE  worker'[u].attempt # worker'[v].attempt
    BY DEF ClaimsAreDistinct
  <2>1. CASE u # w /\ v # w
    BY <2>1 DEF ClaimsInv, TypeOK, ClaimsAreDistinct
  <2>2. CASE u = w
    BY <2>2 DEF ClaimsInv, TypeOK
  <2>3. CASE v = w
    BY <2>3 DEF ClaimsInv, TypeOK
  <2> QED  BY <2>1, <2>2, <2>3
<1> QED  BY <1>1, <1>2, <1>3 DEF ClaimsInv

\* All the workers of one process start afresh or are gone.
LEMMA CrewMoves ==
    ASSUME ClaimsInv, RestTyped',
           row' \in [Job -> Row],
           \A j \in Job : row[j].attempts <= row'[j].attempts,
           NEW p \in Proc, NEW pc \in {"off", "poll"},
           worker' = [w \in Worker |-> IF w \in Crew(p) THEN Idle(pc) ELSE worker[w]]
    PROVE  ClaimsInv'
<1>1. \A w \in Worker :
         \/ worker'[w] = Idle(pc)
         \/ worker'[w] = worker[w]
  OBVIOUS
<1>2. TypeOK'
  BY IdleIsWell DEF ClaimsInv, TypeOK, RestTyped
<1>3. HoldsWell'
  <2> SUFFICES ASSUME NEW v \in Worker PROVE WellHeld(worker'[v], row')
    BY DEF HoldsWell
  <2>1. CASE worker'[v] = Idle(pc)
    BY <2>1, IdleIsWell
  <2>2. CASE worker'[v] = worker[v]
    <3>1. worker[v] \in Hold /\ WellHeld(worker[v], row)
      BY DEF ClaimsInv, TypeOK, HoldsWell
    <3> QED  BY <2>2, <3>1, StillWell DEF ClaimsInv
  <2> QED  BY <1>1, <2>1, <2>2
<1>4. ClaimsAreDistinct'
  <2>1. Idle(pc).job = NoJob
    BY DEF Idle
  <2> QED  BY <1>1, <2>1 DEF ClaimsInv, ClaimsAreDistinct
<1> QED  BY <1>2, <1>3, <1>4 DEF ClaimsInv

\* Rows may change while the workers stay where they are.
LEMMA RowsMove ==
    ASSUME ClaimsInv, RestTyped',
           row' \in [Job -> Row],
           \A j \in Job : row[j].attempts <= row'[j].attempts,
           worker' = worker
    PROVE  ClaimsInv'
<1>1. TypeOK'
  BY DEF ClaimsInv, TypeOK, RestTyped
<1>2. HoldsWell'
  <2> SUFFICES ASSUME NEW v \in Worker PROVE WellHeld(worker[v], row')
    BY DEF HoldsWell
  <2>1. worker[v] \in Hold /\ WellHeld(worker[v], row)
    BY DEF ClaimsInv, TypeOK, HoldsWell
  <2> QED  BY <2>1, StillWell DEF ClaimsInv
<1>3. ClaimsAreDistinct'
  BY DEF ClaimsInv, ClaimsAreDistinct
<1> QED  BY <1>1, <1>2, <1>3 DEF ClaimsInv

\* No worker runs at the start.
LEMMA ClaimsInit == Init => ClaimsInv
<1> SUFFICES ASSUME Init PROVE ClaimsInv
  OBVIOUS
<1>1. NoRow \in Row
  BY DEF NoRow, Row, Status, Never
<1>2. Idle("off") \in Hold /\ WellHeld(Idle("off"), row)
  BY IdleIsWell
<1>3. TypeOK
  BY <1>1, <1>2 DEF Init, TypeOK
<1>4. HoldsWell
  BY <1>2 DEF Init, HoldsWell
<1>5. ClaimsAreDistinct
  BY DEF Init, Idle, ClaimsAreDistinct
<1> QED  BY <1>3, <1>4, <1>5 DEF ClaimsInv

\* What LoadRow, the writes and the claims do to a held job.
LEMMA HeldJob ==
    ASSUME ClaimsInv, NEW w \in Worker, worker[w].pc \notin {"off", "poll"}
    PROVE  /\ worker[w] \in Hold
           /\ worker[w].job \in Job
           /\ row[worker[w].job] \in Row
           /\ worker[w].seen \in Row
           /\ WellHeld(worker[w], row)
           /\ \A v \in Worker \ {w} :
                 worker[v].job = worker[w].job => worker[v].attempt # worker[w].attempt
<1>1. worker[w] \in Hold /\ WellHeld(worker[w], row)
  BY DEF ClaimsInv, TypeOK, HoldsWell
<1>2. worker[w].job \in Job /\ worker[w].job # NoJob
  BY <1>1, NumJobsAssumption DEF WellHeld
<1>3. row[worker[w].job] \in Row
  BY <1>2 DEF ClaimsInv, TypeOK
<1>4. \A v \in Worker \ {w} :
         worker[v].job = worker[w].job => worker[v].attempt # worker[w].attempt
  BY <1>2 DEF ClaimsInv, ClaimsAreDistinct
<1> QED  BY <1>1, <1>2, <1>3, <1>4 DEF Hold

\* Writing one row, attempts not lowered.
LEMMA OneRow ==
    ASSUME TypeOK, NEW j \in Job, NEW r \in Row, row[j].attempts <= r.attempts,
           row' = [row EXCEPT ![j] = r]
    PROVE  /\ row' \in [Job -> Row]
           /\ \A i \in Job : row[i].attempts <= row'[i].attempts
<1>1. \A i \in Job : row[i].attempts \in Nat
  BY DEF TypeOK, Row
<1> QED  BY <1>1 DEF TypeOK

\* The same for a step that writes no row.
LEMMA SameRows ==
    ASSUME TypeOK, row' = row
    PROVE  /\ row' \in [Job -> Row]
           /\ \A i \in Job : row[i].attempts <= row'[i].attempts
<1>1. \A i \in Job : row[i].attempts \in Nat
  BY DEF TypeOK, Row
<1> QED  BY <1>1 DEF TypeOK

\* A worker ends its run, and goes to the head of its loop or out of it.
LEMMA Leaving ==
    ASSUME ClaimsInv, RestTyped', NEW w \in Worker,
           row' \in [Job -> Row],
           \A i \in Job : row[i].attempts <= row'[i].attempts,
           NEW pc \in {"off", "poll"},
           worker' = [worker EXCEPT ![w] = Idle(pc)]
    PROVE  ClaimsInv'
<1>1. Idle(pc) \in Hold /\ WellHeld(Idle(pc), row')
  BY IdleIsWell
<1>2. Idle(pc).job = NoJob
  BY DEF Idle
<1> QED  BY <1>1, <1>2, OneMoves

\* A worker goes from one place past the claim to another.
LEMMA Going ==
    ASSUME ClaimsInv, RestTyped', NEW w \in Worker,
           worker[w].pc \in Place \ {"off", "poll", "locked"},
           NEW pc \in Place \ {"off", "poll", "locked"},
           NEW r \in Row,
           row' \in [Job -> Row],
           \A i \in Job : row[i].attempts <= row'[i].attempts,
           worker' = [worker EXCEPT ![w] = [worker[w] EXCEPT !.pc = pc, !.seen = r]]
    PROVE  ClaimsInv'
<1> DEFINE h == [worker[w] EXCEPT !.pc = pc, !.seen = r]
<1>1. /\ worker[w] \in Hold /\ WellHeld(worker[w], row)
      /\ \A v \in Worker \ {w} :
            worker[v].job = worker[w].job => worker[v].attempt # worker[w].attempt
  BY HeldJob
<1>2. h \in Hold /\ h.job = worker[w].job /\ h.attempt = worker[w].attempt /\ h.pc = pc
  BY <1>1 DEF Hold
<1>3. WellHeld(worker[w], row')
  BY <1>1, StillWell DEF ClaimsInv
<1>4. WellHeld(h, row')
  BY <1>2, <1>3 DEF WellHeld
<1>5. worker' = [worker EXCEPT ![w] = h]
  OBVIOUS
<1>6. \A v \in Worker \ {w} :
         h.job # NoJob /\ worker[v].job = h.job => worker[v].attempt # h.attempt
  BY <1>1, <1>2
<1> HIDE DEF h
<1> QED  BY <1>2, <1>4, <1>5, <1>6, OneMoves

\* What complete_job and fail_job write keeps the attempts of the row.
LEMMA FlushRow ==
    ASSUME ClaimsInv, NEW w \in Worker, worker[w].pc \notin {"off", "poll"},
           NEW new \in {Completed(worker[w].seen), Failed(worker[w].seen)},
           row' = [row EXCEPT ![worker[w].job] = Flush(@, worker[w].seen, new)]
    PROVE  /\ row' \in [Job -> Row]
           /\ \A i \in Job : row[i].attempts <= row'[i].attempts
<1> DEFINE j == worker[w].job
           r == Flush(row[j], worker[w].seen, new)
<1>1. j \in Job /\ row[j] \in Row /\ worker[w].seen \in Row
  BY HeldJob
<1>2. new \in Row
  BY <1>1, RowTypes
<1>3. r \in Row
  BY <1>1, <1>2, RowTypes
<1>4. row[j].attempts <= r.attempts
  BY <1>1 DEF Flush, Row
<1>5. row' = [row EXCEPT ![j] = r]
  OBVIOUS
<1> HIDE DEF r, j
<1> QED  BY <1>1, <1>3, <1>4, <1>5, OneRow DEF ClaimsInv

\* Every step of the queue keeps the claims distinct.
LEMMA ClaimsNext == ClaimsInv /\ [Next]_vars => ClaimsInv'
<1> SUFFICES ASSUME ClaimsInv, [Next]_vars PROVE ClaimsInv'
  OBVIOUS
<1> USE DEF faults, At
<1>0. TypeOK /\ NoRow \in Row
  BY DEF ClaimsInv, NoRow, Row, Status, Never
<1>1. ASSUME NEW j \in Job, CreateJob(j) PROVE ClaimsInv'
  <2> DEFINE r == [row[j] EXCEPT !.status = "pending"]
  <2>1. r \in Row /\ row[j].attempts <= r.attempts
    BY <1>0 DEF TypeOK, Row, Status
  <2>2. row' = [row EXCEPT ![j] = r]
    BY <1>1 DEF CreateJob
  <2>3. RestTyped' /\ worker' = worker
    BY <1>0, <1>1 DEF CreateJob, RestTyped, TypeOK
  <2> QED  BY <1>0, <2>1, <2>2, <2>3, OneRow, RowsMove
<1>2. ASSUME NEW w \in Worker, NEW j \in Job, ClaimSelect(w, j) PROVE ClaimsInv'
  <2> DEFINE h == [Idle("locked") EXCEPT !.job = j]
  <2>1. /\ RestTyped' /\ row' = row /\ ~Locked(j)
        /\ worker' = [worker EXCEPT ![w] = h]
    BY <1>0, <1>2 DEF ClaimSelect, Oldest, Claimable, RestTyped, TypeOK
  <2>2. /\ h \in Hold /\ h.pc = "locked" /\ h.job = j /\ h.attempt = 0
        /\ j # NoJob
    BY <1>0, NumJobsAssumption DEF Idle, Hold, Place, Never, NoJob, Job
  <2>3. WellHeld(h, row')
    BY <2>2 DEF WellHeld
  <2>4. \A v \in Worker \ {w} : worker[v].job = j => worker[v].attempt # 0
    <3> SUFFICES ASSUME NEW v \in Worker, worker[v].job = j
                 PROVE  worker[v].attempt # 0
      OBVIOUS
    <3>1. worker[v].pc \notin {"off", "poll", "locked"} /\ WellHeld(worker[v], row)
      BY <2>1, <2>2 DEF Locked, ClaimsInv, HoldsWell, WellHeld
    <3> QED  BY <3>1 DEF WellHeld
  <2> HIDE DEF h
  <2> QED  BY <1>0, <2>1, <2>2, <2>3, <2>4, SameRows, OneMoves
<1>3. ASSUME NEW w \in Worker, ClaimNothing(w) PROVE ClaimsInv'
  BY <1>0, <1>3, SameRows, RowsMove DEF ClaimNothing, vars, RestTyped, TypeOK
<1>4. ASSUME NEW w \in Worker, ClaimCommit(w) PROVE ClaimsInv'
  <2> DEFINE j == worker[w].job
             h == [pc |-> IF j \in Unhandled THEN "fail" ELSE "handler",
                   job |-> j, attempt |-> row[j].attempts + 1, since |-> clock,
                   seen |-> NoRow]
  <2>1. /\ RestTyped' /\ worker' = [worker EXCEPT ![w] = h]
        /\ row' = [row EXCEPT ![j] = Claimed(row[j])]
        /\ worker[w].pc = "locked"
    BY <1>0, <1>4 DEF ClaimCommit, RestTyped, TypeOK
  <2>2. /\ j \in Job /\ row[j] \in Row /\ clock \in Nat
        /\ \A v \in Worker \ {w} :
              worker[v].job = j => worker[v].attempt # worker[w].attempt
    BY <1>0, <2>1, HeldJob DEF TypeOK
  <2>3. Claimed(row[j]) \in Row /\ Claimed(row[j]).attempts = row[j].attempts + 1
    BY <2>2, ClaimedType DEF Claimed
  <2>4. /\ row' \in [Job -> Row]
        /\ \A i \in Job : row[i].attempts <= row'[i].attempts
        /\ row'[j] = Claimed(row[j])
    <3>1. row[j].attempts <= Claimed(row[j]).attempts
      BY <2>2, <2>3 DEF Row
    <3> QED  BY <1>0, <2>1, <2>2, <2>3, <3>1, OneRow DEF TypeOK
  <2>5. /\ h \in Hold /\ h.job = j /\ h.attempt = row[j].attempts + 1
        /\ h.pc \in {"fail", "handler"}
    BY <1>0, <2>2, NumJobsAssumption DEF Hold, Place, Row, Job
  <2>6. WellHeld(h, row')
    <3>1. h.attempt \in 1 .. row'[j].attempts
      BY <2>2, <2>3, <2>4, <2>5 DEF Row
    <3>2. j # NoJob
      BY <2>2, NumJobsAssumption DEF Job, NoJob
    <3> HIDE DEF h
    <3> QED  BY <2>2, <2>5, <3>1, <3>2 DEF WellHeld
  <2>7. \A v \in Worker \ {w} : worker[v].job = j => worker[v].attempt # h.attempt
    <3> SUFFICES ASSUME NEW v \in Worker \ {w}, worker[v].job = j
                 PROVE  worker[v].attempt # row[j].attempts + 1
      BY <2>5
    <3>1. WellHeld(worker[v], row) /\ row[j].attempts \in Nat
      BY <2>2 DEF ClaimsInv, HoldsWell, Row
    <3>2. worker[v].attempt \in 0 .. row[j].attempts
      BY <2>2, <3>1, NumJobsAssumption DEF WellHeld, Job, NoJob
    <3> QED  BY <3>1, <3>2
  <2> HIDE DEF h, j
  <2> QED  BY <2>1, <2>4, <2>5, <2>6, <2>7, OneMoves
<1>5. ASSUME NEW w \in Worker, ClaimError(w) PROVE ClaimsInv'
  <2> DEFINE j == worker[w].job
  <2>1. /\ RestTyped' /\ worker' = [worker EXCEPT ![w] = Idle("poll")]
        /\ row' \in {row, [row EXCEPT ![j] = Claimed(row[j])]}
        /\ worker[w].pc = "locked"
    BY <1>0, <1>5 DEF ClaimError, Leave, RestTyped, TypeOK
  <2>2. j \in Job /\ row[j] \in Row /\ clock \in Nat
    BY <1>0, <2>1, HeldJob DEF TypeOK
  <2>3. Claimed(row[j]) \in Row /\ row[j].attempts <= Claimed(row[j]).attempts
    BY <2>2, ClaimedType DEF Claimed, Row
  <2>4. /\ row' \in [Job -> Row]
        /\ \A i \in Job : row[i].attempts <= row'[i].attempts
    <3>1. CASE row' = row
      BY <1>0, <3>1, SameRows
    <3>2. CASE row' = [row EXCEPT ![j] = Claimed(row[j])]
      <4> HIDE DEF j
      <4> QED  BY <1>0, <2>2, <2>3, <3>2, OneRow
    <3> QED  BY <2>1, <3>1, <3>2
  <2> QED  BY <2>1, <2>4, Leaving
<1>6. ASSUME NEW w \in Worker, UpdateProgress(w) PROVE ClaimsInv'
  <2> DEFINE j == worker[w].job
             r == [row[j] EXCEPT !.progress = TRUE]
  <2>1. /\ RestTyped' /\ worker' = worker
        /\ row' = [row EXCEPT ![j] = r]
        /\ worker[w].pc = "handler"
    BY <1>0, <1>6 DEF UpdateProgress, RestTyped, TypeOK
  <2>2. j \in Job /\ row[j] \in Row
    BY <2>1, HeldJob
  <2>3. r \in Row /\ r.attempts = row[j].attempts
    BY <2>2, Zenon DEF Row
  <2>4. row[j].attempts <= r.attempts
    BY <2>2, <2>3 DEF Row
  <2> HIDE DEF r, j
  <2> QED  BY <1>0, <2>1, <2>2, <2>3, <2>4, OneRow, RowsMove
<1>7. ASSUME NEW w \in Worker, HandlerReturns(w) \/ HandlerRaises(w) PROVE ClaimsInv'
  <2>1. PICK pc \in {"complete", "fail"} :
           /\ RestTyped' /\ row' = row /\ worker[w].pc = "handler"
           /\ Goto(w, pc, NoRow)
    BY <1>0, <1>7 DEF HandlerReturns, HandlerRaises, RestTyped, TypeOK
  <2> QED  BY <1>0, <2>1, SameRows, Going DEF Goto, Place
<1>8. ASSUME NEW w \in Worker, CompleteRead(w) \/ FailRead(w) PROVE ClaimsInv'
  <2>1. PICK pc \in {"completing", "failing"} :
           /\ RestTyped' /\ row' = row /\ worker[w].pc \in {"complete", "fail"}
           /\ Goto(w, pc, row[worker[w].job])
    BY <1>0, <1>8 DEF CompleteRead, FailRead, LoadRow, RestTyped, TypeOK
  <2>2. row[worker[w].job] \in Row
    BY <2>1, HeldJob
  <2> QED  BY <1>0, <2>1, <2>2, SameRows, Going DEF Goto, Place
<1>9. ASSUME NEW w \in Worker, CompleteWrite(w) \/ FailWrite(w) PROVE ClaimsInv'
  <2>1. PICK new \in {Completed(worker[w].seen), Failed(worker[w].seen)} :
           /\ RestTyped' /\ worker[w].pc \in {"completing", "failing"}
           /\ row' = [row EXCEPT ![worker[w].job] = Flush(@, worker[w].seen, new)]
           /\ worker' = [worker EXCEPT ![w] = Idle("poll")]
    BY <1>0, <1>9 DEF CompleteWrite, FailWrite, WriteRow, Leave, RestTyped, TypeOK
  <2> QED  BY <2>1, FlushRow, Leaving
<1>10. ASSUME NEW w \in Worker, LoopEnds(w) PROVE ClaimsInv'
  <2>1. RestTyped' /\ row' = row /\ worker' = [worker EXCEPT ![w] = Idle("off")]
    BY <1>0, <1>10 DEF LoopEnds, Leave, RestTyped, TypeOK
  <2> QED  BY <1>0, <2>1, SameRows, Leaving
<1>11. ASSUME NEW w \in Worker, CompleteError(w) PROVE ClaimsInv'
  <2>1. /\ RestTyped' /\ worker[w].pc \in {"complete", "completing"}
        /\ Goto(w, "fail", NoRow)
        /\ \/ row' = row
           \/ row' = [row EXCEPT ![worker[w].job] =
                         Flush(@, worker[w].seen, Completed(worker[w].seen))]
    BY <1>0, <1>11 DEF CompleteError, RestTyped, TypeOK
  <2>2. /\ row' \in [Job -> Row]
        /\ \A i \in Job : row[i].attempts <= row'[i].attempts
    BY <1>0, <2>1, SameRows, FlushRow
  <2> QED  BY <1>0, <2>1, <2>2, Going DEF Goto, Place
<1>12. ASSUME NEW w \in Worker, FailError(w) PROVE ClaimsInv'
  <2>1. /\ RestTyped' /\ worker[w].pc \in {"fail", "failing"}
        /\ worker' = [worker EXCEPT ![w] = Idle("poll")]
        /\ \/ row' = row
           \/ row' = [row EXCEPT ![worker[w].job] =
                         Flush(@, worker[w].seen, Failed(worker[w].seen))]
    BY <1>0, <1>12 DEF FailError, Leave, RestTyped, TypeOK
  <2>2. /\ row' \in [Job -> Row]
        /\ \A i \in Job : row[i].attempts <= row'[i].attempts
    BY <1>0, <2>1, SameRows, FlushRow
  <2> QED  BY <2>1, <2>2, Leaving
<1>13. ASSUME NEW p \in Proc, Start(p) \/ Signal(p) \/ Exit(p) PROVE ClaimsInv'
  <2>1. RestTyped' /\ row' = row /\ worker' = worker
    BY <1>0, <1>13 DEF Start, Signal, Exit, RestTyped, TypeOK
  <2> QED  BY <1>0, <2>1, SameRows, RowsMove
<1>14. ASSUME NEW p \in Proc, Recover(p) PROVE ClaimsInv'
  <2>1. /\ RestTyped'
        /\ worker' = [w \in Worker |-> IF w \in Crew(p) THEN Idle("poll") ELSE worker[w]]
    BY <1>0, <1>14 DEF Recover, RestTyped, TypeOK
  <2>2. /\ row' \in [Job -> Row]
        /\ \A i \in Job : row[i].attempts <= row'[i].attempts
    <3>1. \A i \in Job : row[i] \in Row
      BY <1>0 DEF TypeOK
    <3>2. ASSUME NEW r \in Row
          PROVE  LET n == [r EXCEPT !.status = "pending", !.startedAt = Never]
                 IN  n \in Row /\ r.attempts <= n.attempts /\ r.attempts <= r.attempts
      <4> DEFINE n == [r EXCEPT !.status = "pending", !.startedAt = Never]
      <4>1. n \in Row
        BY DEF Row, Status, Never
      <4>2. n.attempts = r.attempts /\ r.attempts \in Nat
        BY DEF Row
      <4> QED  BY <4>1, <4>2
    <3> QED  BY <1>14, <3>1, <3>2 DEF Recover
  <2> QED  BY <2>1, <2>2, CrewMoves
<1>15. ASSUME NEW p \in Proc, Crash(p) PROVE ClaimsInv'
  <2>1. /\ RestTyped' /\ row' = row
        /\ worker' = [w \in Worker |-> IF w \in Crew(p) THEN Idle("off") ELSE worker[w]]
    BY <1>0, <1>15 DEF Crash, RestTyped, TypeOK
  <2> QED  BY <1>0, <2>1, SameRows, CrewMoves
<1>16. ASSUME Tick \/ UNCHANGED vars PROVE ClaimsInv'
  <2>1. RestTyped' /\ row' = row /\ worker' = worker
    BY <1>0, <1>16 DEF Tick, vars, RestTyped, TypeOK
  <2> QED  BY <1>0, <2>1, SameRows, RowsMove
<1> QED
  BY <1>1, <1>2, <1>3, <1>4, <1>5, <1>6, <1>7, <1>8, <1>9, <1>10, <1>11, <1>12,
     <1>13, <1>14, <1>15, <1>16
  DEF Next, WorkerStep, WorkerError, ProcStep

\* Whatever crashes, failed calls, signals and recoveries do, rows and workers
\* keep their types and every claim of claim_job is a run of its own.
THEOREM ClaimsInvariant == Spec => []ClaimsInv
<1>1. Init => ClaimsInv
  BY ClaimsInit
<1>2. ClaimsInv /\ [Next]_vars => ClaimsInv'
  BY ClaimsNext
<1> QED  BY <1>1, <1>2, PTL DEF Spec

\* Rows, workers and processes keep their types. (job_queue.py, worker.py)
THEOREM TypeCorrect == Spec => []TypeOK
BY ClaimsInvariant, PTL DEF ClaimsInv

\* No two workers ever hold the same attempt of a job, nor the row lock of
\* claim_job together.
THEOREM DistinctClaims == Spec => []ClaimsAreDistinct
BY ClaimsInvariant, PTL DEF ClaimsInv

-----------------------------------------------------------------------------
(* One run at a time                                                       *)

\* The row that claim_job has locked stays pending until it commits.
LockedIsPending ==
    \A w \in Worker : At(w, "locked") => row[worker[w].job].status = "pending"

\* Of a job that was never taken from under a worker: one worker holds it, a
\* row still to be claimed is held by nobody, and without a failed database
\* call the row says "running" until its worker is done with it.
RunsAlone(j) ==
    /\ \A v, w \in Worker : worker[v].job = j /\ worker[w].job = j => v = w
    /\ row[j].status \in {"absent", "pending"} =>
          \A w \in Worker : worker[w].job = j => At(w, "locked")
    /\ errors = 0 => \A w \in Worker : Holds(w, j) => row[j].status = "running"

RunInv == LockedIsPending /\ \A j \in Job \ overrun : RunsAlone(j)

\* A step that leaves the status of j and the workers of j where they are, or
\* takes workers away from it.
LEMMA NotDisturbed ==
    ASSUME NEW j \in Job, RunsAlone(j),
           row'[j].status = row[j].status,
           errors' = 0 => errors = 0,
           \A v \in Worker : worker'[v].job = j =>
              /\ worker[v].job = j
              /\ worker'[v].pc = "locked" <=> worker[v].pc = "locked"
    PROVE  RunsAlone(j)'
BY DEF RunsAlone, Holds, At

\* The same for the locks.
LEMMA LocksKept ==
    ASSUME ClaimsInv, LockedIsPending,
           \A v \in Worker : worker'[v].pc = "locked" =>
              worker[v].pc = "locked" /\ worker'[v].job = worker[v].job,
           \A v \in Worker : worker'[v].pc = "locked" =>
              row'[worker[v].job].status = row[worker[v].job].status
    PROVE  LockedIsPending'
BY DEF LockedIsPending, At

\* No job is run by anybody at the start.
LEMMA RunInit == Init => RunInv
<1> SUFFICES ASSUME Init PROVE RunInv
  OBVIOUS
<1>1. \A w \in Worker : worker[w] = Idle("off")
  BY DEF Init
<1>2. \A w \in Worker : worker[w].pc = "off" /\ worker[w].job = NoJob
  BY <1>1 DEF Idle
<1>3. \A j \in Job : j # NoJob
  BY NumJobsAssumption DEF Job, NoJob
<1> QED  BY <1>2, <1>3 DEF RunInv, LockedIsPending, RunsAlone, Holds, At

\* A worker writes the row of its job, or only moves on.
LEMMA RunWrite ==
    ASSUME ClaimsInv, RunInv, NEW w \in Worker,
           worker[w].pc \in Place \ {"off", "poll", "locked"},
           ~Locked(worker[w].job) \/ row' = row,
           overrun' = overrun, errors' = 0 => errors = 0,
           NEW h, worker' = [worker EXCEPT ![w] = h],
           h.pc # "locked",
           h.job \in {NoJob, worker[w].job},
           NEW r, row' = row \/ row' = [row EXCEPT ![worker[w].job] = r],
           \/ h.job = NoJob
           \/ row' = row
           \/ /\ errors' # 0
              /\ worker[w].job \notin overrun => r.status \notin {"absent", "pending"}
    PROVE  RunInv'
<1> DEFINE j == worker[w].job
<1>0. /\ j \in Job /\ j # NoJob
      /\ \A v \in Worker : v # w => worker'[v] = worker[v]
      /\ worker'[w] = h
      /\ \A i \in Job : i # j => row'[i] = row[i]
      /\ row' = row \/ row'[j] = r
      /\ \A i \in Job : i # NoJob
  BY HeldJob, NumJobsAssumption DEF ClaimsInv, TypeOK, Job, NoJob
<1> HIDE DEF j
<1>1. LockedIsPending'
  <2> SUFFICES ASSUME NEW v \in Worker, worker'[v].pc = "locked"
               PROVE  row'[worker'[v].job].status = "pending"
    BY DEF LockedIsPending, At
  <2>1. v # w /\ worker'[v] = worker[v]
    BY <1>0
  <2>2. worker[v].job \in Job /\ row[worker[v].job].status = "pending"
    BY <2>1 DEF ClaimsInv, HoldsWell, WellHeld, RunInv, LockedIsPending, At
  <2>3. CASE row' = row
    BY <2>1, <2>2, <2>3
  <2>4. CASE ~Locked(worker[w].job)
    <3>1. worker[v].job # j
      BY <2>1, <2>4 DEF Locked, j
    <3> QED  BY <1>0, <2>1, <2>2, <3>1
  <2> QED  BY <2>3, <2>4
<1>2. ASSUME NEW i \in Job \ overrun' PROVE RunsAlone(i)'
  <2>0. RunsAlone(i)
    BY <1>2 DEF RunInv
  <2>1. CASE i # j
    BY <1>0, <1>2, <2>0, <2>1, NotDisturbed DEF j
  <2>2. CASE i = j
    <3>1. \A v \in Worker : worker[v].job = j => v = w
      BY <2>0, <2>2 DEF RunsAlone, j
    <3>2. CASE h.job = NoJob
      <4>1. \A v \in Worker : worker'[v].job # j
        BY <1>0, <3>1, <3>2
      <4> QED  BY <2>2, <4>1 DEF RunsAlone, Holds
    <3>3. CASE row' = row /\ h.job = j
      BY <1>0, <2>0, <2>2, <3>1, <3>3, NotDisturbed DEF j
    <3>4. CASE /\ row'[j] = r /\ errors' # 0
               /\ r.status \notin {"absent", "pending"}
      <4>1. \A v \in Worker : worker'[v].job = j => v = w
        BY <1>0, <3>1
      <4> QED  BY <2>2, <3>4, <4>1 DEF RunsAlone
    <3> QED  BY <1>0, <1>2, <2>2, <3>2, <3>3, <3>4 DEF j
  <2> QED  BY <2>1, <2>2
<1> QED  BY <1>1, <1>2 DEF RunInv

\* ... and only moves on.
LEMMA RunStay ==
    ASSUME ClaimsInv, RunInv, NEW w \in Worker,
           worker[w].pc \in Place \ {"off", "poll", "locked"},
           row' = row, overrun' = overrun, errors' = 0 => errors = 0,
           NEW h, worker' = [worker EXCEPT ![w] = h],
           h.pc # "locked", h.job \in {NoJob, worker[w].job}
    PROVE  RunInv'
<1>1. row' = row \/ row' = [row EXCEPT ![worker[w].job] = NoRow]
  OBVIOUS
<1> QED  BY <1>1, RunWrite

\* A job that runs alone is not put back by the complete_job of its worker.
LEMMA CompletedStays ==
    ASSUME ClaimsInv, RunInv, NEW w \in Worker,
           worker[w].pc \notin {"off", "poll", "locked"},
           worker[w].job \notin overrun
    PROVE  LET j == worker[w].job
               seen == worker[w].seen
           IN  Flush(row[j], seen, Completed(seen)).status \notin {"absent", "pending"}
<1> DEFINE j == worker[w].job
           seen == worker[w].seen
<1>1. j \in Job /\ row[j] \in Row /\ seen \in Row
  BY HeldJob
<1>2. row[j].status \notin {"absent", "pending"}
  BY <1>1 DEF RunInv, RunsAlone, At
<1>3. Completed(seen).status = "completed"
  BY <1>1 DEF Completed, Row
<1>4. Flush(row[j], seen, Completed(seen)).status \in {row[j].status, "completed"}
  BY <1>1, <1>3 DEF Flush, Row
<1> QED  BY <1>2, <1>4

\* Every step keeps the runs of a job apart.
LEMMA RunNext == ClaimsInv /\ RunInv /\ [Next]_vars => RunInv'
<1> SUFFICES ASSUME ClaimsInv, RunInv, [Next]_vars PROVE RunInv'
  OBVIOUS
<1> USE DEF faults, At
<1>0. /\ TypeOK
      /\ \A w \in Worker : worker[w] \in Hold /\ WellHeld(worker[w], row)
      /\ \A j \in Job : j # NoJob
  BY NumJobsAssumption DEF ClaimsInv, TypeOK, HoldsWell, Job, NoJob
<1>1. ASSUME NEW j \in Job, CreateJob(j) PROVE RunInv'
  <2>1. /\ worker' = worker /\ overrun' = overrun /\ errors' = errors
        /\ row[j].status = "absent" /\ row'[j].status = "pending"
        /\ \A i \in Job : i # j => row'[i] = row[i]
    BY <1>0, <1>1 DEF CreateJob, TypeOK, Row
  <2>2. LockedIsPending'
    BY <1>0, <2>1 DEF RunInv, LockedIsPending, WellHeld
  <2>3. ASSUME NEW i \in Job \ overrun' PROVE RunsAlone(i)'
    <3>1. RunsAlone(i)
      BY <2>1, <2>3 DEF RunInv
    <3>2. CASE i # j
      BY <2>1, <2>3, <3>1, <3>2, NotDisturbed
    <3>3. CASE i = j
      BY <2>1, <3>1, <3>3 DEF RunsAlone, Holds
    <3> QED  BY <3>2, <3>3
  <2> QED  BY <2>2, <2>3 DEF RunInv
<1>2. ASSUME NEW w \in Worker, NEW j \in Job, ClaimSelect(w, j) PROVE RunInv'
  <2>1. /\ row' = row /\ overrun' = overrun /\ errors' = errors
        /\ ~Locked(j) /\ row[j].status = "pending"
        /\ worker'[w].pc = "locked" /\ worker'[w].job = j
        /\ \A v \in Worker : v # w => worker'[v] = worker[v]
    BY <1>0, <1>2 DEF ClaimSelect, Oldest, Claimable, TypeOK, Idle
  <2>2. LockedIsPending'
    BY <2>1 DEF RunInv, LockedIsPending
  <2>3. ASSUME NEW i \in Job \ overrun' PROVE RunsAlone(i)'
    <3>1. RunsAlone(i)
      BY <2>1, <2>3 DEF RunInv
    <3>2. CASE i # j
      BY <2>1, <2>3, <3>1, <3>2 DEF RunsAlone, Holds
    <3>3. CASE i = j
      <4>1. \A v \in Worker : worker[v].job # j
        BY <2>1, <3>1, <3>3 DEF RunsAlone, Locked
      <4> QED  BY <2>1, <3>3, <4>1 DEF RunsAlone, Holds
    <3> QED  BY <3>2, <3>3
  <2> QED  BY <2>2, <2>3 DEF RunInv
<1>3. ASSUME NEW w \in Worker, ClaimNothing(w) PROVE RunInv'
  BY <1>3 DEF ClaimNothing, vars, RunInv, LockedIsPending, RunsAlone, Holds
<1>4. ASSUME NEW w \in Worker, ClaimCommit(w) \/ ClaimError(w) PROVE RunInv'
  <2> DEFINE j == worker[w].job
  <2>1. PICK h : /\ worker' = [worker EXCEPT ![w] = h] /\ h.pc # "locked"
                 /\ h.job \in {j, NoJob}
                 /\ \/ row' = row /\ h.job = NoJob
                    \/ row' = [row EXCEPT ![j] = Claimed(row[j])]
    <3>1. CASE ClaimCommit(w)
      <4> DEFINE h == [pc |-> IF j \in Unhandled THEN "fail" ELSE "handler",
                       job |-> j, attempt |-> row[j].attempts + 1,
                       since |-> clock, seen |-> NoRow]
      <4>1. h.pc # "locked" /\ h.job = j
        OBVIOUS
      <4>2. /\ worker' = [worker EXCEPT ![w] = h]
            /\ row' = [row EXCEPT ![j] = Claimed(row[j])]
        BY <1>0, <3>1 DEF ClaimCommit, TypeOK
      <4> HIDE DEF h
      <4> QED  BY <4>1, <4>2
    <3>2. CASE ClaimError(w)
      <4>1. Idle("poll").pc # "locked" /\ Idle("poll").job = NoJob
        BY DEF Idle
      <4> QED  BY <1>0, <3>2, <4>1 DEF ClaimError, Leave, TypeOK
    <3> QED  BY <1>4, <3>1, <3>2
  <2>2. /\ overrun' = overrun /\ worker[w].pc = "locked"
        /\ errors' = 0 => errors = 0
    BY <1>0, <1>4 DEF ClaimCommit, ClaimError, TypeOK
  <2>3. /\ j \in Job /\ worker'[w] = h
        /\ \A v \in Worker : v # w => worker'[v] = worker[v]
        /\ \A i \in Job : i # j => row'[i] = row[i]
        /\ (row' = row /\ h.job = NoJob) \/ row'[j].status = "running"
    BY <1>0, <2>1, <2>2, HeldJob DEF TypeOK, Claimed
  <2>4. \A v \in Worker : v # w /\ worker[v].job = j => worker[v].pc # "locked"
    BY <2>2, HeldJob, <1>0 DEF WellHeld
  <2> HIDE DEF j
  <2>5. LockedIsPending'
    BY <1>0, <2>1, <2>3, <2>4 DEF RunInv, LockedIsPending, WellHeld
  <2>6. ASSUME NEW i \in Job \ overrun' PROVE RunsAlone(i)'
    <3>1. RunsAlone(i)
      BY <2>2, <2>6 DEF RunInv
    <3>2. CASE i # j
      BY <1>0, <2>1, <2>2, <2>3, <3>1, <3>2, NotDisturbed DEF j
    <3>3. CASE i = j
      <4>1. \A v \in Worker : worker[v].job = j => v = w
        BY <3>1, <3>3 DEF RunsAlone, j
      <4>2. \A v \in Worker : worker'[v].job = j => v = w
        BY <2>3, <4>1
      <4>3. CASE row' = row /\ h.job = NoJob
        BY <1>0, <2>3, <3>3, <4>2, <4>3 DEF RunsAlone, Holds
      <4>4. CASE row'[j].status = "running"
        BY <3>3, <4>2, <4>4 DEF RunsAlone
      <4> QED  BY <2>3, <4>3, <4>4
    <3> QED  BY <3>2, <3>3
  <2> QED  BY <2>5, <2>6 DEF RunInv
<1>5. ASSUME NEW w \in Worker, UpdateProgress(w) PROVE RunInv'
  <2> DEFINE j == worker[w].job
  <2>1. /\ worker' = worker /\ overrun' = overrun /\ errors' = errors /\ j \in Job
        /\ row' = [row EXCEPT ![j].progress = TRUE]
    BY <1>0, <1>5, HeldJob DEF UpdateProgress
  <2>2. \A i \in Job : row'[i].status = row[i].status
    BY <1>0, <2>1 DEF TypeOK, Row
  <2>3. LockedIsPending'
    BY <1>0, <2>1, <2>2 DEF RunInv, LockedIsPending, WellHeld
  <2>4. ASSUME NEW i \in Job \ overrun' PROVE RunsAlone(i)'
    BY <2>1, <2>2, <2>4, NotDisturbed DEF RunInv
  <2> QED  BY <2>3, <2>4 DEF RunInv
<1>6. ASSUME NEW w \in Worker,
             HandlerReturns(w) \/ HandlerRaises(w) \/ CompleteRead(w) \/ FailRead(w)
      PROVE  RunInv'
  <2>1. PICK pc \in {"complete", "fail", "completing", "failing"},
             r \in {NoRow, row[worker[w].job]} :
           worker' = [worker EXCEPT ![w] = [worker[w] EXCEPT !.pc = pc, !.seen = r]]
    BY <1>6 DEF HandlerReturns, HandlerRaises, CompleteRead, FailRead, LoadRow, Goto
  <2>2. /\ worker[w].pc \in Place \ {"off", "poll", "locked"}
        /\ row' = row /\ overrun' = overrun /\ errors' = errors
    BY <1>6 DEF HandlerReturns, HandlerRaises, CompleteRead, FailRead, LoadRow, Place
  <2> DEFINE h == [worker[w] EXCEPT !.pc = pc, !.seen = r]
  <2>3. h.pc # "locked" /\ h.job = worker[w].job
    BY <1>0 DEF Hold
  <2>4. worker' = [worker EXCEPT ![w] = h]
    BY <2>1
  <2> HIDE DEF h
  <2> QED  BY <2>2, <2>3, <2>4, RunStay
<1>7. ASSUME NEW w \in Worker, CompleteWrite(w) \/ FailWrite(w) \/ FailError(w)
      PROVE  RunInv'
  <2>1. /\ worker[w].pc \in Place \ {"off", "poll", "locked"}
        /\ worker' = [worker EXCEPT ![w] = Idle("poll")]
        /\ overrun' = overrun
        /\ errors' = 0 => errors = 0
        /\ row' = row \/ ~Locked(worker[w].job)
    BY <1>0, <1>7 DEF CompleteWrite, FailWrite, FailError, WriteRow, Leave, Place, TypeOK
  <2>2. PICK r : row' = row \/ row' = [row EXCEPT ![worker[w].job] = r]
    BY <1>7 DEF CompleteWrite, FailWrite, FailError, WriteRow
  <2>3. Idle("poll").pc # "locked" /\ Idle("poll").job = NoJob
    BY DEF Idle
  <2> QED  BY <2>1, <2>2, <2>3, RunWrite
<1>8. ASSUME NEW w \in Worker, CompleteError(w) PROVE RunInv'
  <2> DEFINE h == [worker[w] EXCEPT !.pc = "fail", !.seen = NoRow]
             r == Flush(row[worker[w].job], worker[w].seen, Completed(worker[w].seen))
  <2>1. /\ worker[w].pc \in Place \ {"off", "poll", "locked"}
        /\ worker' = [worker EXCEPT ![w] = h]
        /\ overrun' = overrun /\ errors' # 0
        /\ \/ row' = row
           \/ row' = [row EXCEPT ![worker[w].job] = r] /\ ~Locked(worker[w].job)
    BY <1>0, <1>8 DEF CompleteError, Goto, Place, TypeOK
  <2>2. h.pc # "locked" /\ h.job = worker[w].job
    BY <1>0 DEF Hold
  <2>3. worker[w].job \notin overrun => r.status \notin {"absent", "pending"}
    BY <2>1, CompletedStays
  <2> HIDE DEF h, r
  <2> QED  BY <2>1, <2>2, <2>3, RunWrite
<1>9. ASSUME \A v \in Worker : \/ worker'[v] = worker[v]
                               \/ worker'[v].pc # "locked" /\ worker'[v].job = NoJob,
             row' = row, overrun' = overrun, errors' = errors
      PROVE  RunInv'
  <2>1. LockedIsPending'
    BY <1>9 DEF RunInv, LockedIsPending
  <2>2. ASSUME NEW i \in Job \ overrun' PROVE RunsAlone(i)'
    BY <1>0, <1>9, <2>2, NotDisturbed DEF RunInv
  <2> QED  BY <2>1, <2>2 DEF RunInv
<1>10. ASSUME NEW w \in Worker, LoopEnds(w) PROVE RunInv'
  <2>1. \A v \in Worker : \/ worker'[v] = worker[v]
                          \/ worker'[v].pc # "locked" /\ worker'[v].job = NoJob
    BY <1>0, <1>10 DEF LoopEnds, Leave, Idle, TypeOK
  <2> QED  BY <1>9, <1>10, <2>1 DEF LoopEnds
<1>11. ASSUME NEW p \in Proc, Crash(p) PROVE RunInv'
  <2>1. \A v \in Worker : \/ worker'[v] = worker[v]
                          \/ worker'[v].pc # "locked" /\ worker'[v].job = NoJob
    BY <1>11 DEF Crash, Idle
  <2> QED  BY <1>9, <1>11, <2>1 DEF Crash
<1>12. ASSUME \/ \E p \in Proc : Start(p) \/ Signal(p) \/ Exit(p)
              \/ Tick
              \/ UNCHANGED vars
       PROVE  RunInv'
  BY <1>9, <1>12 DEF Start, Signal, Exit, Tick, vars
<1>13. ASSUME NEW p \in Proc, Recover(p) PROVE RunInv'
  <2>1. /\ \A v \in Worker : \/ worker'[v] = worker[v]
                             \/ worker'[v].pc # "locked" /\ worker'[v].job = NoJob
        /\ errors' = errors /\ overrun \subseteq overrun'
        /\ \A j \in Job : Stale(j) /\ (\E v \in Worker : Holds(v, j)) => j \in overrun'
    BY <1>13 DEF Recover, Idle
  <2>2. \A j \in Job : \/ row'[j].status = row[j].status
                       \/ Stale(j) /\ row'[j].status = "pending"
    BY <1>0, <1>13 DEF Recover, TypeOK, Row
  <2>3. LockedIsPending'
    BY <1>0, <2>1, <2>2 DEF RunInv, LockedIsPending, WellHeld
  <2>4. ASSUME NEW i \in Job \ overrun' PROVE RunsAlone(i)'
    <3>1. RunsAlone(i)
      BY <2>1, <2>4 DEF RunInv
    <3>2. CASE row'[i].status = row[i].status
      BY <1>0, <2>1, <2>4, <3>1, <3>2, NotDisturbed
    <3>3. CASE Stale(i) /\ row'[i].status = "pending"
      <4>1. \A v \in Worker : ~Holds(v, i)
        BY <2>1, <2>4, <3>3
      <4>2. \A v \in Worker : worker'[v].job = i => worker'[v] = worker[v]
        BY <1>0, <2>1, <2>4
      <4> QED  BY <2>1, <3>1, <3>3, <4>1, <4>2 DEF RunsAlone, Holds
    <3> QED  BY <2>2, <2>4, <3>2, <3>3
  <2> QED  BY <2>3, <2>4 DEF RunInv
<1> QED
  BY <1>1, <1>2, <1>3, <1>4, <1>5, <1>6, <1>7, <1>8, <1>10, <1>11, <1>12, <1>13
  DEF Next, WorkerStep, WorkerError, ProcStep

\* A job that recovery never took from under a live worker is run by one worker
\* at a time, whatever is killed, fails, stops or restarts.
THEOREM OneRun == Spec => []OneRunAtATime
<1>1. Init => ClaimsInv /\ RunInv
  BY ClaimsInit, RunInit
<1>2. (ClaimsInv /\ RunInv) /\ [Next]_vars => (ClaimsInv /\ RunInv)'
  BY ClaimsNext, RunNext
<1>3. RunInv => OneRunAtATime
  BY DEF RunInv, RunsAlone, OneRunAtATime
<1> QED  BY <1>1, <1>2, <1>3, PTL DEF Spec

\* A step moves the end of a job only through a worker that holds the job.
LEMMA EndMoves ==
    ASSUME ClaimsInv, RunInv, [Next]_vars, NEW j \in Job,
           row[j].status \in Ended, row'[j].status # row[j].status
    PROVE  \E w \in Worker : Holds(w, j)
<1> USE DEF faults, At
<1>0. /\ TypeOK
      /\ \A w \in Worker : worker[w] \in Hold /\ WellHeld(worker[w], row)
  BY DEF ClaimsInv, HoldsWell, TypeOK
<1>1. ASSUME NEW i \in Job, CreateJob(i) PROVE FALSE
  BY <1>0, <1>1 DEF CreateJob, TypeOK, Ended
<1>2. ASSUME NEW w \in Worker, ClaimCommit(w) \/ ClaimError(w) PROVE FALSE
  <2>1. /\ row[worker[w].job].status = "pending"
        /\ \A i \in Job : i # worker[w].job => row'[i] = row[i]
    BY <1>0, <1>2 DEF ClaimCommit, ClaimError, RunInv, LockedIsPending, TypeOK
  <2> QED  BY <2>1 DEF Ended
<1>3. ASSUME NEW w \in Worker, UpdateProgress(w) PROVE FALSE
  BY <1>0, <1>3, HeldJob DEF UpdateProgress, TypeOK, Row
<1>4. ASSUME NEW w \in Worker, CompleteWrite(w) \/ FailWrite(w) \/ CompleteError(w) \/ FailError(w)
      PROVE  Holds(w, j)
  <2>1. /\ worker[w].pc # "locked"
        /\ \A i \in Job : i # worker[w].job => row'[i] = row[i]
    BY <1>0, <1>4 DEF CompleteWrite, FailWrite, CompleteError, FailError, WriteRow, TypeOK
  <2> QED  BY <2>1 DEF Holds
<1>5. ASSUME NEW p \in Proc, Recover(p) PROVE FALSE
  BY <1>0, <1>5 DEF Recover, Stale, Ended, TypeOK
<1>6. ASSUME row' = row PROVE FALSE
  BY <1>6
<1>7. \/ \E i \in Job : CreateJob(i)
      \/ \E w \in Worker : ClaimCommit(w) \/ ClaimError(w) \/ UpdateProgress(w)
      \/ \E w \in Worker : CompleteWrite(w) \/ FailWrite(w) \/ CompleteError(w) \/ FailError(w)
      \/ \E p \in Proc : Recover(p)
      \/ row' = row
  BY DEF Next, vars, WorkerStep, WorkerError, ProcStep, ClaimSelect, ClaimNothing,
         HandlerReturns, HandlerRaises, CompleteRead, FailRead, LoadRow, LoopEnds,
         Start, Signal, Exit, Crash, Tick
<1> QED  BY <1>1, <1>2, <1>3, <1>4, <1>5, <1>6, <1>7

\* As long as no database call of a worker fails, a job that ended stays as it
\* is, unless recovery gave it to a second worker.
THEOREM EndFinal == Spec => EndIsFinal
<1>1. Init => ClaimsInv /\ RunInv
  BY ClaimsInit, RunInit
<1>2. (ClaimsInv /\ RunInv) /\ [Next]_vars => (ClaimsInv /\ RunInv)'
  BY ClaimsNext, RunNext
<1>3. ClaimsInv /\ RunInv /\ [Next]_vars =>
         [\A j \in Job \ overrun :
             errors = 0 /\ row[j].status \in Ended => row'[j].status = row[j].status]_vars
  <2> SUFFICES ASSUME ClaimsInv, RunInv, [Next]_vars, NEW j \in Job \ overrun,
                      errors = 0, row[j].status \in Ended
               PROVE  row'[j].status = row[j].status
    OBVIOUS
  <2>1. \A w \in Worker : ~Holds(w, j)
    BY DEF RunInv, RunsAlone, Ended
  <2> QED  BY <2>1, EndMoves
<1> QED  BY <1>1, <1>2, <1>3, PTL DEF Spec, EndIsFinal

\* The workers of a process that is down, or has just started, are not there.
CrewGone == \A w \in Worker : proc[ProcOf[w]] \in {"down", "starting"} => At(w, "off")

\* Every step keeps it so: their workers are put into place by Recover and are
\* taken away by Crash, or have left by themselves before Exit.
LEMMA CrewStep ==
    ASSUME TypeOK, CrewGone, [Next]_vars
    PROVE  CrewGone'
<1> USE DEF faults, At
<1>0. /\ worker \in [Worker -> Hold] /\ proc \in [Proc -> {"down", "starting", "up", "draining"}]
      /\ \A w \in Worker : ProcOf[w] \in Proc
  BY ProcOfAssumption DEF TypeOK
<1>1. ASSUME proc' = proc, NEW w \in Worker, proc[ProcOf[w]] \notin {"down", "starting"},
             \A v \in Worker : v # w => worker'[v] = worker[v]
      PROVE  CrewGone'
  BY <1>1 DEF CrewGone
<1>2. ASSUME NEW w \in Worker, WorkerStep(w) \/ WorkerError(w) PROVE CrewGone'
  <2>1. ~At(w, "off") /\ proc' = proc
    BY <1>2 DEF WorkerStep, WorkerError, ClaimSelect, ClaimNothing, ClaimCommit,
       UpdateProgress, HandlerReturns, HandlerRaises, CompleteRead, CompleteWrite,
       FailRead, FailWrite, LoadRow, WriteRow, LoopEnds, ClaimError, CompleteError,
       FailError, vars
  <2>2. \A v \in Worker : v # w => worker'[v] = worker[v]
    BY <1>0, <1>2 DEF WorkerStep, WorkerError, ClaimSelect, ClaimNothing, ClaimCommit,
       UpdateProgress, HandlerReturns, HandlerRaises, CompleteRead, CompleteWrite,
       FailRead, FailWrite, LoadRow, WriteRow, LoopEnds, ClaimError, CompleteError,
       FailError, vars, Goto, Leave
  <2> QED  BY <1>1, <2>1, <2>2 DEF CrewGone
<1>3. ASSUME NEW p \in Proc, Start(p) PROVE CrewGone'
  BY <1>0, <1>3 DEF Start, CrewGone
<1>4. ASSUME NEW p \in Proc, Recover(p) PROVE CrewGone'
  BY <1>0, <1>4 DEF Recover, CrewGone, Crew
<1>5. ASSUME NEW p \in Proc, Signal(p) PROVE CrewGone'
  BY <1>0, <1>5 DEF Signal, CrewGone
<1>6. ASSUME NEW p \in Proc, Exit(p) PROVE CrewGone'
  BY <1>0, <1>6 DEF Exit, CrewGone, Crew
<1>7. ASSUME NEW p \in Proc, Crash(p) PROVE CrewGone'
  BY <1>0, <1>7 DEF Crash, CrewGone, Crew, Idle
<1>8. ASSUME (\E j \in Job : CreateJob(j)) \/ Tick \/ UNCHANGED vars PROVE CrewGone'
  BY <1>8 DEF CreateJob, Tick, vars, CrewGone
<1> QED  BY <1>2, <1>3, <1>4, <1>5, <1>6, <1>7, <1>8 DEF Next, ProcStep

\* Recovery runs before the workers of its process exist; with one process there are no others.
LEMMA LoneStep ==
    ASSUME ClaimsInv, CrewGone, LoneProcessNeverOverruns, [Next]_vars
    PROVE  LoneProcessNeverOverruns'
<1>1. CASE \E p \in Proc : Recover(p)
  <2>1. PICK p \in Proc : Recover(p)
    BY <1>1
  <2>2. ASSUME \A q, r \in Proc : q = r
        PROVE  \A w \in Worker, j \in Job : ~Holds(w, j)
    <3>1. \A w \in Worker : At(w, "off")
      BY <2>1, <2>2, ProcOfAssumption DEF Recover, CrewGone
    <3> QED
      BY <3>1, NumJobsAssumption
      DEF ClaimsInv, HoldsWell, WellHeld, Holds, At, Job, NoJob
  <2> QED  BY <2>1, <2>2 DEF Recover, LoneProcessNeverOverruns
<1>2. CASE overrun' = overrun
  BY <1>2 DEF LoneProcessNeverOverruns
<1>3. (\E p \in Proc : Recover(p)) \/ overrun' = overrun
  BY DEF Next, vars, WorkerStep, WorkerError, ProcStep, ClaimSelect, ClaimNothing,
     ClaimCommit, UpdateProgress, CreateJob, CompleteWrite, FailWrite, WriteRow,
     HandlerReturns, HandlerRaises, CompleteRead, FailRead, LoadRow, LoopEnds,
     ClaimError, CompleteError, FailError, Start, Signal, Exit, Crash, Tick
<1> QED  BY <1>1, <1>2, <1>3

\* One worker process never recovers a job from under its own workers: the
\* order of main, recovery first, is what keeps its runs exclusive.
THEOREM LoneProcess == Spec => []LoneProcessNeverOverruns
<1> DEFINE Inv == ClaimsInv /\ CrewGone /\ LoneProcessNeverOverruns
<1>1. Init => Inv
  BY ClaimsInit DEF Init, CrewGone, At, Idle, LoneProcessNeverOverruns
<1>2. Inv /\ [Next]_vars => Inv'
  BY ClaimsNext, CrewStep, LoneStep DEF ClaimsInv
<1>3. Inv => LoneProcessNeverOverruns
  OBVIOUS
<1> QED  BY <1>1, <1>2, <1>3, PTL DEF Spec

-----------------------------------------------------------------------------
(* A running row has its runner                                            *)

\* What complete_job or fail_job will write over a row that still says "running" in
\* the attempt of its worker was read when it said so.
SeenRunning ==
    \A w \in Worker :
        /\ worker[w].pc \in {"completing", "failing"}
        /\ row[worker[w].job].status = "running"
        /\ row[worker[w].job].attempts = worker[w].attempt
        => worker[w].seen.status = "running"

\* What a worker decides is an end or another wait, and the UPDATE writes it, or leaves
\* the status as it is; attempts are never written.
LEMMA FlushedStatus ==
    ASSUME NEW r \in Row, NEW s \in Row, NEW n \in {Completed(s), Failed(s)}
    PROVE  /\ Flush(r, s, n).attempts = r.attempts
           /\ Flush(r, s, n).status = IF n.status = s.status THEN r.status ELSE n.status
           /\ n.status \in {"completed", "pending", "failed"}
<1>1. n \in Row /\ n.status \in {"completed", "pending", "failed"}
  BY RowTypes DEF Completed, Failed, Row
<1>2. Flush(r, s, n).attempts = r.attempts
  BY <1>1 DEF Flush, Row
<1>3. Flush(r, s, n).status = IF n.status = s.status THEN r.status ELSE n.status
  BY <1>1 DEF Flush, Row
<1> QED  BY <1>1, <1>2, <1>3

\* A row that says "running" after a step said so before, or has just been claimed, by a
\* worker that now runs it unless the call failed.
LEMMA StillRunning ==
    ASSUME ClaimsInv, [Next]_vars, NEW j \in Job, row'[j].status = "running"
    PROVE  \/ row[j].status = "running" /\ row'[j].attempts = row[j].attempts
           \/ /\ row'[j].attempts = row[j].attempts + 1
              /\ errors' # 0 \/ \E w \in Worker : Holds(w, j)' /\ worker'[w].attempt = row'[j].attempts
<1> DEFINE Same == row[j].status = "running" /\ row'[j].attempts = row[j].attempts
           Claim == /\ row'[j].attempts = row[j].attempts + 1
                    /\ errors' # 0 \/ \E w \in Worker : /\ Holds(w, j)'
                                                        /\ worker'[w].attempt = row'[j].attempts
<1> USE DEF faults, At
<1>0. /\ TypeOK /\ row[j] \in Row
      /\ \A w \in Worker : worker[w] \in Hold /\ WellHeld(worker[w], row)
  BY DEF ClaimsInv, HoldsWell, TypeOK
<1>1. ASSUME NEW i \in Job, CreateJob(i) PROVE Same
  BY <1>0, <1>1 DEF CreateJob, TypeOK, Row
<1>2. ASSUME NEW w \in Worker, ClaimCommit(w) PROVE Same \/ Claim
  <2>1. CASE worker[w].job = j
    <3>1. row'[j].attempts = row[j].attempts + 1
      BY <1>0, <1>2, <2>1 DEF ClaimCommit, Claimed, TypeOK
    <3>2. /\ worker'[w].job = j /\ worker'[w].pc # "locked"
          /\ worker'[w].attempt = row[j].attempts + 1
      BY <1>0, <1>2, <2>1 DEF ClaimCommit, TypeOK
    <3> QED  BY <3>1, <3>2 DEF Holds
  <2>2. CASE worker[w].job # j
    BY <1>0, <1>2, <2>2 DEF ClaimCommit, TypeOK
  <2> QED  BY <2>1, <2>2
<1>3. ASSUME NEW w \in Worker, ClaimError(w) PROVE Same \/ Claim
  <2>1. errors' # 0
    BY <1>0, <1>3 DEF ClaimError, TypeOK
  <2>2. CASE row' = row
    BY <2>2
  <2>3. CASE row' = [row EXCEPT ![worker[w].job] = Claimed(@)] /\ worker[w].job = j
    BY <1>0, <2>1, <2>3 DEF Claimed, TypeOK
  <2>4. CASE row' = [row EXCEPT ![worker[w].job] = Claimed(@)] /\ worker[w].job # j
    BY <1>0, <2>4 DEF TypeOK
  <2> QED  BY <1>3, <2>2, <2>3, <2>4 DEF ClaimError
<1>4. ASSUME NEW w \in Worker, UpdateProgress(w) PROVE Same
  BY <1>0, <1>4 DEF UpdateProgress, TypeOK, Row
<1>5. ASSUME NEW w \in Worker,
             CompleteWrite(w) \/ FailWrite(w) \/ CompleteError(w) \/ FailError(w)
      PROVE  Same
  <2>1. CASE row' = row
    BY <2>1
  <2>2. CASE row' # row
    <3>1. PICK n \in {Completed(worker[w].seen), Failed(worker[w].seen)} :
             row' = [row EXCEPT ![worker[w].job] = Flush(@, worker[w].seen, n)]
      BY <1>5, <2>2 DEF CompleteWrite, FailWrite, CompleteError, FailError, WriteRow
    <3>2. CASE worker[w].job = j
      <4>1. worker[w].seen \in Row
        BY <1>0 DEF Hold
      <4>2. row'[j] = Flush(row[j], worker[w].seen, n)
        BY <1>0, <3>1, <3>2 DEF TypeOK
      <4> QED  BY <1>0, <4>1, <4>2, FlushedStatus
    <3>3. CASE worker[w].job # j
      BY <1>0, <3>1, <3>3 DEF TypeOK
    <3> QED  BY <3>2, <3>3
  <2> QED  BY <2>1, <2>2
<1>6. ASSUME NEW p \in Proc, Recover(p) PROVE Same
  BY <1>0, <1>6 DEF Recover, TypeOK, Row
<1>7. ASSUME row' = row PROVE Same
  BY <1>7
<1>8. \/ \E i \in Job : CreateJob(i)
      \/ \E w \in Worker : ClaimCommit(w) \/ ClaimError(w) \/ UpdateProgress(w)
      \/ \E w \in Worker : CompleteWrite(w) \/ FailWrite(w) \/ CompleteError(w) \/ FailError(w)
      \/ \E p \in Proc : Recover(p)
      \/ row' = row
  BY DEF Next, vars, WorkerStep, WorkerError, ProcStep, ClaimSelect, ClaimNothing,
         HandlerReturns, HandlerRaises, CompleteRead, FailRead, LoadRow, LoopEnds,
         Start, Signal, Exit, Crash, Tick
<1> QED  BY <1>1, <1>2, <1>3, <1>4, <1>5, <1>6, <1>7, <1>8

\* A worker that is about to write has read the row in this step, or was there before it.
LEMMA ReadOrThere ==
    ASSUME ClaimsInv, [Next]_vars, NEW w \in Worker,
           worker'[w].pc \in {"completing", "failing"}
    PROVE  \/ worker'[w] = worker[w]
           \/ /\ worker'[w].job = worker[w].job /\ worker[w].job \in Job
              /\ worker'[w].seen = row[worker[w].job] /\ row' = row
<1> USE DEF faults, At
<1>0. /\ TypeOK
      /\ worker[w] \in Hold /\ WellHeld(worker[w], row)
  BY DEF ClaimsInv, HoldsWell, TypeOK
<1>1. ASSUME NEW v \in Worker, WorkerStep(v) \/ WorkerError(v), v # w
      PROVE  worker'[w] = worker[w]
  BY <1>0, <1>1 DEF WorkerStep, WorkerError, ClaimSelect, ClaimNothing, ClaimCommit,
     UpdateProgress, HandlerReturns, HandlerRaises, CompleteRead, CompleteWrite,
     FailRead, FailWrite, LoadRow, WriteRow, LoopEnds, ClaimError, CompleteError,
     FailError, vars, Goto, Leave, TypeOK
<1>2. ASSUME CompleteRead(w) \/ FailRead(w)
      PROVE  /\ worker'[w].job = worker[w].job /\ worker[w].job \in Job
             /\ worker'[w].seen = row[worker[w].job] /\ row' = row
  <2>1. PICK pc \in {"completing", "failing"} :
           /\ worker[w].pc \in {"complete", "fail"} /\ row' = row
           /\ worker' = [worker EXCEPT ![w] =
                           [worker[w] EXCEPT !.pc = pc, !.seen = row[worker[w].job]]]
    BY <1>2 DEF CompleteRead, FailRead, LoadRow, Goto
  <2>2. worker'[w] = [worker[w] EXCEPT !.pc = pc, !.seen = row[worker[w].job]]
    BY <1>0, <2>1 DEF TypeOK
  <2>3. worker[w].job \in Job
    BY <1>0, <2>1 DEF WellHeld
  <2> QED  BY <1>0, <2>1, <2>2, <2>3 DEF Hold
<1>3. ASSUME WorkerStep(w) \/ WorkerError(w), ~(CompleteRead(w) \/ FailRead(w))
      PROVE  worker'[w] = worker[w]
  <2>1. ASSUME NEW pc \in {"off", "poll"}, Leave(w, pc) PROVE FALSE
    BY <1>0, <2>1 DEF Leave, Idle, TypeOK
  <2>2. ASSUME NEW pc \in {"complete", "fail"}, Goto(w, pc, NoRow) PROVE FALSE
    <3>1. worker'[w] = [worker[w] EXCEPT !.pc = pc, !.seen = NoRow]
      BY <1>0, <2>2 DEF Goto, TypeOK
    <3> QED  BY <1>0, <3>1 DEF Hold
  <2>3. ASSUME NEW j \in Job, ClaimSelect(w, j) PROVE FALSE
    BY <1>0, <2>3 DEF ClaimSelect, Idle, TypeOK
  <2>4. ASSUME ClaimCommit(w) PROVE FALSE
    BY <1>0, <2>4 DEF ClaimCommit, TypeOK
  <2>5. CASE ClaimNothing(w) \/ UpdateProgress(w)
    BY <2>5 DEF ClaimNothing, UpdateProgress, vars
  <2>6. CASE HandlerReturns(w) \/ HandlerRaises(w) \/ CompleteError(w)
    BY <2>2, <2>6 DEF HandlerReturns, HandlerRaises, CompleteError
  <2>7. CASE CompleteWrite(w) \/ FailWrite(w) \/ LoopEnds(w) \/ ClaimError(w) \/ FailError(w)
    BY <2>1, <2>7 DEF CompleteWrite, FailWrite, WriteRow, LoopEnds, ClaimError, FailError
  <2> QED  BY <1>3, <2>3, <2>4, <2>5, <2>6, <2>7 DEF WorkerStep, WorkerError
<1>4. ASSUME NEW p \in Proc, ProcStep(p) PROVE worker'[w] = worker[w]
  <2>1. CASE Recover(p) \/ Crash(p)
    <3>1. PICK pc \in {"off", "poll"} :
             worker' = [v \in Worker |-> IF v \in Crew(p) THEN Idle(pc) ELSE worker[v]]
      BY <2>1 DEF Recover, Crash
    <3> QED  BY <3>1 DEF Idle
  <2>2. CASE Start(p) \/ Signal(p) \/ Exit(p)
    BY <2>2 DEF Start, Signal, Exit
  <2> QED  BY <1>4, <2>1, <2>2 DEF ProcStep
<1>5. ASSUME (\E j \in Job : CreateJob(j)) \/ Tick \/ UNCHANGED vars PROVE worker'[w] = worker[w]
  BY <1>5 DEF CreateJob, Tick, vars
<1> QED  BY <1>1, <1>2, <1>3, <1>4, <1>5 DEF Next

\* A row that runs on in the same attempt said so when it was read.
LEMMA SeenRunningStep == ClaimsInv /\ SeenRunning /\ [Next]_vars => SeenRunning'
<1> SUFFICES ASSUME ClaimsInv, SeenRunning, [Next]_vars, ClaimsInv', NEW w \in Worker,
                    worker'[w].pc \in {"completing", "failing"},
                    row'[worker'[w].job].status = "running",
                    row'[worker'[w].job].attempts = worker'[w].attempt
             PROVE  worker'[w].seen.status = "running"
  BY ClaimsNext DEF SeenRunning
<1>1. CASE worker'[w] = worker[w]
  <2> DEFINE j == worker[w].job
  <2>1. j \in Job /\ worker[w].attempt \in 1 .. row[j].attempts /\ row[j].attempts \in Nat
    BY <1>1 DEF ClaimsInv, HoldsWell, WellHeld, TypeOK, Row
  <2>2. row'[j].attempts # row[j].attempts + 1
    BY <1>1, <2>1
  <2>3. row[j].status = "running" /\ row'[j].attempts = row[j].attempts
    BY <1>1, <2>1, <2>2, StillRunning
  <2> QED  BY <1>1, <2>3 DEF SeenRunning
<1>2. CASE /\ worker'[w].job = worker[w].job
           /\ worker'[w].seen = row[worker[w].job] /\ row' = row
  BY <1>2
<1> QED  BY <1>1, <1>2, ReadOrThere

\* Without a kill and a failed call, the worker of a row that stays "running" stays.
LEMMA RunnerStays ==
    ASSUME ClaimsInv, CrewGone, SeenRunning, [Next]_vars, crashes' = 0, errors' = 0,
           NEW w \in Worker, NEW j \in Job, Holds(w, j),
           worker[w].attempt = row[j].attempts,
           row[j].status = "running", row'[j].status = "running"
    PROVE  Holds(w, j)' /\ worker'[w].attempt = worker[w].attempt
<1> USE DEF faults, At, Holds
<1>0. /\ TypeOK
      /\ worker[w] \in Hold /\ WellHeld(worker[w], row)
      /\ worker[w].pc \notin {"off", "poll", "locked"}
  BY NumJobsAssumption DEF ClaimsInv, HoldsWell, TypeOK, WellHeld, Job, NoJob
<1>1. CASE worker'[w] = worker[w]
  BY <1>1
<1>2. CASE CompleteWrite(w) \/ FailWrite(w)
  <2> DEFINE seen == worker[w].seen
  <2>1. worker[w].pc \in {"completing", "failing"} /\ seen \in Row
    BY <1>0, <1>2 DEF CompleteWrite, FailWrite, WriteRow, Hold
  <2>2. seen.status = "running"
    BY <2>1 DEF SeenRunning
  <2>3. PICK n \in {Completed(seen), Failed(seen)} : row'[j] = Flush(row[j], seen, n)
    BY <1>0, <1>2 DEF CompleteWrite, FailWrite, WriteRow, TypeOK
  <2>4. row[j] \in Row
    BY <1>0 DEF TypeOK
  <2> QED  BY <2>1, <2>2, <2>3, <2>4, FlushedStatus
<1>3. CASE HandlerReturns(w) \/ HandlerRaises(w) \/ CompleteRead(w) \/ FailRead(w)
  <2>1. PICK pc \in {"complete", "fail", "completing", "failing"}, seen \in Row :
           worker' = [worker EXCEPT ![w] = [worker[w] EXCEPT !.pc = pc, !.seen = seen]]
    BY <1>0, <1>3, RowTypes
    DEF HandlerReturns, HandlerRaises, CompleteRead, FailRead, LoadRow, Goto, TypeOK
  <2> QED  BY <1>0, <2>1 DEF Hold, TypeOK
<1>4. ASSUME NEW v \in Worker, WorkerStep(v) \/ WorkerError(v), v # w
      PROVE  worker'[w] = worker[w]
  BY <1>0, <1>4 DEF WorkerStep, WorkerError, ClaimSelect, ClaimNothing, ClaimCommit,
     UpdateProgress, HandlerReturns, HandlerRaises, CompleteRead, CompleteWrite,
     FailRead, FailWrite, LoadRow, WriteRow, LoopEnds, ClaimError, CompleteError,
     FailError, vars, Goto, Leave, TypeOK
<1>5. CASE WorkerStep(w)
  <2>1. UpdateProgress(w) => worker'[w] = worker[w]
    BY DEF UpdateProgress
  <2> QED
    BY <1>0, <1>1, <1>2, <1>3, <1>5, <2>1
    DEF WorkerStep, ClaimSelect, ClaimNothing, ClaimCommit, LoopEnds
<1>6. CASE WorkerError(w)
  BY <1>0, <1>6 DEF WorkerError, ClaimError, CompleteError, FailError, TypeOK
<1>7. ASSUME NEW p \in Proc, ProcStep(p) PROVE worker'[w] = worker[w]
  <2>1. CASE Recover(p)
    BY <1>0, <2>1 DEF Recover, CrewGone, Crew
  <2>2. CASE Crash(p)
    BY <1>0, <2>2 DEF Crash, TypeOK
  <2>3. CASE Start(p) \/ Signal(p) \/ Exit(p)
    BY <2>3 DEF Start, Signal, Exit
  <2> QED  BY <1>7, <2>1, <2>2, <2>3 DEF ProcStep
<1>8. ASSUME (\E i \in Job : CreateJob(i)) \/ Tick \/ UNCHANGED vars PROVE worker'[w] = worker[w]
  BY <1>8 DEF CreateJob, Tick, vars
<1> QED  BY <1>1, <1>4, <1>5, <1>6, <1>7, <1>8 DEF Next

\* The counts of kills and failures never go down.
LEMMA FaultsGrow ==
    ASSUME TypeOK, [Next]_vars
    PROVE  crashes' >= crashes /\ errors' >= errors
<1> USE DEF TypeOK, faults
<1>1. \A w \in Worker : WorkerStep(w) => crashes' = crashes /\ errors' = errors
  BY DEF WorkerStep, ClaimSelect, ClaimNothing, ClaimCommit, UpdateProgress, HandlerReturns,
         HandlerRaises, CompleteRead, CompleteWrite, FailRead, FailWrite, LoadRow, WriteRow,
         LoopEnds, vars
<1>2. \A w \in Worker : WorkerError(w) => crashes' = crashes /\ errors' = errors + 1
  BY DEF WorkerError, ClaimError, CompleteError, FailError
<1>3. \A p \in Proc : ProcStep(p) => crashes' \in {crashes, crashes + 1} /\ errors' = errors
  BY DEF ProcStep, Start, Recover, Signal, Exit, Crash
<1>4. (\E j \in Job : CreateJob(j)) \/ Tick \/ UNCHANGED vars
         => crashes' = crashes /\ errors' = errors
  BY DEF CreateJob, Tick, vars
<1> QED  BY <1>1, <1>2, <1>3, <1>4 DEF Next

\* Without a kill and a failed database call, a row that says "running" always has a
\* worker that holds its latest attempt: no SIGTERM and no restart leaves it behind.
THEOREM RunningHasRunner == Spec => []RunningHasARunner
<1> DEFINE Inv == ClaimsInv /\ CrewGone /\ SeenRunning /\ RunningHasARunner
<1>1. Init => Inv
  BY ClaimsInit
  DEF Init, CrewGone, At, Idle, SeenRunning, RunningHasARunner, NoRow
<1>2. Inv /\ [Next]_vars => Inv'
  <2> SUFFICES ASSUME Inv, [Next]_vars PROVE Inv'
    OBVIOUS
  <2>1. ClaimsInv' /\ CrewGone' /\ SeenRunning'
    BY ClaimsNext, CrewStep, SeenRunningStep DEF ClaimsInv
  <2>2. RunningHasARunner'
    <3> SUFFICES ASSUME crashes' = 0, errors' = 0,
                        NEW j \in Job, row'[j].status = "running"
                 PROVE  \E w \in Worker : Holds(w, j)' /\ worker'[w].attempt = row'[j].attempts
      BY DEF RunningHasARunner, Holds
    <3>1. crashes = 0 /\ errors = 0
      BY FaultsGrow DEF ClaimsInv, TypeOK
    <3>2. CASE row[j].status = "running" /\ row'[j].attempts = row[j].attempts
      <4>1. PICK w \in Worker : Holds(w, j) /\ worker[w].attempt = row[j].attempts
        BY <3>1, <3>2 DEF RunningHasARunner
      <4> QED  BY <3>2, <4>1, RunnerStays
    <3> QED  BY <3>2, StillRunning
  <2> QED  BY <2>1, <2>2
<1>3. Inv => RunningHasARunner
  OBVIOUS
<1> QED  BY <1>1, <1>2, <1>3, PTL DEF Spec

-----------------------------------------------------------------------------
(* Retries are bounded                                                     *)

\* What complete_job or fail_job read is still in the row when they write, if no recovery
\* gave the job to somebody else.
SeenIsRow ==
    \A w \in Worker :
        worker[w].pc \in {"completing", "failing"} /\ worker[w].job \notin overrun =>
            /\ worker[w].seen.status = row[worker[w].job].status
            /\ worker[w].seen.attempts = row[worker[w].job].attempts

\* A job may still be claimed once more without a fault, unless it has ended or is run.
WellCounted(j) ==
    \/ row[j].attempts < MaxAttempts + crashes + errors
    \/ /\ row[j].attempts = MaxAttempts + crashes + errors
       /\ row[j].status \in Ended \/ \E w \in Worker : Holds(w, j)

CountInv == SeenIsRow /\ \A j \in Job \ overrun : WellCounted(j)

\* Recovery is the only step that adds to the history.
LEMMA OverrunGrows ==
    ASSUME [Next]_vars
    PROVE  overrun \subseteq overrun'
BY DEF Next, vars, WorkerStep, WorkerError, ProcStep, ClaimSelect, ClaimNothing, ClaimCommit,
       UpdateProgress, CreateJob, CompleteWrite, FailWrite, WriteRow, HandlerReturns,
       HandlerRaises, CompleteRead, FailRead, LoadRow, LoopEnds, ClaimError, CompleteError,
       FailError, Start, Recover, Signal, Exit, Crash, Tick

\* While a worker is between its SELECT and its commit, nobody else changes the status or the
\* attempts of its row.
LEMMA HeldRowKept ==
    ASSUME ClaimsInv, RunInv, [Next]_vars, NEW w \in Worker,
           worker[w].pc \in {"completing", "failing"}, worker'[w] = worker[w],
           NEW j \in Job \ overrun', j = worker[w].job
    PROVE  row'[j].status = row[j].status /\ row'[j].attempts = row[j].attempts
<1> DEFINE Kept == row'[j].status = row[j].status /\ row'[j].attempts = row[j].attempts
<1> USE DEF faults, At
<1>0. /\ TypeOK /\ row[j] \in Row
      /\ \A v \in Worker : worker[v] \in Hold
      /\ \A v \in Worker : worker[v].job = j => v = w
      /\ row[j].status \notin {"absent", "pending"}
      /\ Holds(w, j)
  BY OverrunGrows DEF ClaimsInv, TypeOK, RunInv, RunsAlone, Holds
<1>1. ASSUME NEW i \in Job, CreateJob(i) PROVE Kept
  BY <1>0, <1>1 DEF CreateJob, TypeOK
<1>2. ASSUME NEW v \in Worker, ClaimCommit(v) \/ ClaimError(v) PROVE Kept
  <2>1. worker[v].job # j
    BY <1>0, <1>2 DEF ClaimCommit, ClaimError
  <2> QED  BY <1>0, <1>2, <2>1 DEF ClaimCommit, ClaimError, TypeOK
<1>3. ASSUME NEW v \in Worker, UpdateProgress(v) PROVE Kept
  BY <1>0, <1>3 DEF UpdateProgress, TypeOK, Row
<1>4. ASSUME NEW v \in Worker,
             CompleteWrite(v) \/ FailWrite(v) \/ CompleteError(v) \/ FailError(v)
      PROVE  Kept
  <2>1. v # w
    <3>1. ASSUME v = w, NEW pc \in {"poll"}, Leave(w, pc) PROVE FALSE
      BY <1>0, <3>1 DEF Leave, Idle, TypeOK
    <3>2. ASSUME v = w, Goto(w, "fail", NoRow) PROVE FALSE
      <4>1. worker'[w] = [worker[w] EXCEPT !.pc = "fail", !.seen = NoRow]
        BY <1>0, <3>2 DEF Goto, TypeOK
      <4> QED  BY <1>0, <4>1 DEF Hold
    <3> QED
      BY <1>4, <3>1, <3>2 DEF CompleteWrite, FailWrite, WriteRow, CompleteError, FailError
  <2>2. worker[v].job # j
    BY <1>0, <2>1
  <2>3. row' = row \/ \E r : row' = [row EXCEPT ![worker[v].job] = r]
    BY <1>4 DEF CompleteWrite, FailWrite, WriteRow, CompleteError, FailError
  <2> QED  BY <1>0, <2>2, <2>3 DEF TypeOK
<1>5. ASSUME NEW p \in Proc, Recover(p) PROVE Kept
  <2>1. ~Stale(j)
    BY <1>0, <1>5 DEF Recover
  <2> QED  BY <1>5, <2>1 DEF Recover
<1>6. ASSUME row' = row PROVE Kept
  BY <1>6
<1>7. \/ \E i \in Job : CreateJob(i)
      \/ \E v \in Worker : ClaimCommit(v) \/ ClaimError(v) \/ UpdateProgress(v)
      \/ \E v \in Worker : CompleteWrite(v) \/ FailWrite(v) \/ CompleteError(v) \/ FailError(v)
      \/ \E p \in Proc : Recover(p)
      \/ row' = row
  BY DEF Next, vars, WorkerStep, WorkerError, ProcStep, ClaimSelect, ClaimNothing,
         HandlerReturns, HandlerRaises, CompleteRead, FailRead, LoadRow, LoopEnds,
         Start, Signal, Exit, Crash, Tick
<1> QED  BY <1>1, <1>2, <1>3, <1>4, <1>5, <1>6, <1>7

\* So what was read stays what is there until it is overwritten.
LEMMA SeenIsRowStep == ClaimsInv /\ RunInv /\ SeenIsRow /\ [Next]_vars => SeenIsRow'
<1> SUFFICES ASSUME ClaimsInv, RunInv, SeenIsRow, [Next]_vars, NEW w \in Worker,
                    worker'[w].pc \in {"completing", "failing"}, worker'[w].job \notin overrun'
             PROVE  /\ worker'[w].seen.status = row'[worker'[w].job].status
                    /\ worker'[w].seen.attempts = row'[worker'[w].job].attempts
  BY DEF SeenIsRow
<1>1. CASE worker'[w] = worker[w]
  <2>1. worker[w].job \in Job
    BY <1>1 DEF ClaimsInv, HoldsWell, WellHeld
  <2> QED  BY <1>1, <2>1, HeldRowKept, OverrunGrows DEF SeenIsRow
<1>2. CASE /\ worker'[w].job = worker[w].job
           /\ worker'[w].seen = row[worker[w].job] /\ row' = row
  BY <1>2
<1> QED  BY <1>1, <1>2, ReadOrThere

\* Between faults a job is claimed only while it has an attempt left.
LEMMA CountStep ==
    ASSUME ClaimsInv, RunInv, CrewGone, CountInv, [Next]_vars,
           NEW j \in Job \ overrun'
    PROVE  WellCounted(j)'
<1> DEFINE F == crashes + errors
           Kept == \A w \in Worker : Holds(w, j) => Holds(w, j)'
<1> USE DEF faults, At
<1>0. /\ TypeOK /\ row[j] \in Row /\ WellCounted(j) /\ RunsAlone(j) /\ j \in Job \ overrun
      /\ MaxAttempts \in Nat /\ crashes \in Nat /\ errors \in Nat
      /\ crashes' \in Nat /\ errors' \in Nat
      /\ row[j].attempts \in Nat /\ row'[j].attempts \in Nat
      /\ \A w \in Worker : worker[w] \in Hold /\ WellHeld(worker[w], row)
  BY OverrunGrows, ClaimsNext, AttemptsAssumption
  DEF ClaimsInv, CountInv, RunInv, HoldsWell, TypeOK, Row
<1>n. /\ MaxAttempts \in Nat /\ crashes \in Nat /\ errors \in Nat /\ row[j].attempts \in Nat
      /\ row[j].attempts <= MaxAttempts + crashes + errors
  BY <1>0 DEF WellCounted
<1>p. PICK d \in Nat, f \in Nat, a \in Nat :
         d = crashes' /\ f = errors' /\ a = row'[j].attempts
  BY <1>0
<1>q. /\ a < MaxAttempts + d + f => WellCounted(j)'
      /\ a = MaxAttempts + d + f /\ (row'[j].status \in Ended \/ \E w \in Worker : Holds(w, j)') =>
           WellCounted(j)'
  BY <1>p DEF WellCounted
<1>1. ASSUME F' = F, row'[j].attempts = row[j].attempts, Kept,
             row[j].status \in Ended => row'[j].status \in Ended
      PROVE  WellCounted(j)'
  <2>1. d + f = crashes + errors /\ a = row[j].attempts
    BY <1>p, <1>1
  <2>2. CASE row[j].attempts < MaxAttempts + crashes + errors
    <3>1. a < MaxAttempts + d + f
      BY <1>n, <2>1, <2>2
    <3> QED  BY <1>q, <3>1
  <2>3. CASE /\ row[j].attempts = MaxAttempts + crashes + errors
             /\ row[j].status \in Ended \/ \E w \in Worker : Holds(w, j)
    <3>1. a = MaxAttempts + d + f
      BY <1>n, <2>1, <2>3
    <3>2. row'[j].status \in Ended \/ \E w \in Worker : Holds(w, j)'
      BY <1>1, <2>3
    <3> QED  BY <1>q, <3>1, <3>2
  <2> QED  BY <1>0, <2>2, <2>3 DEF WellCounted
<1>2. ASSUME F' = F + 1,
             row'[j].attempts \in {row[j].attempts, row[j].attempts + 1},
             row'[j].attempts = row[j].attempts + 1 => row[j].attempts < MaxAttempts + F
      PROVE  WellCounted(j)'
  <2>1. d + f = crashes + errors + 1
    BY <1>p, <1>2
  <2>2. \/ a = row[j].attempts
        \/ a = row[j].attempts + 1 /\ row[j].attempts < MaxAttempts + (crashes + errors)
    BY <1>p, <1>2
  <2>3. a < MaxAttempts + d + f
    BY <1>n, <2>1, <2>2
  <2> QED  BY <1>q, <2>3
<1>3. ASSUME F' = F, row'[j].attempts = row[j].attempts,
             row'[j].status \in Ended \/ row[j].attempts < MaxAttempts
      PROVE  WellCounted(j)'
  <2>1. d + f = crashes + errors /\ a = row[j].attempts
    BY <1>p, <1>3
  <2>2. CASE row[j].attempts < MaxAttempts + crashes + errors
    <3>1. a < MaxAttempts + d + f
      BY <1>n, <2>1, <2>2
    <3> QED  BY <1>q, <3>1
  <2>3. CASE row[j].attempts = MaxAttempts + crashes + errors
    <3>1. a = MaxAttempts + d + f /\ ~(row[j].attempts < MaxAttempts)
      BY <1>n, <2>1, <2>3
    <3> QED  BY <1>3, <1>q, <3>1
  <2> QED  BY <1>n, <2>2, <2>3
<1>4. ASSUME NEW w \in Worker, At(w, "locked"), worker[w].job = j
      PROVE  row[j].attempts < MaxAttempts + F
  BY <1>0, <1>4 DEF WellCounted, RunInv, LockedIsPending, RunsAlone, Holds, Ended, TypeOK
<1>5. ASSUME NEW i \in Job, CreateJob(i) PROVE WellCounted(j)'
  <2>1. /\ row'[j].attempts = row[j].attempts
        /\ row[j].status \in Ended => row'[j].status \in Ended
    BY <1>0, <1>5 DEF CreateJob, TypeOK, Row, Ended
  <2> QED  BY <1>1, <1>5, <2>1 DEF CreateJob, Holds
<1>6. ASSUME NEW w \in Worker,
             \/ \E i \in Job : ClaimSelect(w, i)
             \/ ClaimNothing(w) \/ LoopEnds(w) \/ HandlerReturns(w) \/ HandlerRaises(w)
             \/ CompleteRead(w) \/ FailRead(w)
      PROVE  WellCounted(j)'
  <2>1. row' = row /\ F' = F
    BY <1>6 DEF ClaimSelect, ClaimNothing, LoopEnds, HandlerReturns, HandlerRaises,
                CompleteRead, FailRead, LoadRow, vars
  <2>2. ASSUME NEW v \in Worker, v # w PROVE worker'[v] = worker[v]
    BY <1>0, <1>6, <2>2 DEF ClaimSelect, ClaimNothing, LoopEnds, HandlerReturns, HandlerRaises,
                CompleteRead, FailRead, LoadRow, vars, Goto, Leave, TypeOK
  <2>3. Holds(w, j) => Holds(w, j)'
    <3>1. CASE worker[w].pc = "poll"
      BY <1>0, <3>1, NumJobsAssumption DEF WellHeld, Holds, Job, NoJob
    <3>2. CASE HandlerReturns(w) \/ HandlerRaises(w) \/ CompleteRead(w) \/ FailRead(w)
      <4>1. PICK pc \in {"complete", "fail", "completing", "failing"}, seen \in Row :
               worker' = [worker EXCEPT ![w] = [worker[w] EXCEPT !.pc = pc, !.seen = seen]]
        <5>1. worker[w].pc \notin {"off", "poll"} => row[worker[w].job] \in Row
          BY <1>0 DEF WellHeld, TypeOK
        <5> QED
          BY <3>2, <5>1, RowTypes
          DEF HandlerReturns, HandlerRaises, CompleteRead, FailRead, LoadRow, Goto
      <4> QED  BY <1>0, <4>1 DEF Hold, Holds, TypeOK
    <3> QED  BY <1>6, <3>1, <3>2 DEF ClaimSelect, ClaimNothing, LoopEnds
  <2> QED  BY <1>1, <2>1, <2>2, <2>3 DEF Holds
<1>7. ASSUME NEW w \in Worker, ClaimCommit(w) PROVE WellCounted(j)'
  <2>1. CASE worker[w].job = j
    <3>1. row'[j].attempts = row[j].attempts + 1 /\ F' = F
      BY <1>0, <1>7, <2>1 DEF ClaimCommit, Claimed, TypeOK
    <3>2. Holds(w, j)'
      BY <1>0, <1>7, <2>1 DEF ClaimCommit, Holds, TypeOK
    <3> QED  BY <1>0, <1>4, <1>7, <2>1, <3>1, <3>2 DEF ClaimCommit, WellCounted, Row
  <2>2. CASE worker[w].job # j
    <3>1. row'[j] = row[j] /\ F' = F
      BY <1>0, <1>7, <2>2 DEF ClaimCommit, TypeOK
    <3>2. Kept
      BY <1>0, <1>7, <2>2 DEF ClaimCommit, Holds, TypeOK
    <3> QED  BY <1>1, <3>1, <3>2
  <2> QED  BY <2>1, <2>2
<1>8. ASSUME NEW w \in Worker, ClaimError(w) PROVE WellCounted(j)'
  <2>1. F' = F + 1
    BY <1>0, <1>8 DEF ClaimError
  <2>2. row'[j] = row[j] \/ (worker[w].job = j /\ row'[j].attempts = row[j].attempts + 1)
    BY <1>0, <1>8 DEF ClaimError, Claimed, TypeOK
  <2> QED  BY <1>0, <1>2, <1>4, <1>8, <2>1, <2>2 DEF ClaimError, Row
<1>9. ASSUME NEW w \in Worker, UpdateProgress(w) PROVE WellCounted(j)'
  <2>1. row'[j].attempts = row[j].attempts /\ row'[j].status = row[j].status
    BY <1>0, <1>9 DEF UpdateProgress, TypeOK, Row
  <2> QED  BY <1>1, <1>9, <2>1 DEF UpdateProgress, Holds
<1>10. ASSUME NEW w \in Worker, CompleteWrite(w) \/ FailWrite(w) PROVE WellCounted(j)'
  <2> DEFINE seen == worker[w].seen
  <2>1. PICK n \in {Completed(seen), Failed(seen)} :
           /\ row' = [row EXCEPT ![worker[w].job] = Flush(@, seen, n)]
           /\ n = Completed(seen) \/ n = Failed(seen)
    BY <1>10 DEF CompleteWrite, FailWrite, WriteRow
  <2>2. F' = F /\ worker' = [worker EXCEPT ![w] = Idle("poll")]
    BY <1>10 DEF CompleteWrite, FailWrite, WriteRow, Leave
  <2>3. CASE worker[w].job = j
    <3>1. seen \in Row /\ seen.status = row[j].status /\ seen.attempts = row[j].attempts
      BY <1>0, <1>10, <2>3 DEF CompleteWrite, FailWrite, WriteRow, CountInv, SeenIsRow, Hold
    <3>2. row'[j] = Flush(row[j], seen, n)
      BY <1>0, <2>1, <2>3 DEF TypeOK
    <3>3. row'[j].attempts = row[j].attempts /\ row'[j].status = n.status
      BY <1>0, <3>1, <3>2, FlushedStatus
    <3>4. n.status \in Ended \/ row[j].attempts < MaxAttempts
      BY <1>0, <2>1, <3>1 DEF Completed, Failed, Ended, Row
    <3> QED  BY <1>3, <2>2, <3>3, <3>4
  <2>4. CASE worker[w].job # j
    <3>1. row'[j] = row[j]
      BY <1>0, <2>1, <2>4 DEF TypeOK
    <3>2. Kept
      BY <1>0, <2>2, <2>4 DEF Holds, TypeOK
    <3> QED  BY <1>1, <2>2, <3>1, <3>2
  <2> QED  BY <2>3, <2>4
<1>11. ASSUME NEW w \in Worker, CompleteError(w) \/ FailError(w) PROVE WellCounted(j)'
  <2>1. F' = F + 1
    BY <1>0, <1>11 DEF CompleteError, FailError
  <2>2. row'[j].attempts = row[j].attempts
    <3>1. CASE row' = row
      BY <3>1
    <3>2. CASE row' # row
      <4>1. PICK n \in {Completed(worker[w].seen), Failed(worker[w].seen)} :
               row' = [row EXCEPT ![worker[w].job] = Flush(@, worker[w].seen, n)]
        BY <1>11, <3>2 DEF CompleteError, FailError
      <4> QED  BY <1>0, <4>1, FlushedStatus DEF TypeOK, Hold
    <3> QED  BY <3>1, <3>2
  <2> QED  BY <1>2, <2>1, <2>2, <1>0
<1>12. ASSUME NEW p \in Proc, Recover(p) PROVE WellCounted(j)'
  <2>1. Kept
    <3>1. \A w \in Crew(p) : worker[w].pc = "off"
      BY <1>12 DEF Recover, CrewGone, Crew
    <3>2. \A w \in Worker : w \in Crew(p) \/ worker'[w] = worker[w]
      BY <1>12 DEF Recover
    <3> QED  BY <1>0, <3>1, <3>2, NumJobsAssumption DEF WellHeld, Holds, Job, NoJob
  <2>2. row'[j].attempts = row[j].attempts /\ F' = F
    BY <1>0, <1>12 DEF Recover, Row
  <2>3. row[j].status \in Ended => row'[j].status \in Ended
    BY <1>0, <1>12 DEF Recover, Stale, Ended
  <2> QED  BY <1>1, <2>1, <2>2, <2>3
<1>13. ASSUME NEW p \in Proc, Crash(p) PROVE WellCounted(j)'
  BY <1>0, <1>2, <1>13 DEF Crash
<1>14. ASSUME (\E p \in Proc : Start(p) \/ Signal(p) \/ Exit(p)) \/ Tick \/ UNCHANGED vars
       PROVE  WellCounted(j)'
  <2>1. row' = row /\ worker' = worker /\ F' = F
    BY <1>14 DEF Start, Signal, Exit, Tick, vars
  <2> QED  BY <1>1, <2>1 DEF Holds
<1> QED
  BY <1>5, <1>6, <1>7, <1>8, <1>9, <1>10, <1>11, <1>12, <1>13, <1>14
  DEF Next, WorkerStep, WorkerError, ProcStep

\* A job that was never taken from under a worker gets max_attempts attempts, and at most one
\* more for each kill and each failed database call.
THEOREM RetriesBounded == Spec => []RetriesAreBounded
<1> DEFINE Inv == ClaimsInv /\ RunInv /\ CrewGone /\ CountInv
<1>1. Init => Inv
  BY ClaimsInit, RunInit, AttemptsAssumption
  DEF Init, CrewGone, At, Idle, CountInv, SeenIsRow, WellCounted, NoRow, Job
<1>2. Inv /\ [Next]_vars => Inv'
  <2> SUFFICES ASSUME Inv, [Next]_vars PROVE Inv'
    OBVIOUS
  <2>1. ClaimsInv' /\ RunInv' /\ CrewGone'
    BY ClaimsNext, RunNext, CrewStep DEF ClaimsInv
  <2>2. SeenIsRow'
    BY SeenIsRowStep DEF CountInv
  <2>3. \A j \in Job \ overrun' : WellCounted(j)'
    BY CountStep
  <2> QED  BY <2>1, <2>2, <2>3 DEF CountInv
<1>3. Inv => RetriesAreBounded
  BY AttemptsAssumption
  DEF CountInv, WellCounted, RetriesAreBounded, ClaimsInv, TypeOK, Row
<1> QED  BY <1>1, <1>2, <1>3, PTL DEF Spec

-----------------------------------------------------------------------------
(* The queue keeps its promise                                             *)

\* What the mapping makes of one row.
StageOf(s) == CASE s = "pending" -> "waiting"
                [] s = "running" -> "taken"
                [] s \in Ended -> "ended"
                [] OTHER -> "absent"

\* The mapped variables, one job at a time, before and after a step.
LEMMA StageIs ==
    /\ \A j \in Job : Stage[j] = StageOf(row[j].status)
    /\ \A j \in Job : Stage'[j] = StageOf(row'[j].status)
    /\ Stage = [j \in Job |-> Stage[j]]
    /\ Stage' = [j \in Job |-> Stage'[j]]
BY DEF Stage, StageOf

LEMMA HoldersAre ==
    /\ \A j \in Job : Holders[j] = {w \in Worker : Holds(w, j)}
    /\ \A j \in Job : Holders'[j] = {w \in Worker : Holds(w, j)'}
    /\ Holders = [j \in Job |-> Holders[j]]
    /\ Holders' = [j \in Job |-> Holders'[j]]
BY DEF Holders, Holds

LEMMA StageValues ==
    /\ StageOf("absent") = "absent" /\ StageOf("pending") = "waiting"
    /\ StageOf("running") = "taken"
    /\ StageOf("completed") = "ended" /\ StageOf("failed") = "ended"
BY DEF StageOf, Ended

\* A step of the mapped variables is a step of the promise.
LEMMA PromiseStutters ==
    ASSUME Stage' = Stage, Holders' = Holders
    PROVE  [Promised!Next]_(Promised!vars)
BY DEF Promised!vars

LEMMA PromiseSubmit ==
    ASSUME NEW j \in Job, Stage[j] = "absent", Holders' = Holders,
           Stage' = [Stage EXCEPT ![j] = "waiting"]
    PROVE  [Promised!Next]_(Promised!vars)
BY DEF Promised!Next, Promised!Submit

LEMMA PromiseTake ==
    ASSUME NEW w \in Worker, NEW j \in Job, Stage[j] = "waiting", Holders[j] = {},
           \A i \in Job : w \notin Holders[i],
           Stage' = [Stage EXCEPT ![j] = "taken"], Holders' = [Holders EXCEPT ![j] = {w}]
    PROVE  [Promised!Next]_(Promised!vars)
BY DEF Promised!Next, Promised!Take

LEMMA PromiseRelease ==
    ASSUME NEW w \in Worker, NEW j \in Job, Stage[j] = "taken", Holders[j] = {w},
           NEW s \in {"ended", "waiting"},
           Stage' = [Stage EXCEPT ![j] = s], Holders' = [Holders EXCEPT ![j] = {}]
    PROVE  [Promised!Next]_(Promised!vars)
BY DEF Promised!Next, Promised!Release

LEMMA PromiseLose ==
    ASSUME NEW gone \in SUBSET Worker, Stage' = Stage,
           Holders' = [j \in Job |-> Holders[j] \ gone]
    PROVE  [Promised!Next]_(Promised!vars)
BY DEF Promised!Next, Promised!Lose

LEMMA PromiseReclaim ==
    ASSUME NEW lost \in SUBSET Job, \A j \in lost : Stage[j] = "taken" /\ Holders[j] = {},
           Stage' = [j \in Job |-> IF j \in lost THEN "waiting" ELSE Stage[j]],
           Holders' = Holders
    PROVE  [Promised!Next]_(Promised!vars)
BY DEF Promised!Next, Promised!Reclaim

\* Steps that change no status, or nobody's hold on a job.
LEMMA SameStage ==
    ASSUME \A j \in Job : row'[j].status = row[j].status
    PROVE  Stage' = Stage
BY StageIs

LEMMA SameHolders ==
    ASSUME \A w \in Worker, j \in Job : Holds(w, j)' <=> Holds(w, j)
    PROVE  Holders' = Holders
BY HoldersAre

\* A worker outside a run holds no job.
LEMMA IdleHoldsNothing ==
    ASSUME ClaimsInv, NEW w \in Worker, worker[w].pc \in {"off", "poll", "locked"}
    PROVE  \A j \in Job : ~Holds(w, j)
BY NumJobsAssumption DEF ClaimsInv, HoldsWell, WellHeld, Holds, Job, NoJob

\* What one worker does is a step of the promise.
LEMMA WorkerKeepsPromise ==
    ASSUME ClaimsInv, RunInv, SeenIsRow, overrun = {}, errors = 0,
           NEW w \in Worker, WorkerStep(w)
    PROVE  [Promised!Next]_(Promised!vars)
<1> USE DEF faults, At
<1>0. /\ TypeOK
      /\ \A v \in Worker : worker[v] \in Hold /\ WellHeld(worker[v], row)
      /\ \A j \in Job : RunsAlone(j)
  BY DEF ClaimsInv, HoldsWell, TypeOK, RunInv
<1>1. ASSUME NEW j \in Job, ClaimSelect(w, j) PROVE Stage' = Stage /\ Holders' = Holders
  <2>1. row' = row /\ worker' = [worker EXCEPT ![w] = [Idle("locked") EXCEPT !.job = j]]
    BY <1>1 DEF ClaimSelect
  <2>2. ASSUME NEW v \in Worker, NEW i \in Job PROVE Holds(v, i)' <=> Holds(v, i)
    <3>1. CASE v = w
      BY <1>0, <1>1, <2>1, <3>1, IdleHoldsNothing DEF ClaimSelect, Holds, Idle, TypeOK
    <3>2. CASE v # w
      BY <1>0, <2>1, <3>2 DEF Holds, TypeOK
    <3> QED  BY <3>1, <3>2
  <2> QED  BY <2>1, <2>2, SameStage, SameHolders
<1>2. ASSUME ClaimNothing(w) \/ UpdateProgress(w) PROVE Stage' = Stage /\ Holders' = Holders
  <2>1. worker' = worker /\ \A j \in Job : row'[j].status = row[j].status
    BY <1>0, <1>2 DEF ClaimNothing, UpdateProgress, vars, TypeOK, Row
  <2> QED  BY <2>1, SameStage, SameHolders DEF Holds
<1>3. ASSUME ClaimCommit(w) PROVE [Promised!Next]_(Promised!vars)
  <2>0. PICK j \in Job : j = worker[w].job
    BY <1>0, <1>3 DEF ClaimCommit, WellHeld
  <2>1. /\ row[j].status = "pending"
        /\ \A v \in Worker : ~Holds(v, j)
        /\ \A i \in Job : ~Holds(w, i)
    BY <1>0, <1>3, <2>0, IdleHoldsNothing
    DEF ClaimCommit, WellHeld, RunInv, LockedIsPending, RunsAlone, Holds
  <2>2. /\ row'[j].status = "running"
        /\ \A i \in Job : i # j => row'[i] = row[i]
    BY <1>0, <1>3, <2>0 DEF ClaimCommit, Claimed, TypeOK
  <2>3. /\ \A v \in Worker, i \in Job : v # w => (Holds(v, i)' <=> Holds(v, i))
        /\ Holds(w, j)' /\ \A i \in Job : i # j => ~Holds(w, i)'
    BY <1>0, <1>3, <2>0 DEF ClaimCommit, Holds, TypeOK
  <2>4. Stage' = [Stage EXCEPT ![j] = "taken"]
    BY <2>1, <2>2, StageIs, StageValues
  <2>5. Holders' = [Holders EXCEPT ![j] = {w}]
    <3>1. ASSUME NEW i \in Job, i # j PROVE Holders'[i] = Holders[i]
      <4>1. \A v \in Worker : Holds(v, i)' <=> Holds(v, i)
        BY <2>1, <2>3, <3>1
      <4> QED  BY <4>1, HoldersAre
    <3>2. Holders'[j] = {w}
      <4>1. \A v \in Worker : Holds(v, j)' <=> v = w
        BY <2>1, <2>3
      <4> QED  BY <2>1, <4>1, HoldersAre
    <3> QED  BY <3>1, <3>2, <2>1, HoldersAre
  <2>6. Stage[j] = "waiting" /\ Holders[j] = {} /\ \A i \in Job : w \notin Holders[i]
    BY <2>1, StageIs, StageValues, HoldersAre
  <2> QED  BY <2>1, <2>4, <2>5, <2>6, PromiseTake
<1>4. ASSUME HandlerReturns(w) \/ HandlerRaises(w) \/ CompleteRead(w) \/ FailRead(w)
      PROVE  Stage' = Stage /\ Holders' = Holders
  <2>1. PICK pc \in {"complete", "fail", "completing", "failing"}, seen \in Row :
           worker' = [worker EXCEPT ![w] = [worker[w] EXCEPT !.pc = pc, !.seen = seen]]
    <3>1. worker[w].pc \notin {"off", "poll"} => row[worker[w].job] \in Row
      BY <1>0 DEF WellHeld, TypeOK
    <3> QED
      BY <1>4, <3>1, RowTypes
      DEF HandlerReturns, HandlerRaises, CompleteRead, FailRead, LoadRow, Goto
  <2>2. worker[w].pc # "locked" /\ row' = row
    BY <1>4 DEF HandlerReturns, HandlerRaises, CompleteRead, FailRead, LoadRow
  <2>3. \A v \in Worker, i \in Job : Holds(v, i)' <=> Holds(v, i)
    BY <1>0, <2>1, <2>2 DEF Holds, Hold, TypeOK
  <2> QED  BY <2>2, <2>3, SameStage, SameHolders
<1>5. ASSUME CompleteWrite(w) \/ FailWrite(w) PROVE [Promised!Next]_(Promised!vars)
  <2> DEFINE j == worker[w].job
             seen == worker[w].seen
  <2>1. PICK n \in {Completed(seen), Failed(seen)} :
           row' = [row EXCEPT ![j] = Flush(@, seen, n)]
    BY <1>5 DEF CompleteWrite, FailWrite, WriteRow
  <2>2. /\ worker[w].pc \in {"completing", "failing"}
        /\ worker' = [worker EXCEPT ![w] = Idle("poll")]
    BY <1>5 DEF CompleteWrite, FailWrite, WriteRow, Leave
  <2>3. /\ j \in Job /\ Holds(w, j) /\ seen \in Row /\ row[j] \in Row
        /\ row[j].status = "running" /\ seen.status = "running"
        /\ \A v \in Worker : Holds(v, j) => v = w
    <3>1. j \in Job /\ Holds(w, j) /\ seen \in Row /\ row[j] \in Row
      BY <1>0, <2>2 DEF WellHeld, Holds, Hold, TypeOK
    <3>2. row[j].status = "running" /\ \A v \in Worker : Holds(v, j) => v = w
      BY <1>0, <3>1 DEF RunsAlone, Holds
    <3>3. seen.status = row[j].status
      BY <2>2 DEF SeenIsRow
    <3> QED  BY <3>1, <3>2, <3>3
  <2>4. /\ row'[j].status = n.status /\ n.status \in {"completed", "pending", "failed"}
        /\ \A i \in Job : i # j => row'[i] = row[i]
    <3>1. row'[j] = Flush(row[j], seen, n)
      BY <1>0, <2>1, <2>3 DEF TypeOK
    <3>2. /\ Flush(row[j], seen, n).status
                = IF n.status = seen.status THEN row[j].status ELSE n.status
          /\ n.status \in {"completed", "pending", "failed"}
      BY <2>3, FlushedStatus
    <3>3. \A i \in Job : i # j => row'[i] = row[i]
      BY <1>0, <2>1 DEF TypeOK
    <3> QED  BY <2>3, <3>1, <3>2, <3>3
  <2>5. PICK s \in {"ended", "waiting"} : s = StageOf(n.status)
    BY <2>4, StageValues
  <2>6. Stage' = [Stage EXCEPT ![j] = s]
    BY <2>3, <2>4, <2>5, StageIs
  <2>7. \A v \in Worker, i \in Job : Holds(v, i)' <=> v # w /\ Holds(v, i)
    <3>1. worker'[w].job = NoJob /\ \A v \in Worker : v # w => worker'[v] = worker[v]
      BY <1>0, <2>2 DEF TypeOK, Idle
    <3> QED  BY <3>1, NumJobsAssumption DEF Holds, Job, NoJob
  <2>8. Holders' = [Holders EXCEPT ![j] = {}]
    <3>1. ASSUME NEW i \in Job, i # j PROVE Holders'[i] = Holders[i]
      <4>1. ~Holds(w, i)
        BY <3>1 DEF Holds
      <4> QED  BY <2>7, <4>1, HoldersAre
    <3>2. Holders'[j] = {}
      BY <2>3, <2>7, HoldersAre
    <3> QED  BY <3>1, <3>2, <2>3, HoldersAre
  <2>9. Stage[j] = "taken" /\ Holders[j] = {w}
    BY <2>3, StageIs, StageValues, HoldersAre
  <2> QED  BY <2>3, <2>5, <2>6, <2>8, <2>9, PromiseRelease
<1>6. ASSUME LoopEnds(w) PROVE Stage' = Stage /\ Holders' = Holders
  <2>1. row' = row /\ worker[w].pc = "poll" /\ worker' = [worker EXCEPT ![w] = Idle("off")]
    BY <1>6 DEF LoopEnds, Leave
  <2>2. ASSUME NEW v \in Worker, NEW i \in Job PROVE Holds(v, i)' <=> Holds(v, i)
    <3>1. CASE v = w
      BY <1>0, <2>1, <3>1, IdleHoldsNothing, NumJobsAssumption
      DEF Holds, Idle, TypeOK, Job, NoJob
    <3>2. CASE v # w
      BY <1>0, <2>1, <3>2 DEF Holds, TypeOK
    <3> QED  BY <3>1, <3>2
  <2> QED  BY <2>1, <2>2, SameStage, SameHolders
<1> QED
  BY <1>1, <1>2, <1>3, <1>4, <1>5, <1>6, PromiseStutters DEF WorkerStep

\* In one process whose database calls do not fail, the rows and the workers do what JobPromise
\* promises to the callers of create_job: one worker at a time runs a job, an ended job stays
\* ended, and only what nobody runs any more goes back to waiting.
THEOREM QueueKeepsPromise ==
    ASSUME \A p, q \in Proc : p = q, MaxErrors = 0
    PROVE  Spec => KeepsPromise
<1> DEFINE Inv == /\ ClaimsInv /\ RunInv /\ CrewGone /\ SeenIsRow
                  /\ LoneProcessNeverOverruns /\ errors = 0
<1>1. Init => Inv /\ Promised!Init
  <2> SUFFICES ASSUME Init PROVE Inv /\ Promised!Init
    OBVIOUS
  <2>1. Inv
    BY ClaimsInit, RunInit
    DEF Init, CrewGone, At, Idle, SeenIsRow, LoneProcessNeverOverruns
  <2>2. \A j \in Job : Stage[j] = "absent" /\ Holders[j] = {}
    BY StageIs, StageValues, HoldersAre, NumJobsAssumption
    DEF Init, Idle, NoRow, Holds, Job, NoJob
  <2>3. Stage = [j \in Job |-> "absent"] /\ Holders = [j \in Job |-> {}]
    BY <2>2, StageIs, HoldersAre
  <2> QED  BY <2>1, <2>3 DEF Promised!Init
<1>2. Inv /\ [Next]_vars => Inv'
  <2> SUFFICES ASSUME Inv, [Next]_vars PROVE Inv'
    OBVIOUS
  <2>1. ClaimsInv' /\ RunInv' /\ SeenIsRow'
    BY ClaimsNext, RunNext, SeenIsRowStep
  <2>2. CrewGone'
    BY CrewStep DEF ClaimsInv
  <2>3. LoneProcessNeverOverruns'
    BY LoneStep
  <2>4. errors' = 0
    <3>1. \A w \in Worker : ~WorkerError(w)
      BY DEF WorkerError, ClaimError, CompleteError, FailError
    <3>2. (\E w \in Worker : WorkerError(w)) \/ errors' = errors
      BY DEF Next, vars, faults, WorkerStep, ProcStep, ClaimSelect, ClaimNothing,
         ClaimCommit, UpdateProgress, CreateJob, CompleteWrite, FailWrite, WriteRow,
         HandlerReturns, HandlerRaises, CompleteRead, FailRead, LoadRow, LoopEnds,
         Start, Recover, Signal, Exit, Crash, Tick
    <3> QED  BY <3>1, <3>2
  <2> QED  BY <2>1, <2>2, <2>3, <2>4
<1>3. Inv /\ [Next]_vars => [Promised!Next]_(Promised!vars)
  <2> SUFFICES ASSUME Inv, [Next]_vars PROVE [Promised!Next]_(Promised!vars)
    OBVIOUS
  <2> USE DEF faults, At
  <2>0. TypeOK /\ overrun = {}
    BY DEF LoneProcessNeverOverruns, ClaimsInv
  <2>1. ASSUME NEW j \in Job, CreateJob(j) PROVE [Promised!Next]_(Promised!vars)
    <3>1. /\ worker' = worker /\ row[j].status = "absent" /\ row'[j].status = "pending"
          /\ \A i \in Job : i # j => row'[i] = row[i]
      BY <2>0, <2>1 DEF CreateJob, TypeOK, Row
    <3>2. Stage' = [Stage EXCEPT ![j] = "waiting"] /\ Stage[j] = "absent"
      BY <3>1, StageIs, StageValues
    <3>3. Holders' = Holders
      BY <3>1, SameHolders DEF Holds
    <3> QED  BY <3>2, <3>3, PromiseSubmit
  <2>2. ASSUME NEW w \in Worker, WorkerStep(w) PROVE [Promised!Next]_(Promised!vars)
    BY <2>0, <2>2, WorkerKeepsPromise
  <2>3. ASSUME NEW w \in Worker, WorkerError(w) PROVE FALSE
    BY <2>3 DEF WorkerError, ClaimError, CompleteError, FailError
  <2>4. ASSUME NEW p \in Proc, Recover(p) PROVE [Promised!Next]_(Promised!vars)
    <3> DEFINE lost == {j \in Job : Stale(j)}
    <3>1. \A w \in Worker : worker[w].pc = "off"
      BY <2>4, ProcOfAssumption DEF Recover, CrewGone
    <3>2. \A w \in Worker, j \in Job : ~Holds(w, j)
      BY <3>1, IdleHoldsNothing
    <3>3. \A w \in Worker, j \in Job : ~Holds(w, j)'
      <4>1. \A w \in Worker : worker'[w] = IF w \in Crew(p) THEN Idle("poll") ELSE worker[w]
        BY <2>4 DEF Recover
      <4> QED  BY <3>2, <4>1, NumJobsAssumption DEF Holds, Idle, Job, NoJob
    <3>4. \A j \in Job : /\ j \in lost => row[j].status = "running" /\ row'[j].status = "pending"
                         /\ j \notin lost => row'[j] = row[j]
      BY <2>0, <2>4 DEF Recover, Stale, TypeOK, Row
    <3>5. Stage' = [j \in Job |-> IF j \in lost THEN "waiting" ELSE Stage[j]]
      BY <3>4, StageIs, StageValues
    <3>6. \A j \in lost : Stage[j] = "taken" /\ Holders[j] = {}
      BY <3>2, <3>4, StageIs, StageValues, HoldersAre
    <3> QED  BY <3>2, <3>3, <3>5, <3>6, SameHolders, PromiseReclaim
  <2>5. ASSUME NEW p \in Proc, Crash(p) PROVE [Promised!Next]_(Promised!vars)
    <3>1. row' = row
      BY <2>5 DEF Crash
    <3>2. \A w \in Worker, j \in Job : Holds(w, j)' <=> w \notin Crew(p) /\ Holds(w, j)
      <4>1. \A w \in Worker : worker'[w] = IF w \in Crew(p) THEN Idle("off") ELSE worker[w]
        BY <2>5 DEF Crash
      <4> QED  BY <4>1, NumJobsAssumption DEF Holds, Idle, Job, NoJob
    <3>3. Holders' = [j \in Job |-> Holders[j] \ Crew(p)]
      <4>1. \A j \in Job : Holders'[j] = Holders[j] \ Crew(p)
        BY <3>2, HoldersAre
      <4> QED  BY <4>1, HoldersAre
    <3> QED  BY <3>1, <3>3, SameStage, PromiseLose DEF Crew
  <2>6. ASSUME (\E p \in Proc : Start(p) \/ Signal(p) \/ Exit(p)) \/ Tick \/ UNCHANGED vars
        PROVE  [Promised!Next]_(Promised!vars)
    <3>1. row' = row /\ worker' = worker
      BY <2>6 DEF Start, Signal, Exit, Tick, vars
    <3> QED  BY <3>1, SameStage, SameHolders, PromiseStutters DEF Holds
  <2> QED  BY <2>1, <2>2, <2>3, <2>4, <2>5, <2>6 DEF Next, ProcStep
<1> QED  BY <1>1, <1>2, <1>3, PTL DEF Spec, KeepsPromise, Promised!Spec
=============================================================================
