--------------------------- MODULE NoticesProofs ---------------------------
(***************************************************************************)
(* Proofs about Notices: types, that every receiver is told, and that a    *)
(* batch waits for quiet, for any number of buckets, files and receivers,  *)
(* any delay and any number of attempts.                                   *)
(***************************************************************************)
EXTENDS Notices, FiniteSetTheorems, TLAPS

Task == [pc : {"free", "select", "send", "sleep"}, files : SUBSET Files, to : SUBSET Receivers,
         attempt : Nat, sleep : Nat]

TypeInv ==
  /\ channel \in {"mail", "webhook"}
  /\ bucket \in [Buckets -> SUBSET Files] /\ timer \in [Buckets -> 0..Unset]
  /\ quietFor \in [Buckets -> 0..NoticeDelay]
  /\ task \in [Batches -> Task]
  /\ enabled \in [Receivers -> BOOLEAN] /\ provider \in BOOLEAN /\ stops \in Nat
  /\ happened \subseteq Files
  /\ got \in [Receivers -> [Files -> Nat]]
  /\ doubted \in [Receivers -> SUBSET Files] /\ excused \in [Receivers -> SUBSET Files]

\* The timer of a bucket runs while it has files, and what is left of the delay and the quiet
\* since the last file make up the delay.
TimerInv ==
  \A b \in Buckets :
    /\ timer[b] # Unset <=> bucket[b] # {}
    /\ timer[b] # Unset => timer[b] + quietFor[b] = NoticeDelay

Under(k) == task[k].pc \in {"send", "sleep"}

\* A task at work has an attempt under way; one that sleeps has another to come.
TaskFits(t) ==
  /\ t.pc = "free" <=> t.files = {}
  /\ t.pc \in {"send", "sleep"} => t.attempt >= 1 /\ t.attempt <= Attempts /\ t.to # {}
  /\ t.pc = "sleep" => t.attempt < Attempts
  /\ t.pc \notin {"send", "sleep"} => t.attempt = 0

TaskInv == \A k \in Batches : TaskFits(task[k])

\* A file is in one bucket or in one task.
PlaceInv ==
  /\ \A b \in Buckets : bucket[b] \subseteq happened
  /\ \A k \in Batches : task[k].files \subseteq happened
  /\ \A b, c \in Buckets : b # c => bucket[b] \cap bucket[c] = {}
  /\ \A k, l \in Batches : k # l => task[k].files \cap task[l].files = {}
  /\ \A b \in Buckets, k \in Batches : bucket[b] \cap task[k].files = {}

Unsent(f) ==
  \/ f \notin happened
  \/ \E b \in Buckets : f \in bucket[b]
  \/ \E k \in Batches : task[k].pc = "select" /\ f \in task[k].files

\* The receiver whose turn it is.
Now(k) == CHOOSE x \in task[k].to : TRUE
Sent(k) == IF task[k].pc = "send" THEN task[k].attempt - 1 ELSE task[k].attempt

\* What a receiver has of a file: nothing before its turn, one notice at most for each attempt
\* that was made, and none without an answer being missed before the task goes on.
UnsentInv == \A f \in Files : Unsent(f) => \A r \in Receivers : got[r][f] = 0

TurnInv(k) ==
  Under(k) => \A f \in task[k].files :
    /\ \A r \in task[k].to : r # Now(k) => got[r][f] = 0
    /\ got[Now(k)][f] <= Sent(k)
    /\ got[Now(k)][f] > 0 => f \in doubted[Now(k)]
    /\ \A r \in Receivers \ task[k].to : got[r][f] > 0 \/ f \in excused[r]

GotFits == \A r \in Receivers, f \in Files : got[r][f] <= Attempts

GotInv == UnsentInv /\ (\A k \in Batches : TurnInv(k)) /\ GotFits /\ TwiceOnlyWhenUnanswered

NoticeInv == TypeInv /\ TimerInv /\ TaskInv /\ PlaceInv /\ GotInv /\ EveryFileIsTold

-----------------------------------------------------------------------------
(* Types                                                                   *)

\* The wait before a retry is a number of seconds.
LEMMA BackoffIsNat ==
    ASSUME NEW n \in Nat
    PROVE  Backoff(n) \in Nat
<1>1. IsFiniteSet(1 .. n) /\ Cardinality(1 .. n) = n
  BY FS_Interval
<1>2. Cardinality(SUBSET (1 .. n)) = 2 ^ n /\ IsFiniteSet(SUBSET (1 .. n))
  BY <1>1, FS_SUBSET
<1>3. Cardinality(SUBSET (1 .. n)) \in Nat
  BY <1>2, FS_CardinalityType
<1> QED  BY <1>2, <1>3 DEF Backoff

LEMMA AttemptsAre == Attempts \in Nat \ {0} /\ NoticeDelay \in Nat \ {0}
BY NoticeAssumption DEF Attempts

LEMMA NoTaskTyped == NoTask \in Task
BY DEF NoTask, Task

LEMMA NextTyped ==
    ASSUME NEW k \in Batches, task[k] \in Task, NEW r
    PROVE  NextReceiver(k, r) \in Task
BY NoTaskTyped DEF NextReceiver, Task

LEMMA TypeInit == NoticeInit => TypeInv
<1>1. NoticeInit => provider \in BOOLEAN
  BY DEF NoticeInit
<1>2. NoticeInit => /\ channel \in {"mail", "webhook"} /\ enabled \in [Receivers -> BOOLEAN]
                    /\ bucket \in [Buckets -> SUBSET Files] /\ happened \subseteq Files
                    /\ stops \in Nat
  BY DEF NoticeInit
<1>3. NoticeInit => timer \in [Buckets -> 0..Unset] /\ quietFor \in [Buckets -> 0..NoticeDelay]
  BY AttemptsAre DEF NoticeInit, Unset
<1>4. NoticeInit => task \in [Batches -> Task]
  BY NoTaskTyped DEF NoticeInit
<1>5. NoticeInit => /\ got \in [Receivers -> [Files -> Nat]]
                    /\ doubted \in [Receivers -> SUBSET Files]
                    /\ excused \in [Receivers -> SUBSET Files]
  BY DEF NoticeInit
<1> QED  BY <1>1, <1>2, <1>3, <1>4, <1>5 DEF TypeInv

LEMMA TypeNext == TypeInv /\ [NoticeNext]_noticeVars => TypeInv'
<1> SUFFICES ASSUME TypeInv, [NoticeNext]_noticeVars PROVE TypeInv'
  OBVIOUS
<1> USE AttemptsAre DEF boundVars, toldVars, whoVars, Unset
<1>0. /\ task \in [Batches -> Task] /\ timer \in [Buckets -> 0..Unset]
      /\ bucket \in [Buckets -> SUBSET Files] /\ quietFor \in [Buckets -> 0..NoticeDelay]
      /\ got \in [Receivers -> [Files -> Nat]]
      /\ doubted \in [Receivers -> SUBSET Files] /\ excused \in [Receivers -> SUBSET Files]
      /\ \A k \in Batches : task[k].files \subseteq Files /\ task[k].to \subseteq Receivers
  BY DEF TypeInv, Task
<1>1. ASSUME NEW b \in Buckets, NEW f \in Files, EnqueueBatch(b, f) PROVE TypeInv'
  BY <1>1 DEF EnqueueBatch, TypeInv, Restarted
<1>2. ASSUME SecondPasses PROVE TypeInv'
  <2>1. timer' \in [Buckets -> 0..Unset] /\ quietFor' \in [Buckets -> 0..NoticeDelay]
    BY <1>0, <1>2 DEF SecondPasses
  <2>2. task' \in [Batches -> Task]
    <3>1. ASSUME NEW k \in Batches, task[k].pc = "sleep"
          PROVE  [task[k] EXCEPT !.sleep = @ - 1] \in Task
      <4>1. task[k] \in Task /\ task[k].sleep > 0
        BY <1>0, <1>2, <3>1 DEF SecondPasses
      <4>2. task[k].sleep - 1 \in Nat
        BY <4>1 DEF Task
      <4> QED  BY <4>1, <4>2 DEF Task
    <3> QED  BY <1>0, <1>2, <3>1 DEF SecondPasses
  <2> QED  BY <1>2, <2>1, <2>2 DEF SecondPasses, TypeInv
<1>3. ASSUME NEW b \in Buckets, NEW k \in Batches, FlushBatch(b, k) PROVE TypeInv'
  <2>1. task' \in [Batches -> Task]
    BY <1>0, <1>3 DEF FlushBatch, NoTask, Task, Taken
  <2> QED  BY <1>3, <2>1 DEF FlushBatch, TypeInv
<1>4. ASSUME NEW k \in Batches, SelectReceivers(k) PROVE TypeInv'
  <2>1. task' \in [Batches -> Task]
    BY <1>0, <1>4, NoTaskTyped DEF SelectReceivers, Task
  <2>2. excused' \in [Receivers -> SUBSET Files]
    BY <1>0, <1>4 DEF SelectReceivers
  <2> QED  BY <1>4, <2>1, <2>2 DEF SelectReceivers, TypeInv
<1>5. ASSUME NEW k \in Batches, SendAgain(k) PROVE TypeInv'
  <2>1. task' \in [Batches -> Task]
    BY <1>0, <1>5 DEF SendAgain, Task
  <2> QED  BY <1>5, <2>1 DEF SendAgain, TypeInv
<1>6. \A k \in Batches, r \in Receivers : Delivered(k, r) \in [Receivers -> [Files -> Nat]]
  BY <1>0 DEF Delivered
<1>7. ASSUME NEW k \in Batches, NEW r \in Receivers, SendOk(k, r) PROVE TypeInv'
  <2>1. task' \in [Batches -> Task]
    BY <1>0, <1>7, NextTyped DEF SendOk
  <2> QED  BY <1>6, <1>7, <2>1 DEF SendOk, TypeInv
<1>8. ASSUME NEW k \in Batches, NEW r \in Receivers, SendFails(k, r) PROVE TypeInv'
  <2>1. task' \in [Batches -> Task]
    <3>1. Backoff(task[k].attempt) \in Nat
      BY <1>0, BackoffIsNat DEF Task
    <3>2. CASE TriesAgain(k)
      <4>1. [task[k] EXCEPT !.pc = "sleep", !.sleep = Backoff(task[k].attempt)] \in Task
        <5>1. PICK n \in Nat : n = Backoff(task[k].attempt)
          BY <3>1
        <5>2. task[k] \in Task
          BY <1>0
        <5>3. [task[k] EXCEPT !.pc = "sleep", !.sleep = n] \in Task
          BY <5>2 DEF Task
        <5> QED  BY <5>1, <5>3
      <4>2. task' = [task EXCEPT ![k] = [task[k] EXCEPT !.pc = "sleep",
                                                        !.sleep = Backoff(task[k].attempt)]]
        BY <1>0, <1>8, <3>2 DEF SendFails
      <4> QED  BY <1>0, <4>1, <4>2
    <3>3. CASE ~TriesAgain(k)
      BY <1>0, <1>8, <3>3, NextTyped DEF SendFails
    <3> QED  BY <3>2, <3>3
  <2>2. /\ got' \in [Receivers -> [Files -> Nat]] /\ doubted' \in [Receivers -> SUBSET Files]
        /\ excused' \in [Receivers -> SUBSET Files]
    <3>1. got' = Delivered(k, r) \/ got' = got
      BY <1>8 DEF SendFails
    <3>2. doubted' = [doubted EXCEPT ![r] = @ \cup task[k].files] \/ doubted' = doubted
      BY <1>8 DEF SendFails
    <3>3. excused' = [excused EXCEPT ![r] = @ \cup task[k].files] \/ excused' = excused
      BY <1>8 DEF SendFails
    <3>4. got' \in [Receivers -> [Files -> Nat]]
      BY <1>0, <1>6, <3>1
    <3>5. doubted' \in [Receivers -> SUBSET Files] /\ excused' \in [Receivers -> SUBSET Files]
      BY <1>0, <3>2, <3>3
    <3> QED  BY <3>4, <3>5
  <2> QED  BY <1>8, <2>1, <2>2 DEF SendFails, TypeInv
<1>9. ASSUME NEW r \in Receivers, SwitchReceiver(r) PROVE TypeInv'
  <2>1. enabled' \in [Receivers -> BOOLEAN]
    BY <1>9 DEF SwitchReceiver, TypeInv
  <2> QED  BY <1>9, <2>1 DEF SwitchReceiver, TypeInv
<1>10. ASSUME NEW k \in Batches, SelectFails(k) PROVE TypeInv'
  <2>1. task' \in [Batches -> Task]
    BY <1>0, <1>10, NoTaskTyped DEF SelectFails
  <2> QED  BY <1>10, <2>1 DEF SelectFails, TypeInv
<1>11. ASSUME SwitchProvider PROVE TypeInv'
  BY <1>11 DEF SwitchProvider, TypeInv
<1>12. ASSUME BackendStops PROVE TypeInv'
  BY <1>12, NoTaskTyped DEF BackendStops, TypeInv
<1>13. ASSUME UNCHANGED noticeVars PROVE TypeInv'
  BY <1>13 DEF noticeVars, TypeInv
<1> QED
  BY <1>1, <1>2, <1>3, <1>4, <1>5, <1>7, <1>8, <1>9, <1>10, <1>11, <1>12,
     <1>13
  DEF NoticeNext, NoticeWork

-----------------------------------------------------------------------------
(* Timers                                                                  *)

LEMMA TimerNext == TypeInv /\ TimerInv /\ [NoticeNext]_noticeVars => TimerInv'
<1> SUFFICES ASSUME TypeInv, TimerInv, [NoticeNext]_noticeVars PROVE TimerInv'
  OBVIOUS
<1> USE AttemptsAre DEF Unset
<1>0. /\ timer \in [Buckets -> 0..Unset] /\ quietFor \in [Buckets -> 0..NoticeDelay]
      /\ bucket \in [Buckets -> SUBSET Files]
  BY DEF TypeInv
<1>1. ASSUME NEW b \in Buckets, NEW f \in Files, EnqueueBatch(b, f) PROVE TimerInv'
  BY <1>0, <1>1 DEF EnqueueBatch, TimerInv, Restarted
<1>2. ASSUME SecondPasses PROVE TimerInv'
  <2>1. ASSUME NEW b \in Buckets
        PROVE  /\ bucket' = bucket /\ timer[b] # 0
               /\ timer'[b] = IF timer[b] = Unset THEN Unset ELSE timer[b] - 1
               /\ quietFor'[b] = IF quietFor[b] < NoticeDelay THEN quietFor[b] + 1
                                 ELSE quietFor[b]
    BY <1>0, <1>2 DEF SecondPasses
  <2>2. ASSUME NEW b \in Buckets, timer[b] # Unset
        PROVE  timer'[b] # Unset /\ timer'[b] + quietFor'[b] = NoticeDelay
    <3>1. timer[b] \in 1..NoticeDelay /\ quietFor[b] \in 0..NoticeDelay
      BY <1>0, <2>1, <2>2
    <3>2. timer[b] + quietFor[b] = NoticeDelay
      BY <2>2 DEF TimerInv
    <3>3. timer'[b] = timer[b] - 1 /\ quietFor'[b] = quietFor[b] + 1
      BY <2>1, <2>2, <3>1, <3>2
    <3> QED  BY <3>1, <3>2, <3>3
  <2>3. ASSUME NEW b \in Buckets, timer[b] = Unset PROVE timer'[b] = Unset
    BY <2>1, <2>3
  <2> QED  BY <2>1, <2>2, <2>3 DEF TimerInv
<1>3. ASSUME NEW b \in Buckets, NEW k \in Batches, FlushBatch(b, k) PROVE TimerInv'
  BY <1>0, <1>3 DEF FlushBatch, TimerInv
<1>4. ASSUME BackendStops PROVE TimerInv'
  BY <1>0, <1>4 DEF BackendStops, TimerInv
<1>5. ASSUME UNCHANGED <<bucket, timer, quietFor>> PROVE TimerInv'
  BY <1>5 DEF TimerInv
<1>6. \/ SecondPasses \/ BackendStops \/ UNCHANGED <<bucket, timer, quietFor>>
      \/ \E b \in Buckets, f \in Files : EnqueueBatch(b, f)
      \/ \E b \in Buckets, k \in Batches : FlushBatch(b, k)
  BY DEF NoticeNext, NoticeWork, noticeVars, SelectReceivers, SelectFails, SendAgain, SendOk,
         SendFails, SwitchReceiver, SwitchProvider
<1> QED  BY <1>1, <1>2, <1>3, <1>4, <1>5, <1>6

\* A batch leaves its bucket when the whole delay has passed without another file, or with the
\* backend.
THEOREM WaitsForQuiet == NoticeSpec => BatchWaitsForQuiet
<1> DEFINE Waited(b) == bucket'[b] = {} /\ bucket[b] # {} /\ stops' = stops
                         => quietFor[b] = NoticeDelay
<1>1. NoticeInit => TypeInv /\ TimerInv
  BY TypeInit, AttemptsAre DEF NoticeInit, TimerInv, Unset
<1>2. TypeInv /\ TimerInv /\ [NoticeNext]_noticeVars
        => [\A b \in Buckets : Waited(b)]_noticeVars
  <2> SUFFICES ASSUME TypeInv, TimerInv, NoticeNext, NEW b \in Buckets,
                      bucket'[b] = {}, bucket[b] # {}, stops' = stops
               PROVE  quietFor[b] = NoticeDelay
    BY DEF noticeVars
  <2>1. timer[b] = 0 \/ bucket'[b] # {}
    <3>1. ASSUME NEW c \in Buckets, NEW f \in Files, EnqueueBatch(c, f) PROVE bucket'[b] # {}
      BY <3>1 DEF EnqueueBatch, TypeInv
    <3>2. ASSUME NEW c \in Buckets, NEW k \in Batches, FlushBatch(c, k), c # b
          PROVE  bucket'[b] # {}
      BY <3>2 DEF FlushBatch, TypeInv
    <3>3. ASSUME BackendStops PROVE FALSE
      BY <3>3 DEF BackendStops, TypeInv
    <3> QED
      BY <3>1, <3>2, <3>3
      DEF NoticeNext, NoticeWork, SecondPasses, FlushBatch, SelectReceivers, SelectFails,
          SendAgain, SendOk, SendFails, SwitchReceiver, SwitchProvider
  <2>2. timer[b] # Unset /\ quietFor[b] \in Nat
    BY AttemptsAre DEF TypeInv, TimerInv
  <2> QED  BY <2>1, <2>2, AttemptsAre DEF TimerInv
<1> QED  BY <1>1, <1>2, TypeNext, TimerNext, PTL DEF NoticeSpec, BatchWaitsForQuiet

-----------------------------------------------------------------------------
(* Tasks and places                                                        *)

\* The channel of a run is one.
LEMMA AttemptsStay ==
    ASSUME [NoticeNext]_noticeVars
    PROVE  Attempts' = Attempts
<1>1. channel' = channel
  BY DEF NoticeNext, NoticeWork, noticeVars, EnqueueBatch, SecondPasses, FlushBatch,
         SelectReceivers, SelectFails, SendAgain, SendOk, SendFails, SwitchReceiver,
         SwitchProvider, BackendStops
<1> QED  BY <1>1 DEF Attempts

\* The receiver after this one has its first attempt.
LEMMA NextFits ==
    ASSUME NEW k \in Batches, TypeInv, TaskInv, NEW r \in task[k].to, Under(k)
    PROVE  TaskFits(NextReceiver(k, r))
<1>1. task[k] \in Task /\ TaskFits(task[k])
  BY DEF TypeInv, TaskInv
<1>2. CASE task[k].to = {r}
  BY <1>2 DEF NextReceiver, NoTask, TaskFits
<1>3. CASE task[k].to # {r}
  <2>1. task[k].to \ {r} # {}
    BY <1>3
  <2>2. task[k].files # {}
    BY <1>1 DEF TaskFits, Under
  <2> QED  BY <1>1, <1>3, <2>1, <2>2, AttemptsAre DEF NextReceiver, TaskFits, Task
<1> QED  BY <1>2, <1>3

\* The receiver whose turn it is is one of those to come.
LEMMA TurnIs ==
    ASSUME NEW k \in Batches, NEW r, TypeInv, TaskInv, Turn(k, r)
    PROVE  /\ r = Now(k) /\ r \in task[k].to /\ r \in Receivers
           /\ task[k].pc = "send" /\ Under(k)
<1>1. task[k].to # {} /\ task[k].to \subseteq Receivers
  BY DEF Turn, TypeInv, TaskInv, TaskFits, Task
<1> QED  BY <1>1 DEF Turn, Now, Under

LEMMA TaskNext == TypeInv /\ TimerInv /\ TaskInv /\ [NoticeNext]_noticeVars => TaskInv'
<1> SUFFICES ASSUME TypeInv, TimerInv, TaskInv, [NoticeNext]_noticeVars PROVE TaskInv'
  OBVIOUS
<1>0. Attempts' = Attempts /\ Attempts \in Nat \ {0}
  BY AttemptsStay, AttemptsAre
<1>a. \A k \in Batches : task[k] \in Task /\ TaskFits(task[k])
  BY DEF TypeInv, TaskInv
<1>b. task \in [Batches -> Task]
  BY DEF TypeInv
<1>c. TaskFits(NoTask)
  BY DEF TaskFits, NoTask
<1> SUFFICES \A k \in Batches : TaskFits(task'[k])
  BY <1>0 DEF TaskInv, TaskFits
<1>1. ASSUME SecondPasses PROVE \A k \in Batches : TaskFits(task'[k])
  <2> SUFFICES ASSUME NEW k \in Batches PROVE TaskFits(task'[k])
    OBVIOUS
  <2>1. /\ task'[k].pc = task[k].pc /\ task'[k].files = task[k].files
        /\ task'[k].to = task[k].to /\ task'[k].attempt = task[k].attempt
    BY <1>1, <1>a DEF SecondPasses, Task
  <2> QED  BY <1>a, <2>1 DEF TaskFits
<1>2. ASSUME NEW b \in Buckets, NEW l \in Batches, FlushBatch(b, l)
      PROVE  \A k \in Batches : TaskFits(task'[k])
  <2>1. bucket[b] # {}
    BY <1>2, AttemptsAre DEF FlushBatch, TimerInv, Unset
  <2>2. TaskFits([NoTask EXCEPT !.pc = "select", !.files = bucket[b]])
    BY <2>1 DEF TaskFits, NoTask
  <2> QED  BY <1>2, <1>a, <1>b, <2>2 DEF FlushBatch, Taken
<1>3. ASSUME NEW l \in Batches, SelectReceivers(l) PROVE \A k \in Batches : TaskFits(task'[k])
  <2> DEFINE to == {r \in Receivers : Subscribed(r)}
  <2>1. to # {} => TaskFits([task[l] EXCEPT !.pc = "send", !.to = to, !.attempt = 1])
    BY <1>0, <1>3, <1>a DEF SelectReceivers, TaskFits, Task
  <2> QED  BY <1>3, <1>a, <1>b, <1>c, <2>1 DEF SelectReceivers
<1>4. ASSUME NEW l \in Batches, SendAgain(l) PROVE \A k \in Batches : TaskFits(task'[k])
  <2>1. /\ task'[l].pc = "send" /\ task'[l].files = task[l].files /\ task'[l].to = task[l].to
        /\ task'[l].attempt = task[l].attempt + 1
    BY <1>4, <1>a, <1>b DEF SendAgain, Task
  <2>2. PICK n \in Nat : n = task[l].attempt
    BY <1>a DEF Task
  <2>3. n < Attempts /\ task[l].files # {} /\ task[l].to # {}
    BY <1>4, <1>a, <2>2 DEF SendAgain, TaskFits
  <2>4. n + 1 >= 1 /\ n + 1 <= Attempts
    BY <1>0, <2>3
  <2>5. task'[l].attempt = n + 1
    BY <2>1, <2>2
  <2>6. TaskFits(task'[l])
    BY <2>1, <2>3, <2>4, <2>5 DEF TaskFits
  <2> QED  BY <1>4, <1>a, <1>b, <2>6 DEF SendAgain
<1>5. ASSUME NEW l \in Batches, NEW r \in Receivers, SendOk(l, r)
      PROVE  \A k \in Batches : TaskFits(task'[k])
  <2>1. TaskFits(NextReceiver(l, r))
    BY <1>5, TurnIs, NextFits DEF SendOk
  <2> QED  BY <1>5, <1>a, <1>b, <2>1 DEF SendOk
<1>6. ASSUME NEW l \in Batches, NEW r \in Receivers, SendFails(l, r)
      PROVE  \A k \in Batches : TaskFits(task'[k])
  <2>1. CASE TriesAgain(l)
    <3>1. /\ task'[l].pc = "sleep" /\ task'[l].files = task[l].files /\ task'[l].to = task[l].to
          /\ task'[l].attempt = task[l].attempt
      BY <1>6, <1>a, <1>b, <2>1 DEF SendFails, Task
    <3>2. TaskFits(task'[l])
      BY <1>6, <1>a, <2>1, <3>1 DEF SendFails, Turn, TaskFits, TriesAgain
    <3> QED  BY <1>6, <1>a, <1>b, <2>1, <3>2 DEF SendFails
  <2>2. CASE ~TriesAgain(l)
    <3>1. TaskFits(NextReceiver(l, r))
      BY <1>6, TurnIs, NextFits DEF SendFails
    <3> QED  BY <1>6, <1>a, <1>b, <2>2, <3>1 DEF SendFails
  <2> QED  BY <2>1, <2>2
<1>7. ASSUME BackendStops PROVE \A k \in Batches : TaskFits(task'[k])
  BY <1>7, <1>c DEF BackendStops
<1>8. ASSUME UNCHANGED task PROVE \A k \in Batches : TaskFits(task'[k])
  BY <1>8, <1>a
<1>9. ASSUME NEW l \in Batches, SelectFails(l) PROVE \A k \in Batches : TaskFits(task'[k])
  BY <1>9, <1>a, <1>b, <1>c DEF SelectFails
<1> QED
  BY <1>1, <1>2, <1>3, <1>4, <1>5, <1>6, <1>7, <1>8, <1>9
  DEF NoticeNext, NoticeWork, noticeVars, EnqueueBatch, SwitchReceiver, SwitchProvider

\* But for a new file and a batch that is taken, files only leave their buckets and their tasks.
LEMMA FilesLeave ==
    ASSUME TypeInv, [NoticeNext]_noticeVars,
           ~ \E b \in Buckets, f \in Files : EnqueueBatch(b, f),
           ~ \E b \in Buckets, k \in Batches : FlushBatch(b, k)
    PROVE  /\ happened' = happened
           /\ \A b \in Buckets : bucket'[b] \subseteq bucket[b]
           /\ \A k \in Batches : task'[k].files \subseteq task[k].files
<1>a. task \in [Batches -> Task] /\ \A k \in Batches : task[k] \in Task
  BY DEF TypeInv
<1>b. NoTask.files = {}
  BY DEF NoTask
<1>1. CASE SecondPasses
  <2>1. ASSUME NEW k \in Batches PROVE task'[k].files = task[k].files
    BY <1>1, <1>a DEF SecondPasses, Task
  <2> QED  BY <1>1, <2>1 DEF SecondPasses
<1>2. ASSUME NEW l \in Batches, SelectReceivers(l)
      PROVE  \A k \in Batches : task'[k].files \subseteq task[k].files
  BY <1>2, <1>a, <1>b DEF SelectReceivers, Task
<1>3. ASSUME NEW l \in Batches, SendAgain(l)
      PROVE  \A k \in Batches : task'[k].files \subseteq task[k].files
  BY <1>3, <1>a DEF SendAgain, Task
<1>4. \A l \in Batches, r \in Receivers : NextReceiver(l, r).files \subseteq task[l].files
  BY <1>a, <1>b DEF NextReceiver, Task
<1>5. ASSUME NEW l \in Batches, NEW r \in Receivers, SendOk(l, r)
      PROVE  \A k \in Batches : task'[k].files \subseteq task[k].files
  BY <1>4, <1>5, <1>a DEF SendOk
<1>6. ASSUME NEW l \in Batches, NEW r \in Receivers, SendFails(l, r)
      PROVE  \A k \in Batches : task'[k].files \subseteq task[k].files
  <2>1. CASE TriesAgain(l)
    BY <1>6, <1>a, <2>1 DEF SendFails, Task
  <2>2. CASE ~TriesAgain(l)
    BY <1>4, <1>6, <1>a, <2>2 DEF SendFails
  <2> QED  BY <2>1, <2>2
<1>7. CASE BackendStops
  BY <1>7, <1>b DEF BackendStops
<1>8. CASE UNCHANGED <<happened, bucket, task>>
  BY <1>8
<1>9. ASSUME NEW l \in Batches, NEW r \in Receivers,
             SelectReceivers(l) \/ SendAgain(l) \/ SendOk(l, r) \/ SendFails(l, r)
      PROVE  happened' = happened /\ bucket' = bucket
  BY <1>9 DEF SelectReceivers, SendAgain, SendOk, SendFails
<1>10. ASSUME NEW l \in Batches, SelectReceivers(l) \/ SendAgain(l)
       PROVE  happened' = happened /\ bucket' = bucket
  BY <1>10 DEF SelectReceivers, SendAgain
<1>11. ASSUME NEW l \in Batches, SelectFails(l)
       PROVE  /\ happened' = happened /\ bucket' = bucket
              /\ \A k \in Batches : task'[k].files \subseteq task[k].files
  BY <1>11, <1>a, <1>b DEF SelectFails
<1> QED
  BY <1>1, <1>2, <1>3, <1>5, <1>6, <1>7, <1>8, <1>9, <1>10, <1>11
  DEF NoticeNext, NoticeWork, noticeVars, SwitchReceiver, SwitchProvider

LEMMA PlaceNext == TypeInv /\ TaskInv /\ PlaceInv /\ [NoticeNext]_noticeVars => PlaceInv'
<1> SUFFICES ASSUME TypeInv, TaskInv, PlaceInv, [NoticeNext]_noticeVars PROVE PlaceInv'
  OBVIOUS
<1>1. ASSUME NEW b \in Buckets, NEW f \in Files, EnqueueBatch(b, f) PROVE PlaceInv'
  <2>1. /\ task' = task /\ happened' = happened \cup {f} /\ f \notin happened
        /\ \A c \in Buckets : bucket'[c] = IF c = b THEN bucket[c] \cup {f} ELSE bucket[c]
    BY <1>1 DEF EnqueueBatch, TypeInv
  <2>2. /\ \A c \in Buckets : f \notin bucket[c]
        /\ \A k \in Batches : f \notin task[k].files
    BY <2>1 DEF PlaceInv
  <2>3. /\ \A c \in Buckets : bucket'[c] \subseteq happened'
        /\ \A k \in Batches : task'[k].files \subseteq happened'
    BY <2>1 DEF PlaceInv
  <2>4. \A c, d \in Buckets : c # d => bucket'[c] \cap bucket'[d] = {}
    BY <2>1, <2>2 DEF PlaceInv
  <2>5. \A c \in Buckets, k \in Batches : bucket'[c] \cap task'[k].files = {}
    BY <2>1, <2>2 DEF PlaceInv
  <2>6. \A k, l \in Batches : k # l => task'[k].files \cap task'[l].files = {}
    BY <2>1 DEF PlaceInv
  <2> QED  BY <2>3, <2>4, <2>5, <2>6 DEF PlaceInv
<1>2. ASSUME NEW b \in Buckets, NEW k \in Batches, FlushBatch(b, k) PROVE PlaceInv'
  <2>1. /\ happened' = happened /\ task[k].files = {}
        /\ \A c \in Buckets : bucket'[c] = IF c = b THEN {} ELSE bucket[c]
    BY <1>2 DEF FlushBatch, TypeInv, TaskInv, TaskFits
  <2>2. \A l \in Batches : task'[l].files = IF l = k THEN bucket[b] ELSE task[l].files
    BY <1>2 DEF FlushBatch, TypeInv, NoTask, Taken
  <2> QED  BY <2>1, <2>2 DEF PlaceInv
<1>3. CASE /\ ~ \E b \in Buckets, f \in Files : EnqueueBatch(b, f)
           /\ ~ \E b \in Buckets, k \in Batches : FlushBatch(b, k)
  <2>1. /\ happened' = happened
        /\ \A b \in Buckets : bucket'[b] \subseteq bucket[b]
        /\ \A k \in Batches : task'[k].files \subseteq task[k].files
    BY <1>3, FilesLeave
  <2> QED  BY <2>1 DEF PlaceInv
<1> QED  BY <1>1, <1>2, <1>3

-----------------------------------------------------------------------------
(* What the receivers get                                                  *)

\* An attempt at receiver r, by task k: only r's notices of the task's files change, by one at
\* most, and then either the receiver is done with or the task sleeps, and what came without an
\* answer is doubted.
LEMMA SendStep ==
    ASSUME TypeInv, TaskInv, GotInv, NEW k \in Batches, NEW r \in Receivers,
           SendOk(k, r) \/ SendFails(k, r)
    PROVE  /\ \A x \in Receivers, f \in Files :
                /\ x # r \/ f \notin task[k].files => got'[x][f] = got[x][f]
                /\ f \in doubted[x] => f \in doubted'[x]
                /\ f \in excused[x] => f \in excused'[x]
           /\ \A f \in task[k].files :
                /\ got'[r][f] <= task[k].attempt
                /\ got'[r][f] > 1 => f \in doubted'[r]
                /\ got[r][f] > 0 => got'[r][f] > 0
           /\ \/ /\ task' = [task EXCEPT ![k] = NextReceiver(k, r)]
                 /\ \A f \in task[k].files : got'[r][f] > 0 \/ f \in excused'[r]
              \/ /\ task' = [task EXCEPT ![k].pc = "sleep", ![k].sleep = Backoff(task[k].attempt)]
                 /\ \A f \in task[k].files : got'[r][f] > 0 => f \in doubted'[r]
<1>a. /\ task[k] \in Task /\ got \in [Receivers -> [Files -> Nat]]
      /\ doubted \in [Receivers -> SUBSET Files] /\ excused \in [Receivers -> SUBSET Files]
  BY DEF TypeInv
<1>b. r = Now(k) /\ r \in task[k].to /\ Under(k) /\ task[k].pc = "send"
  BY TurnIs DEF SendOk, SendFails
<1>c. ASSUME NEW f \in task[k].files
      PROVE  /\ got[r][f] <= task[k].attempt - 1 /\ got[r][f] \in Nat
             /\ got[r][f] > 0 => f \in doubted[r]
  BY <1>a, <1>b DEF GotInv, TurnInv, Sent, Task
<1>d. \A x \in Receivers, f \in Files :
        Delivered(k, r)[x][f] = IF x = r /\ f \in task[k].files THEN got[x][f] + 1 ELSE got[x][f]
  BY <1>a DEF Delivered
<1>e. task[k].attempt \in Nat /\ task[k].files \subseteq Files
  BY <1>a DEF Task
<1>1. CASE SendOk(k, r)
  <2>1. got' = Delivered(k, r) /\ doubted' = doubted /\ excused' = excused
        /\ task' = [task EXCEPT ![k] = NextReceiver(k, r)]
    BY <1>1 DEF SendOk
  <2>2. ASSUME NEW f \in task[k].files
        PROVE  /\ got'[r][f] <= task[k].attempt /\ got'[r][f] > 0
               /\ got'[r][f] > 1 => f \in doubted'[r]
    <3>1. got'[r][f] = got[r][f] + 1
      BY <1>d, <1>e, <2>1
    <3>2. PICK n \in Nat : n = got[r][f]
      BY <1>c
    <3>3. n <= task[k].attempt - 1 /\ (n > 0 => f \in doubted[r])
      BY <1>c, <3>2
    <3> QED  BY <1>e, <2>1, <3>1, <3>2, <3>3
  <2>3. \A x \in Receivers, f \in Files :
          x # r \/ f \notin task[k].files => got'[x][f] = got[x][f]
    BY <1>d, <2>1
  <2> QED  BY <2>1, <2>2, <2>3
<1>2. CASE SendFails(k, r)
  <2>1. PICK taken \in BOOLEAN :
          /\ got' = IF taken THEN Delivered(k, r) ELSE got
          /\ doubted' = IF taken THEN [doubted EXCEPT ![r] = @ \cup task[k].files] ELSE doubted
    BY <1>2 DEF SendFails
  <2>2. \/ /\ task' = [task EXCEPT ![k].pc = "sleep", ![k].sleep = Backoff(task[k].attempt)]
           /\ excused' = excused
        \/ /\ task' = [task EXCEPT ![k] = NextReceiver(k, r)]
           /\ excused' = [excused EXCEPT ![r] = @ \cup task[k].files]
    BY <1>2 DEF SendFails
  <2>3. \A x \in Receivers, f \in Files :
          /\ x # r \/ f \notin task[k].files => got'[x][f] = got[x][f]
          /\ f \in doubted[x] => f \in doubted'[x]
    BY <1>a, <1>d, <2>1
  <2>4. \A x \in Receivers, f \in Files : f \in excused[x] => f \in excused'[x]
    BY <1>a, <2>2
  <2>5. ASSUME NEW f \in task[k].files
        PROVE  /\ got'[r][f] <= task[k].attempt
               /\ got'[r][f] > 0 => f \in doubted'[r]
               /\ got[r][f] > 0 => got'[r][f] > 0
               /\ got'[r][f] > 1 => f \in doubted'[r]
    <3>2. PICK n \in Nat : n = got[r][f]
      BY <1>c
    <3>3. n <= task[k].attempt - 1 /\ (n > 0 => f \in doubted[r])
      BY <1>c, <3>2
    <3>4. CASE taken
      <4>1. got'[r][f] = n + 1
        BY <1>d, <1>e, <2>1, <3>2, <3>4
      <4>2. f \in doubted'[r]
        BY <1>a, <1>e, <2>1, <3>4
      <4> QED  BY <1>e, <3>2, <3>3, <4>1, <4>2
    <3>5. CASE ~taken
      <4>1. got'[r][f] = n /\ doubted' = doubted
        BY <2>1, <3>2, <3>5
      <4> QED  BY <1>e, <3>2, <3>3, <4>1
    <3> QED  BY <3>4, <3>5
  <2>6. task' = [task EXCEPT ![k] = NextReceiver(k, r)]
          => \A f \in task[k].files : got'[r][f] > 0 \/ f \in excused'[r]
          \/ task' = [task EXCEPT ![k].pc = "sleep", ![k].sleep = Backoff(task[k].attempt)]
    BY <1>a, <1>e, <2>2
  <2> QED  BY <1>a, <1>e, <2>2, <2>3, <2>4, <2>5, <2>6
<1> QED  BY <1>1, <1>2

\* A turn whose task, notices and excuses are kept, or only grow elsewhere, is still right.
LEMMA TurnKept ==
    ASSUME NEW k \in Batches, TypeInv, TurnInv(k),
           Under(k)' => /\ Under(k) /\ task'[k].files \subseteq task[k].files
                        /\ task'[k].to = task[k].to /\ Sent(k)' = Sent(k),
           \A f \in task[k].files, x \in Receivers :
             /\ got'[x][f] = got[x][f]
             /\ f \in doubted[x] => f \in doubted'[x]
             /\ f \in excused[x] => f \in excused'[x],
           task[k].to # {} \/ ~Under(k)
    PROVE  TurnInv(k)'
<1> SUFFICES ASSUME Under(k)', NEW f \in task'[k].files
             PROVE  /\ \A r \in task'[k].to : r # Now(k)' => got'[r][f] = 0
                    /\ got'[Now(k)'][f] <= Sent(k)'
                    /\ got'[Now(k)'][f] > 0 => f \in doubted'[Now(k)']
                    /\ \A r \in Receivers \ task'[k].to : got'[r][f] > 0 \/ f \in excused'[r]
  BY DEF TurnInv
<1>1. Under(k) /\ f \in task[k].files /\ task'[k].to = task[k].to /\ Sent(k)' = Sent(k)
  OBVIOUS
<1>2. Now(k)' = Now(k) /\ Now(k) \in task[k].to /\ task[k].to \subseteq Receivers
  BY <1>1 DEF Now, TypeInv, Task
<1> QED  BY <1>1, <1>2 DEF TurnInv

\* An attempt at a receiver keeps what is said of what the receivers got.
LEMMA SendGot ==
    ASSUME TypeInv, TaskInv, PlaceInv, GotInv, [NoticeNext]_noticeVars,
           NEW k \in Batches, NEW r \in Receivers, SendOk(k, r) \/ SendFails(k, r)
    PROVE  GotInv'
<1> DEFINE F == task[k].files
           slept == [task EXCEPT ![k].pc = "sleep", ![k].sleep = Backoff(task[k].attempt)]
<1>a. /\ task \in [Batches -> Task] /\ task[k] \in Task
      /\ got \in [Receivers -> [Files -> Nat]]
  BY DEF TypeInv
<1>b. r = Now(k) /\ r \in task[k].to /\ Under(k) /\ task[k].pc = "send"
  BY TurnIs DEF SendOk, SendFails
<1>c. F \subseteq Files /\ task[k].to \subseteq Receivers /\ task[k].attempt \in Nat
  BY <1>a DEF Task
<1>d. bucket' = bucket /\ happened' = happened
  BY DEF SendOk, SendFails
<1>e. Attempts' = Attempts /\ Attempts \in Nat \ {0} /\ task[k].attempt <= Attempts
  BY <1>b, AttemptsStay, AttemptsAre DEF TaskInv, TaskFits
<1>1. \A x \in Receivers, f \in Files :
        /\ x # r \/ f \notin F => got'[x][f] = got[x][f]
        /\ f \in doubted[x] => f \in doubted'[x]
        /\ f \in excused[x] => f \in excused'[x]
  BY SendStep
<1>2. \A f \in F : /\ got'[r][f] <= task[k].attempt
                   /\ got'[r][f] > 1 => f \in doubted'[r]
                   /\ got[r][f] > 0 => got'[r][f] > 0
  BY SendStep
<1>3. \/ /\ task' = [task EXCEPT ![k] = NextReceiver(k, r)]
         /\ \A f \in F : got'[r][f] > 0 \/ f \in excused'[r]
      \/ task' = slept /\ \A f \in F : got'[r][f] > 0 => f \in doubted'[r]
  BY SendStep
<1>4. \A l \in Batches : l # k => task'[l] = task[l]
  BY <1>3, <1>a
<1>5. task'[k].pc # "select"
  <2>1. NextReceiver(k, r).pc # "select"
    BY <1>a DEF NextReceiver, NoTask, Task
  <2>2. task' = slept => task'[k].pc = "sleep"
    BY <1>a DEF Task
  <2> QED  BY <1>3, <1>a, <2>1, <2>2
<1>6. UnsentInv'
  <2> SUFFICES ASSUME NEW f \in Files, Unsent(f)', NEW x \in Receivers PROVE got'[x][f] = 0
    BY DEF UnsentInv
  <2>1. Unsent(f) /\ f \notin F
    <3>1. CASE f \notin happened
      BY <3>1 DEF Unsent, PlaceInv
    <3>2. CASE \E b \in Buckets : f \in bucket[b]
      BY <3>2 DEF Unsent, PlaceInv
    <3>3. ASSUME NEW l \in Batches, task'[l].pc = "select", f \in task'[l].files
          PROVE  Unsent(f) /\ f \notin F
      <4>1. l # k /\ task[l].pc = "select" /\ f \in task[l].files
        BY <1>4, <1>5, <3>3
      <4> QED  BY <4>1 DEF Unsent, PlaceInv
    <3> QED  BY <1>d, <3>1, <3>2, <3>3 DEF Unsent
  <2> QED  BY <1>1, <2>1 DEF GotInv, UnsentInv
<1>7. ASSUME NEW l \in Batches, l # k PROVE TurnInv(l)'
  <2>1. task'[l] = task[l]
    BY <1>4, <1>7
  <2>2. \A f \in task[l].files : f \in Files /\ f \notin F
    BY <1>7, <1>a DEF PlaceInv, Task
  <2>3. Under(l)' => Under(l) /\ Sent(l)' = Sent(l)
    BY <2>1 DEF Under, Sent
  <2>4. task[l].to # {} \/ ~Under(l)
    BY DEF TaskInv, TaskFits, Under
  <2>5. TurnInv(l)
    BY DEF GotInv
  <2>6. \A f \in task[l].files, x \in Receivers :
          /\ got'[x][f] = got[x][f]
          /\ f \in doubted[x] => f \in doubted'[x]
          /\ f \in excused[x] => f \in excused'[x]
    BY <1>1, <2>2
  <2>7. Under(l)' => /\ Under(l) /\ task'[l].files \subseteq task[l].files
                     /\ task'[l].to = task[l].to /\ Sent(l)' = Sent(l)
    BY <2>1, <2>3
  <2> QED  BY <2>4, <2>5, <2>6, <2>7, TurnKept
<1>8. TurnInv(k)'
  <2>0. \A f \in F : /\ \A x \in task[k].to : x # r => got[x][f] = 0
                     /\ \A x \in Receivers \ task[k].to : got[x][f] > 0 \/ f \in excused[x]
    BY <1>b DEF GotInv, TurnInv
  <2>1. CASE task' = slept /\ \A f \in F : got'[r][f] > 0 => f \in doubted'[r]
    <3>1. /\ task'[k].pc = "sleep" /\ task'[k].files = F /\ task'[k].to = task[k].to
          /\ task'[k].attempt = task[k].attempt
      BY <1>a, <2>1 DEF Task
    <3>2. Now(k)' = r /\ Sent(k)' = task[k].attempt
      BY <1>b, <3>1 DEF Now, Sent
    <3>3. \A x \in Receivers, f \in F : x # r =>
            got'[x][f] = got[x][f] /\ (f \in excused[x] => f \in excused'[x])
      BY <1>1, <1>c
    <3>4. ASSUME NEW f \in F
          PROVE  /\ \A x \in task[k].to : x # r => got'[x][f] = 0
                 /\ got'[r][f] <= task[k].attempt
                 /\ got'[r][f] > 0 => f \in doubted'[r]
                 /\ \A x \in Receivers \ task[k].to : got'[x][f] > 0 \/ f \in excused'[x]
      BY <1>2, <1>b, <1>c, <2>0, <2>1, <3>3
    <3> QED  BY <3>1, <3>2, <3>4 DEF TurnInv
  <2>2. CASE /\ task' = [task EXCEPT ![k] = NextReceiver(k, r)]
             /\ \A f \in F : got'[r][f] > 0 \/ f \in excused'[r]
    <3>1. CASE task[k].to = {r}
      <4>1. task'[k] = NoTask
        BY <1>a, <2>2, <3>1 DEF NextReceiver
      <4> QED  BY <4>1 DEF TurnInv, Under, NoTask
    <3>2. CASE task[k].to # {r}
      <4>1. /\ task'[k].pc = "send" /\ task'[k].files = F /\ task'[k].to = task[k].to \ {r}
            /\ task'[k].attempt = 1
        BY <1>a, <2>2, <3>2 DEF NextReceiver, Task
      <4>2. Sent(k)' = 0
        BY <4>1 DEF Sent
      <4>3. Now(k)' \in task[k].to \ {r}
        BY <3>2, <1>b, <4>1 DEF Now
      <4>4. \A x \in Receivers, f \in F : x # r =>
              got'[x][f] = got[x][f] /\ (f \in excused[x] => f \in excused'[x])
        BY <1>1, <1>c
      <4>5. \A f \in F, x \in task[k].to \ {r} : got'[x][f] = 0
        BY <1>c, <2>0, <4>4
      <4>6. \A f \in F, x \in Receivers \ (task[k].to \ {r}) : got'[x][f] > 0 \/ f \in excused'[x]
        BY <1>c, <2>0, <2>2, <4>4
      <4> QED  BY <4>1, <4>2, <4>3, <4>5, <4>6 DEF TurnInv
    <3> QED  BY <3>1, <3>2
  <2> QED  BY <1>3, <2>1, <2>2
<1>9. GotFits'
  <2> SUFFICES ASSUME NEW x \in Receivers, NEW f \in Files PROVE got'[x][f] <= Attempts
    BY <1>e DEF GotFits
  <2>1. CASE x # r \/ f \notin F
    BY <1>1, <2>1 DEF GotInv, GotFits
  <2>2. CASE x = r /\ f \in F
    <3>1. got' \in [Receivers -> [Files -> Nat]]
      BY TypeNext DEF TypeInv
    <3>2. PICK n \in Nat : n = got'[r][f]
      BY <3>1
    <3> QED  BY <1>2, <1>c, <1>e, <2>2, <3>2
  <2> QED  BY <2>1, <2>2
<1>10. TwiceOnlyWhenUnanswered'
  BY <1>1, <1>2 DEF GotInv, TwiceOnlyWhenUnanswered
<1> QED  BY <1>6, <1>7, <1>8, <1>9, <1>10 DEF GotInv

\* What the receivers got stays right when nobody sends, tasks keep their turns and no file
\* becomes unsent that was not.
LEMMA GotKept ==
    ASSUME TypeInv, TaskInv, GotInv, [NoticeNext]_noticeVars,
           UNCHANGED toldVars,
           \A f \in Files : Unsent(f)' => Unsent(f),
           \A k \in Batches : Under(k)' => /\ Under(k) /\ task'[k].files \subseteq task[k].files
                                         /\ task'[k].to = task[k].to /\ Sent(k)' = Sent(k)
    PROVE  GotInv'
<1>1. got' = got /\ doubted' = doubted /\ excused' = excused /\ Attempts' = Attempts
  BY AttemptsStay DEF toldVars
<1>2. UnsentInv' /\ GotFits' /\ TwiceOnlyWhenUnanswered'
  BY <1>1 DEF GotInv, UnsentInv, GotFits, TwiceOnlyWhenUnanswered
<1>3. ASSUME NEW k \in Batches PROVE TurnInv(k)'
  <2>1. TurnInv(k) /\ (task[k].to # {} \/ ~Under(k))
    BY DEF GotInv, TaskInv, TaskFits, Under
  <2>2. \A f \in task[k].files, x \in Receivers :
          /\ got'[x][f] = got[x][f]
          /\ f \in doubted[x] => f \in doubted'[x]
          /\ f \in excused[x] => f \in excused'[x]
    BY <1>1
  <2> QED  BY <2>1, <2>2, TurnKept
<1> QED  BY <1>2, <1>3 DEF GotInv

LEMMA GotNext ==
    TypeInv /\ TimerInv /\ TaskInv /\ PlaceInv /\ GotInv /\ [NoticeNext]_noticeVars => GotInv'
<1> SUFFICES ASSUME TypeInv, TimerInv, TaskInv, PlaceInv, GotInv, [NoticeNext]_noticeVars
             PROVE  GotInv'
  OBVIOUS
<1>a. task \in [Batches -> Task] /\ \A k \in Batches : task[k] \in Task
  BY DEF TypeInv
<1>1. ASSUME NEW b \in Buckets, NEW g \in Files, EnqueueBatch(b, g) PROVE GotInv'
  <2>1. ASSUME NEW f \in Files, Unsent(f)' PROVE Unsent(f)
    <3>1. f = g \/ \A c \in Buckets : f \in bucket'[c] => f \in bucket[c]
      BY <1>1 DEF EnqueueBatch, TypeInv
    <3> QED  BY <1>1, <2>1, <3>1 DEF EnqueueBatch, Unsent
  <2>2. UNCHANGED <<toldVars, task>>
    BY <1>1 DEF EnqueueBatch
  <2>3. \A k \in Batches : Under(k)' => /\ Under(k) /\ task'[k].files \subseteq task[k].files
                                      /\ task'[k].to = task[k].to /\ Sent(k)' = Sent(k)
    BY <2>2 DEF Under, Sent
  <2> QED  BY <2>1, <2>2, <2>3, GotKept
<1>2. ASSUME SecondPasses PROVE GotInv'
  <2>1. ASSUME NEW k \in Batches
        PROVE  /\ task'[k].pc = task[k].pc /\ task'[k].files = task[k].files
               /\ task'[k].to = task[k].to /\ task'[k].attempt = task[k].attempt
    BY <1>2, <1>a DEF SecondPasses, Task
  <2>2. \A f \in Files : Unsent(f)' => Unsent(f)
    BY <1>2, <2>1 DEF SecondPasses, Unsent
  <2>3. \A k \in Batches : Under(k)' => /\ Under(k) /\ task'[k].files \subseteq task[k].files
                                      /\ task'[k].to = task[k].to /\ Sent(k)' = Sent(k)
    BY <2>1 DEF Under, Sent
  <2> QED  BY <1>2, <2>2, <2>3, GotKept DEF SecondPasses
<1>3. ASSUME NEW b \in Buckets, NEW k \in Batches, FlushBatch(b, k) PROVE GotInv'
  <2>1. /\ task'[k].pc = "select" /\ task'[k].files = bucket[b]
        /\ \A l \in Batches : l # k => task'[l] = task[l]
    BY <1>3, <1>a DEF FlushBatch, NoTask, Taken
  <2>2. \A c \in Buckets : bucket'[c] \subseteq bucket[c]
    BY <1>3 DEF FlushBatch, TypeInv
  <2>3. ASSUME NEW f \in Files, Unsent(f)' PROVE Unsent(f)
    BY <1>3, <2>1, <2>2, <2>3 DEF FlushBatch, Unsent
  <2>4. \A l \in Batches : Under(l)' => /\ Under(l) /\ task'[l].files \subseteq task[l].files
                                      /\ task'[l].to = task[l].to /\ Sent(l)' = Sent(l)
    BY <2>1 DEF Under, Sent
  <2> QED  BY <1>3, <2>3, <2>4, GotKept DEF FlushBatch
<1>4. ASSUME NEW k \in Batches, SelectReceivers(k) PROVE GotInv'
  <2> DEFINE to == {r \in Receivers : Subscribed(r)}
  <2>1. /\ to = {} => task'[k].pc = "free"
        /\ to # {} => /\ task'[k].pc = "send" /\ task'[k].files = task[k].files
                      /\ task'[k].to = to /\ task'[k].attempt = 1
    <3>1. task[k] \in Task /\ k \in DOMAIN task
      BY <1>a
    <3>2. to # {} => task'[k] = [task[k] EXCEPT !.pc = "send", !.to = to, !.attempt = 1]
      BY <1>4, <3>1 DEF SelectReceivers
    <3>3. to = {} => task'[k] = NoTask
      BY <1>4, <3>1 DEF SelectReceivers
    <3>4. \A s : LET t == [task[k] EXCEPT !.pc = "send", !.to = s, !.attempt = 1]
                 IN  t.pc = "send" /\ t.files = task[k].files /\ t.to = s /\ t.attempt = 1
      BY <3>1 DEF Task
    <3>5. to = {} => task'[k].pc = "free"
      BY <3>3 DEF NoTask
    <3> HIDE DEF to
    <3>6. to # {} => /\ task'[k].pc = "send" /\ task'[k].files = task[k].files
                    /\ task'[k].to = to /\ task'[k].attempt = 1
      BY <3>2, <3>4
    <3> QED  BY <3>5, <3>6
  <2>2. \A l \in Batches : l # k => task'[l] = task[l]
    BY <1>4, <1>a DEF SelectReceivers
  <2>3. /\ got' = got /\ doubted' = doubted /\ bucket' = bucket /\ happened' = happened
        /\ task[k].pc = "select"
        /\ \A x \in Receivers : excused'[x] = IF x \in to THEN excused[x]
                                              ELSE excused[x] \cup task[k].files
    BY <1>4 DEF SelectReceivers
  <2>4. task'[k].pc # "select"
    BY <2>1
  <2>5. \A f \in Files : Unsent(f)' => Unsent(f)
    BY <2>2, <2>3, <2>4 DEF Unsent
  <2>6. \A f \in task[k].files : f \in Files /\ \A x \in Receivers : got[x][f] = 0
    BY <1>a, <2>3 DEF GotInv, UnsentInv, Unsent, Task
  <2>7. TurnInv(k)'
    <3>1. CASE to = {}
      <4>1. task'[k].pc = "free"
        BY <2>1, <3>1
      <4> QED  BY <4>1 DEF TurnInv, Under
    <3>2. CASE to # {}
      <4>1. /\ task'[k].pc = "send" /\ task'[k].files = task[k].files /\ task'[k].to = to
            /\ task'[k].attempt = 1
        BY <2>1, <3>2
      <4>2. Sent(k)' = 0 /\ Now(k)' \in to
        BY <3>2, <4>1 DEF Sent, Now
      <4>3. \A f \in task[k].files, x \in Receivers \ to : f \in excused'[x]
        BY <2>3
      <4> QED  BY <2>3, <2>6, <4>1, <4>2, <4>3 DEF TurnInv
    <3> QED  BY <3>1, <3>2
  <2>8. ASSUME NEW l \in Batches, l # k PROVE TurnInv(l)'
    <3>1. TurnInv(l) /\ (task[l].to # {} \/ ~Under(l)) /\ task'[l] = task[l]
      BY <2>2, <2>8 DEF GotInv, TaskInv, TaskFits, Under
    <3>2. \A f \in task[l].files, x \in Receivers :
            /\ got'[x][f] = got[x][f]
            /\ f \in doubted[x] => f \in doubted'[x]
            /\ f \in excused[x] => f \in excused'[x]
      BY <2>3
    <3>3. Under(l)' => /\ Under(l) /\ task'[l].files \subseteq task[l].files
                       /\ task'[l].to = task[l].to /\ Sent(l)' = Sent(l)
      BY <3>1 DEF Under, Sent
    <3> QED  BY <3>1, <3>2, <3>3, TurnKept
  <2>9. UnsentInv' /\ GotFits' /\ TwiceOnlyWhenUnanswered'
    BY <2>3, <2>5, AttemptsStay DEF GotInv, UnsentInv, GotFits, TwiceOnlyWhenUnanswered
  <2> QED  BY <2>7, <2>8, <2>9 DEF GotInv
<1>5. ASSUME NEW k \in Batches, SendAgain(k) PROVE GotInv'
  <2>1. /\ task'[k].pc = "send" /\ task'[k].files = task[k].files /\ task'[k].to = task[k].to
        /\ task'[k].attempt = task[k].attempt + 1 /\ task[k].pc = "sleep"
        /\ \A l \in Batches : l # k => task'[l] = task[l]
    BY <1>5, <1>a DEF SendAgain, Task
  <2>2. Sent(k)' = Sent(k) /\ Under(k)
    <3>1. PICK n \in Nat : n = task[k].attempt
      BY <1>a DEF Task
    <3> QED  BY <2>1, <3>1 DEF Sent, Under
  <2>3. \A l \in Batches : Under(l)' => /\ Under(l) /\ task'[l].files \subseteq task[l].files
                                      /\ task'[l].to = task[l].to /\ Sent(l)' = Sent(l)
    BY <2>1, <2>2 DEF Under, Sent
  <2>4. \A f \in Files : Unsent(f)' => Unsent(f)
    BY <1>5, <2>1 DEF SendAgain, Unsent
  <2> QED  BY <1>5, <2>3, <2>4, GotKept DEF SendAgain
<1>6. ASSUME NEW k \in Batches, NEW r \in Receivers, SendOk(k, r) \/ SendFails(k, r)
      PROVE  GotInv'
  BY <1>6, SendGot
<1>7. ASSUME BackendStops PROVE GotInv'
  <2>1. \A k \in Batches : task'[k].pc = "free"
    BY <1>7 DEF BackendStops, NoTask
  <2>2. \A f \in Files : Unsent(f)' => Unsent(f)
    BY <1>7, <2>1 DEF BackendStops, Unsent
  <2> QED  BY <1>7, <2>1, <2>2, GotKept DEF BackendStops, Under
<1>8. ASSUME NEW k \in Batches, SelectFails(k) PROVE GotInv'
  <2>1. task'[k].pc = "free" /\ \A l \in Batches : l # k => task'[l] = task[l]
    BY <1>8, <1>a DEF SelectFails, NoTask
  <2>2. \A f \in Files : Unsent(f)' => Unsent(f)
    BY <1>8, <2>1 DEF SelectFails, Unsent
  <2>3. \A l \in Batches : Under(l)' => /\ Under(l) /\ task'[l].files \subseteq task[l].files
                                      /\ task'[l].to = task[l].to /\ Sent(l)' = Sent(l)
    BY <2>1 DEF Under, Sent
  <2> QED  BY <1>8, <2>2, <2>3, GotKept DEF SelectFails
<1>9. ASSUME UNCHANGED <<bucket, task, happened, toldVars>> PROVE GotInv'
  <2>1. \A k \in Batches : Under(k)' => /\ Under(k) /\ task'[k].files \subseteq task[k].files
                                      /\ task'[k].to = task[k].to /\ Sent(k)' = Sent(k)
    BY <1>9 DEF Under, Sent
  <2>2. \A f \in Files : Unsent(f)' => Unsent(f)
    BY <1>9 DEF Unsent
  <2> QED  BY <1>9, <2>1, <2>2, GotKept
<1> QED
  BY <1>1, <1>2, <1>3, <1>4, <1>5, <1>6, <1>7, <1>8, <1>9
  DEF NoticeNext, NoticeWork, noticeVars, SwitchReceiver, SwitchProvider, toldVars

\* A file that leaves its task has been brought to everyone; what a restart or a failed read takes
\* is dropped.
LEMMA ToldNext ==
    /\ TypeInv /\ TimerInv /\ TaskInv /\ PlaceInv /\ GotInv /\ EveryFileIsTold
    /\ [NoticeNext]_noticeVars
    => EveryFileIsTold'
<1> SUFFICES ASSUME TypeInv, TimerInv, TaskInv, PlaceInv, GotInv, EveryFileIsTold,
                    [NoticeNext]_noticeVars, NEW f \in happened' \ dropped', ~Pending(f)'
             PROVE  \A x \in Receivers : got'[x][f] > 0 \/ f \in excused'[x]
  BY DEF EveryFileIsTold
<1>a. task \in [Batches -> Task] /\ happened' \subseteq Files
  BY TypeNext DEF TypeInv
<1>b. f \in Files
  BY <1>a
<1>1. ASSUME NEW b \in Buckets, NEW g \in Files, EnqueueBatch(b, g) PROVE f \in happened /\ f # g
  BY <1>1 DEF EnqueueBatch, TypeInv, Pending
<1>2. f \in happened \ dropped
  <2>1. ~(\E b \in Buckets, g \in Files : EnqueueBatch(b, g)) => happened' = happened
    BY DEF NoticeNext, NoticeWork, noticeVars, SecondPasses, FlushBatch, SelectReceivers,
           SelectFails, SendAgain, SendOk, SendFails, SwitchReceiver, SwitchProvider, BackendStops
  <2>2. dropped \subseteq dropped'
    BY DEF NoticeNext, NoticeWork, noticeVars, EnqueueBatch, SecondPasses, FlushBatch,
           SelectReceivers, SelectFails, SendAgain, SendOk, SendFails, SwitchReceiver,
           SwitchProvider, BackendStops
  <2> QED  BY <1>1, <2>1, <2>2
<1>3. \A x \in Receivers : /\ got[x][f] > 0 => got'[x][f] > 0
                           /\ f \in excused[x] => f \in excused'[x]
  <2>1. ASSUME NEW k \in Batches, SelectReceivers(k)
        PROVE  got' = got /\ \A x \in Receivers : f \in excused[x] => f \in excused'[x]
    BY <2>1 DEF SelectReceivers
  <2>2. ASSUME NEW k \in Batches, NEW r \in Receivers, SendOk(k, r) \/ SendFails(k, r),
               NEW x \in Receivers
        PROVE  /\ got[x][f] > 0 => got'[x][f] > 0
               /\ f \in excused[x] => f \in excused'[x]
    BY <1>b, <2>2, SendStep
  <2>3. UNCHANGED <<got, excused>>
        \/ (\E k \in Batches : SelectReceivers(k))
        \/ (\E k \in Batches, r \in Receivers : SendOk(k, r) \/ SendFails(k, r))
    BY DEF NoticeNext, NoticeWork, noticeVars, EnqueueBatch, SecondPasses, FlushBatch, SelectFails,
           SendAgain, SwitchReceiver, SwitchProvider, BackendStops, toldVars
  <2> QED  BY <2>1, <2>2, <2>3
<1>4. CASE ~Pending(f)
  BY <1>2, <1>3, <1>4 DEF EveryFileIsTold
<1>5. CASE \E b \in Buckets : f \in bucket[b]
  <2>1. PICK b \in Buckets : f \in bucket[b]
    BY <1>5
  <2>2. f \notin bucket'[b]
    BY DEF Pending
  <2>3. ASSUME NEW c \in Buckets, NEW k \in Batches, FlushBatch(c, k) PROVE FALSE
    <3>1. bucket'[b] = bucket[b] \/ task'[k].files = bucket[b]
      BY <2>3, <1>a DEF FlushBatch, TypeInv, NoTask, Taken
    <3> QED  BY <2>1, <3>1 DEF Pending
  <2>4. ASSUME NEW c \in Buckets, NEW g \in Files, EnqueueBatch(c, g) PROVE FALSE
    BY <2>1, <2>2, <2>4 DEF EnqueueBatch, TypeInv
  <2>5. ASSUME BackendStops PROVE FALSE
    BY <1>5, <1>b, <2>5 DEF BackendStops, Pending
  <2> QED
    BY <2>1, <2>2, <2>3, <2>4, <2>5
    DEF NoticeNext, NoticeWork, noticeVars, SecondPasses, SelectReceivers, SelectFails, SendAgain,
        SendOk, SendFails, SwitchReceiver, SwitchProvider
<1>6. ASSUME NEW k \in Batches, f \in task[k].files
      PROVE  \A x \in Receivers : got'[x][f] > 0 \/ f \in excused'[x]
  <2>0. f \notin task'[k].files
    BY DEF Pending
  <2>1. ASSUME SecondPasses PROVE FALSE
    BY <2>0, <2>1, <1>6, <1>a DEF SecondPasses, Task
  <2>2. ASSUME NEW b \in Buckets, NEW l \in Batches, FlushBatch(b, l) PROVE FALSE
    <3>1. task[l].files = {}
      BY <2>2 DEF FlushBatch, TaskInv, TaskFits
    <3> QED  BY <2>0, <2>2, <3>1, <1>6, <1>a DEF FlushBatch
  <2>3. ASSUME NEW l \in Batches, SelectReceivers(l)
        PROVE  \A x \in Receivers : f \in excused'[x]
    <3>1. l = k
      BY <2>0, <2>3, <1>6, <1>a DEF SelectReceivers
    <3>2. {r \in Receivers : Subscribed(r)} = {}
      BY <2>0, <2>3, <3>1, <1>6, <1>a DEF SelectReceivers, Task
    <3> QED  BY <2>3, <3>1, <3>2, <1>6 DEF SelectReceivers
  <2>4. ASSUME NEW l \in Batches, SendAgain(l) PROVE FALSE
    BY <2>0, <2>4, <1>6, <1>a DEF SendAgain, Task
  <2>5. ASSUME NEW l \in Batches, NEW r \in Receivers, SendOk(l, r) \/ SendFails(l, r)
        PROVE  \A x \in Receivers : got'[x][f] > 0 \/ f \in excused'[x]
    <3>1. r = Now(l) /\ r \in task[l].to /\ Under(l) /\ task[l] \in Task
      BY <2>5, <1>a, TurnIs DEF SendOk, SendFails
    <3>2. \/ /\ task' = [task EXCEPT ![l] = NextReceiver(l, r)]
             /\ \A g \in task[l].files : got'[r][g] > 0 \/ g \in excused'[r]
          \/ task' = [task EXCEPT ![l].pc = "sleep", ![l].sleep = Backoff(task[l].attempt)]
      BY <2>5, SendStep
    <3>3. l = k
      <4>1. l # k => task'[k] = task[k]
        BY <3>2, <1>a
      <4> QED  BY <2>0, <4>1, <1>6
    <3>4. task' = [task EXCEPT ![k] = NextReceiver(k, r)] /\ task[k].to = {r}
      <4>1. task' = [task EXCEPT ![k].pc = "sleep", ![k].sleep = Backoff(task[k].attempt)]
              => task'[k].files = task[k].files
        BY <1>a DEF Task
      <4>2. task' = [task EXCEPT ![k] = NextReceiver(k, r)]
        BY <2>0, <3>2, <3>3, <4>1, <1>6
      <4>3. task'[k] = NextReceiver(k, r)
        BY <4>2, <1>a
      <4>4. task[k].to # {r} => NextReceiver(k, r).files = task[k].files
        BY <1>a DEF NextReceiver, Task
      <4> QED  BY <2>0, <4>2, <4>3, <4>4, <1>6
    <3>5. \A x \in Receivers \ {r} : got[x][f] > 0 \/ f \in excused[x]
      BY <3>1, <3>3, <3>4, <1>6 DEF GotInv, TurnInv
    <3>6. got'[r][f] > 0 \/ f \in excused'[r]
      BY <2>0, <3>2, <3>3, <1>6, <1>a DEF Task
    <3> QED  BY <1>3, <3>5, <3>6
  <2>6. ASSUME BackendStops PROVE FALSE
    BY <1>6, <1>b, <2>6 DEF BackendStops, Pending
  <2>7. ASSUME NEW l \in Batches, SelectFails(l) PROVE FALSE
    <3>1. l = k
      BY <2>0, <2>7, <1>6, <1>a DEF SelectFails
    <3> QED  BY <2>7, <3>1, <1>6 DEF SelectFails
  <2> QED
    BY <2>0, <2>1, <2>2, <2>3, <2>4, <2>5, <2>6, <2>7, <1>6
    DEF NoticeNext, NoticeWork, noticeVars, EnqueueBatch, SwitchReceiver, SwitchProvider
<1> QED  BY <1>4, <1>5, <1>6 DEF Pending

-----------------------------------------------------------------------------
(* Theorems                                                                *)

LEMMA InitRight == NoticeInit => NoticeInv
<1> SUFFICES ASSUME NoticeInit PROVE NoticeInv
  OBVIOUS
<1>1. TypeInv
  BY TypeInit
<1>2. TimerInv /\ TaskInv /\ PlaceInv
  BY AttemptsAre DEF NoticeInit, TimerInv, TaskInv, TaskFits, PlaceInv, NoTask, Unset
<1>3. \A r \in Receivers, f \in Files : got[r][f] = 0
  BY DEF NoticeInit
<1>4. \A k \in Batches : ~Under(k)
  BY DEF NoticeInit, NoTask, Under
<1>5. GotInv
  BY <1>3, <1>4, AttemptsAre
  DEF GotInv, UnsentInv, TurnInv, GotFits, TwiceOnlyWhenUnanswered
<1>6. EveryFileIsTold
  BY DEF NoticeInit, EveryFileIsTold
<1> QED  BY <1>1, <1>2, <1>5, <1>6 DEF NoticeInv

\* Everything above holds in every state.
THEOREM NoticeInvariant == NoticeSpec => []NoticeInv
<1>1. NoticeInit => NoticeInv
  BY InitRight
<1>2. NoticeInv /\ [NoticeNext]_noticeVars => NoticeInv'
  BY TypeNext, TimerNext, TaskNext, PlaceNext, GotNext, ToldNext DEF NoticeInv
<1> QED  BY <1>1, <1>2, PTL DEF NoticeSpec

\* Every variable has its type, a bucket has files exactly while its timer runs, and a receiver
\* gets a file at most once for each attempt (_enqueue_batch, _flush_batch, _send_webhook).
THEOREM NoticeTypes == NoticeSpec => []NoticeTypeOK
<1>1. NoticeInv => NoticeTypeOK
  <2> SUFFICES ASSUME NoticeInv PROVE NoticeTypeOK
    OBVIOUS
  <2>1. ASSUME NEW k \in Batches
        PROVE  /\ task[k].pc = "free" <=> task[k].files = {}
               /\ task[k].attempt \in 0..Attempts
    <3>1. task[k] \in Task /\ TaskFits(task[k])
      BY DEF NoticeInv, TypeInv, TaskInv
    <3> QED  BY <3>1, AttemptsAre DEF TaskFits, Task
  <2>2. \A r \in Receivers, f \in Files : got[r][f] \in 0..Attempts
    BY AttemptsAre DEF NoticeInv, TypeInv, GotInv, GotFits
  <2>3. \A b \in Buckets : /\ bucket[b] \subseteq happened /\ timer[b] \in 0..Unset
                           /\ timer[b] # Unset <=> bucket[b] # {}
    BY DEF NoticeInv, TypeInv, PlaceInv, TimerInv
  <2> QED  BY <2>1, <2>2, <2>3 DEF NoticeTypeOK
<1> QED  BY <1>1, NoticeInvariant, PTL

\* Whoever is enabled when the batch is sent is told of every file that no restart and no failed
\* read of the receivers dropped, or refused it each time, and gets it twice only when it did not
\* answer (_send_to_recipients, _dispatch, _send_webhook).
THEOREM ReceiversTold == NoticeSpec => []ReceiversAreTold
<1>1. NoticeInv => ReceiversAreTold
  BY DEF NoticeInv, GotInv, ReceiversAreTold
<1> QED  BY <1>1, NoticeInvariant, PTL
=============================================================================
