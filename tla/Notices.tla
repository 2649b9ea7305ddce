------------------------------ MODULE Notices ------------------------------
(***************************************************************************)
(* Mail and webhook notices (services/mail.py, services/webhook.py): the   *)
(* files of an event and a user are gathered until five seconds pass       *)
(* without another, then a task of its own sends them to every receiver.   *)
(* The two channels are copies of each other, but for the retries that     *)
(* only a webhook makes and the provider that only mail needs.  All of it  *)
(* is in the memory of the backend: what a task has taken is lost with it, *)
(* and so it is when the task cannot read whom to send it to.              *)
(***************************************************************************)
EXTENDS Naturals, FiniteSets

CONSTANTS
  Buckets,      \* pairs of an event and a user's name
  Files, Receivers,
  NoticeDelay,  \* _BATCH_DELAY
  Batches,      \* slots of tasks that send
  MaxAttempts,  \* _MAX_RETRIES
  MaxNetFaults, MaxSwitches, MaxBackendStops   \* bounds: faults, changes of settings, restarts

ASSUME NoticeAssumption == NoticeDelay \in Nat \ {0} /\ MaxAttempts \in Nat \ {0}

VARIABLES
  channel,      \* "mail" or "webhook"
  bucket,       \* _batch_buckets
  timer,        \* _batch_timers: what is left of the delay, or Unset
  quietFor,     \* history: time since the last file of the bucket, up to the delay
  task,         \* tasks: _send_to_recipients, _dispatch
  enabled,      \* receivers: the row is enabled and subscribed
  provider,     \* mail: the setting mail_provider is not empty
  netFaults, switches, stops,
  happened,     \* history: files an event was raised for
  dropped,      \* history: files whose notice a restart or a failed read of the receivers dropped
  got,          \* history: notices a receiver has of a file
  doubted,      \* history: files sent to a receiver without an answer
  excused       \* history: files a receiver was not to get, or that no attempt brought to it

noticeVars == <<channel, bucket, timer, quietFor, task, enabled, provider, netFaults, switches,
                stops, happened, dropped, got, doubted, excused>>
whoVars == <<enabled, provider>>
boundVars == <<netFaults, switches, stops>>
toldVars == <<got, doubted, excused>>

-----------------------------------------------------------------------------
Unset == NoticeDelay + 1
NoTask == [pc |-> "free", files |-> {}, to |-> {}, attempt |-> 0, sleep |-> 0]

Attempts == IF channel = "mail" THEN 1 ELSE MaxAttempts
Backoff(n) == 2 ^ n
NetFault == netFaults < MaxNetFaults /\ netFaults' = netFaults + 1

Pending(f) == (\E b \in Buckets : f \in bucket[b]) \/ (\E k \in Batches : f \in task[k].files)

-----------------------------------------------------------------------------
\* Mutant: a timer that runs is left to run.
LeftRunning(b) == IF timer[b] = Unset THEN NoticeDelay ELSE timer[b]

\* Mutant: the handle of a timer that fired is still there, and no new one is set.
HandleLeft(b) == IF happened # {} /\ bucket[b] = {} THEN Unset ELSE NoticeDelay

Restarted(b) == NoticeDelay

\* _enqueue_batch, of the request or the ingest that raised the event.
EnqueueBatch(b, f) ==
  /\ f \notin happened
  /\ happened' = happened \cup {f}
  /\ bucket' = [bucket EXCEPT ![b] = @ \cup {f}]
  /\ timer' = [timer EXCEPT ![b] = Restarted(b)]
  /\ quietFor' = [quietFor EXCEPT ![b] = 0]
  /\ UNCHANGED <<channel, task, whoVars, boundVars, dropped, toldVars>>

\* A second passes; what is due on the event loop comes first.
SecondPasses ==
  /\ \A b \in Buckets : timer[b] # 0
  /\ \A k \in Batches : task[k].pc = "sleep" => task[k].sleep > 0
  /\ (\E b \in Buckets : timer[b] # Unset) \/ (\E k \in Batches : task[k].pc = "sleep")
  /\ timer' = [b \in Buckets |-> IF timer[b] = Unset THEN Unset ELSE timer[b] - 1]
  /\ quietFor' = [b \in Buckets |-> IF quietFor[b] < NoticeDelay THEN quietFor[b] + 1
                                    ELSE quietFor[b]]
  /\ task' = [k \in Batches |-> IF task[k].pc = "sleep"
                                THEN [task[k] EXCEPT !.sleep = @ - 1] ELSE task[k]]
  /\ UNCHANGED <<channel, bucket, whoVars, boundVars, happened, dropped, toldVars>>

\* Mutant: what came after the timer was set stays in the bucket.
TakenFirst(b) == IF Cardinality(bucket[b]) > 1 THEN {CHOOSE f \in bucket[b] : TRUE} ELSE bucket[b]

Taken(b) == bucket[b]

\* _flush_batch: the bucket and its timer go, and a task is made.
FlushBatch(b, k) ==
  /\ timer[b] = 0 /\ task[k].pc = "free"
  /\ task' = [task EXCEPT ![k] = [NoTask EXCEPT !.pc = "select", !.files = Taken(b)]]
  /\ bucket' = [bucket EXCEPT ![b] = {}]
  /\ timer' = [timer EXCEPT ![b] = Unset]
  /\ UNCHANGED <<channel, quietFor, whoVars, boundVars, happened, dropped, toldVars>>

\* Mail goes to nobody as long as no provider is set.
Subscribed(r) == enabled[r] /\ (channel = "mail" => provider)

\* The receivers are read once.
SelectReceivers(k) ==
  /\ task[k].pc = "select"
  /\ LET to == {r \in Receivers : Subscribed(r)} IN
       /\ task' = [task EXCEPT ![k] = IF to = {} THEN NoTask
                                      ELSE [@ EXCEPT !.pc = "send", !.to = to, !.attempt = 1]]
       /\ excused' = [r \in Receivers |-> IF r \in to THEN excused[r]
                                          ELSE excused[r] \cup task[k].files]
  /\ UNCHANGED <<channel, bucket, timer, quietFor, whoVars, boundVars, happened, dropped, got,
                 doubted>>

\* The read raises, and with it the task ends that has the batch.
SelectFails(k) ==
  /\ task[k].pc = "select" /\ NetFault
  /\ task' = [task EXCEPT ![k] = NoTask]
  /\ dropped' = dropped \cup task[k].files
  /\ UNCHANGED <<channel, bucket, timer, quietFor, whoVars, switches, stops, happened, toldVars>>

\* Mutant: the same receiver once more.
SameReceiver(k, r) == [task[k] EXCEPT !.pc = "send", !.attempt = 1]

NextReceiver(k, r) ==
  IF task[k].to = {r} THEN NoTask
  ELSE [task[k] EXCEPT !.pc = "send", !.to = @ \ {r}, !.attempt = 1]

Delivered(k, r) ==
  [got EXCEPT ![r] = [f \in Files |-> IF f \in task[k].files THEN @[f] + 1 ELSE @[f]]]

\* The receivers one after the other, in the order of the rows.
Turn(k, r) == task[k].pc = "send" /\ r = CHOOSE x \in task[k].to : TRUE

SendOk(k, r) ==
  /\ Turn(k, r)
  /\ got' = Delivered(k, r)
  /\ task' = [task EXCEPT ![k] = NextReceiver(k, r)]
  /\ UNCHANGED <<channel, bucket, timer, quietFor, whoVars, boundVars, happened, dropped, doubted,
                 excused>>

\* Mutant: the attempt after the last one too.
OneMore(k) == task[k].attempt <= Attempts

TriesAgain(k) == task[k].attempt < Attempts

\* An error of the receiver, or no answer, with the notice taken or not.
SendFails(k, r) ==
  /\ Turn(k, r) /\ NetFault
  /\ \E taken \in BOOLEAN :
       /\ got' = IF taken THEN Delivered(k, r) ELSE got
       /\ doubted' = IF taken THEN [doubted EXCEPT ![r] = @ \cup task[k].files] ELSE doubted
  /\ IF TriesAgain(k)
     THEN /\ task' = [task EXCEPT ![k].pc = "sleep", ![k].sleep = Backoff(task[k].attempt)]
          /\ UNCHANGED excused
     ELSE /\ task' = [task EXCEPT ![k] = NextReceiver(k, r)]
          /\ excused' = [excused EXCEPT ![r] = @ \cup task[k].files]
  /\ UNCHANGED <<channel, bucket, timer, quietFor, whoVars, switches, stops, happened, dropped>>

SendAgain(k) ==
  /\ task[k].pc = "sleep" /\ task[k].sleep = 0
  /\ task' = [task EXCEPT ![k].pc = "send", ![k].attempt = @ + 1]
  /\ UNCHANGED <<channel, bucket, timer, quietFor, whoVars, boundVars, happened, dropped, toldVars>>

-----------------------------------------------------------------------------
\* routers/mail.py, routers/webhooks.py: a receiver is enabled or disabled.
SwitchReceiver(r) ==
  /\ switches < MaxSwitches /\ switches' = switches + 1
  /\ enabled' = [enabled EXCEPT ![r] = ~@]
  /\ UNCHANGED <<channel, bucket, timer, quietFor, task, provider, netFaults, stops, happened,
                 dropped, toldVars>>

\* routers/settings.py: mail is set up or turned off.
SwitchProvider ==
  /\ channel = "mail" /\ switches < MaxSwitches /\ switches' = switches + 1
  /\ provider' = ~provider
  /\ UNCHANGED <<channel, bucket, timer, quietFor, task, enabled, netFaults, stops, happened,
                 dropped, toldVars>>

\* Nothing of this survives the backend.
BackendStops ==
  /\ stops < MaxBackendStops /\ stops' = stops + 1
  /\ dropped' = dropped \cup {f \in Files : Pending(f)}
  /\ bucket' = [b \in Buckets |-> {}] /\ timer' = [b \in Buckets |-> Unset]
  /\ task' = [k \in Batches |-> NoTask]
  /\ UNCHANGED <<channel, quietFor, whoVars, netFaults, switches, happened, toldVars>>

-----------------------------------------------------------------------------
NoticeInit ==
  /\ channel \in {"mail", "webhook"}
  /\ provider \in (IF channel = "mail" THEN BOOLEAN ELSE {FALSE})
  /\ bucket = [b \in Buckets |-> {}] /\ timer = [b \in Buckets |-> Unset]
  /\ quietFor = [b \in Buckets |-> NoticeDelay]
  /\ task = [k \in Batches |-> NoTask] /\ enabled = [r \in Receivers |-> TRUE]
  /\ netFaults = 0 /\ switches = 0 /\ stops = 0
  /\ happened = {} /\ dropped = {}
  /\ got = [r \in Receivers |-> [f \in Files |-> 0]]
  /\ doubted = [r \in Receivers |-> {}] /\ excused = [r \in Receivers |-> {}]

NoticeWork ==
  \/ SecondPasses
  \/ \E b \in Buckets, k \in Batches : FlushBatch(b, k)
  \/ \E k \in Batches : SelectReceivers(k) \/ SendAgain(k)
  \/ \E k \in Batches, r \in Receivers : SendOk(k, r) \/ SendFails(k, r)

NoticeNext ==
  \/ NoticeWork
  \/ \E b \in Buckets, f \in Files : EnqueueBatch(b, f)
  \/ \E k \in Batches : SelectFails(k)
  \/ (\E r \in Receivers : SwitchReceiver(r)) \/ SwitchProvider
  \/ BackendStops

\* The event loop runs what is due.
NoticeSpec == NoticeInit /\ [][NoticeNext]_noticeVars /\ WF_noticeVars(NoticeWork)

-----------------------------------------------------------------------------
(* Properties                                                              *)

\* Every variable has its type, a bucket has files exactly while its timer runs, and a receiver
\* never gets a file more often than there are attempts (_enqueue_batch, _flush_batch).
NoticeTypeOK ==
  /\ \A b \in Buckets : bucket[b] \subseteq happened /\ timer[b] \in 0..Unset
  /\ \A b \in Buckets : timer[b] # Unset <=> bucket[b] # {}
  /\ \A k \in Batches : task[k].pc = "free" <=> task[k].files = {}
  /\ \A k \in Batches : task[k].attempt \in 0..Attempts
  /\ \A r \in Receivers, f \in Files : got[r][f] \in 0..Attempts

\* A file an event was raised for is on its way, or every receiver that was enabled when its batch
\* was sent, with a provider if it is mail, has it or refused it each time.  A restart drops what is
\* on its way, and a read of the receivers that fails the batch that was taken, without a trace.
EveryFileIsTold ==
  \A f \in happened \ dropped : Pending(f) \/
    \A r \in Receivers : got[r][f] > 0 \/ f \in excused[r]

\* A receiver that gets a file twice did not answer the first time (_send_webhook).
TwiceOnlyWhenUnanswered ==
  \A r \in Receivers, f \in Files : got[r][f] > 1 => f \in doubted[r]

\* A batch is sent when the whole delay has passed without another file of its bucket, never
\* earlier (the timer is set anew by each file).
BatchWaitsForQuiet ==
  [][\A b \in Buckets : bucket'[b] = {} /\ bucket[b] # {} /\ stops' = stops
       => quietFor[b] = NoticeDelay]_noticeVars

\* When no more files come, what has come is sent or given up.
NoticesEnd == \A f \in Files : f \in happened ~> ~Pending(f)

\* Every receiver is told of every file that was not dropped, and twice only when it did not answer.
ReceiversAreTold == EveryFileIsTold /\ TwiceOnlyWhenUnanswered
=============================================================================
