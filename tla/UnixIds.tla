-------------------------------- MODULE UnixIds --------------------------------
(***************************************************************************)
(* Unix numbers of users and groups (_ensure_unix_id of routers/auth.py):  *)
(* given on demand by requests that run at the same time, from a sequence  *)
(* that a start-up may have to raise (raise_unix_id_sequences of           *)
(* db_init.py).  One table; a request is one transaction.                  *)
(***************************************************************************)
EXTENDS Naturals, FiniteSets

CONSTANTS
  Accounts,      \* ids of rows
  Givers,        \* requests of smb_verify and smb_users
  Starters,      \* processes that start up
  NoStarter,
  Tries,         \* tries of with_retry
  LastId, MaxHand  \* bounds: numbers, numbers that are set by hand

ASSUME UnixAssumption ==
  NoStarter \notin Starters /\ Tries \in Nat /\ LastId \in Nat /\ MaxHand \in Nat

VARIABLES
  account,    \* rows: none, row or gone, with unix_uid (0: NULL)
  seq,        \* what nextval returns next
  giver,      \* requests: rows left to number, numbers given and not committed, answers
  starter,    \* start-up: at which step, tries left
  initLock,   \* pg_advisory_lock
  tableLock,  \* LOCK TABLE ... IN SHARE ROW EXCLUSIVE MODE
  byHand,     \* numbers set by hand so far
  owners,     \* history: rows that have had a number
  loose,      \* history: numbers set by hand that the sequence has still to come to
  regiven     \* history: numbers given when they were loose

unixVars == <<account, seq, giver, starter, initLock, tableLock, byHand, owners, loose, regiven>>

-----------------------------------------------------------------------------
Ids == 0..LastId
NoGiver == [pc |-> "idle", todo |-> {}, given |-> [a \in Accounts |-> 0],
            answer |-> [a \in Accounts |-> 0]]
NumberOf(a) == IF account[a].state = "row" THEN account[a].number ELSE 0
Taken == {NumberOf(a) : a \in Accounts} \ {0}
Largest == IF Taken = {} THEN 0 ELSE CHOOSE n \in Taken : \A m \in Taken : m <= n
Behind == Taken # {} /\ Largest >= seq

\* Mutant: no row lock.
NeverLocked(a) == FALSE
\* The row lock of a number that is given and not committed.
LockedRow(a) == \E g \in Givers : giver[g].given[a] # 0
Writable == tableLock = NoStarter

-----------------------------------------------------------------------------
(* Rows                                                                    *)

NewAccount(a) ==
  /\ Writable /\ account[a].state = "none"
  /\ account' = [account EXCEPT ![a].state = "row"]
  /\ UNCHANGED <<seq, giver, starter, initLock, tableLock, byHand, owners, loose, regiven>>

DeleteAccount(a) ==
  /\ Writable /\ account[a].state = "row" /\ ~LockedRow(a)
  /\ account' = [account EXCEPT ![a].state = "gone"]
  /\ UNCHANGED <<seq, giver, starter, initLock, tableLock, byHand, owners, loose, regiven>>

\* An administrator, or a dump that was taken without its sequence.
SetByHand(a, n) ==
  /\ byHand < MaxHand /\ Writable
  /\ account[a].state = "row" /\ ~LockedRow(a)
  /\ n >= seq /\ owners[n] = {}
  /\ account' = [account EXCEPT ![a].number = n]
  /\ byHand' = byHand + 1
  /\ owners' = [owners EXCEPT ![n] = {a}]
  /\ loose' = loose \cup {n}
  /\ UNCHANGED <<seq, giver, starter, initLock, tableLock, regiven>>

-----------------------------------------------------------------------------
(* Requests                                                                *)

\* The rows are read; one that has its number is answered from what was read.
Ensure(g, S) ==
  /\ giver[g].pc = "idle"
  /\ S # {} /\ \A a \in S : account[a].state = "row"
  /\ giver' = [giver EXCEPT ![g] = [NoGiver EXCEPT !.pc = "give",
                 !.todo = {a \in S : NumberOf(a) = 0},
                 !.answer = [a \in Accounts |-> IF a \in S THEN NumberOf(a) ELSE 0]]]
  /\ UNCHANGED <<account, seq, starter, initLock, tableLock, byHand, owners, loose, regiven>>

RollbackGiver(g) == giver' = [giver EXCEPT ![g] = NoGiver]

\* Mutant: the largest number and one, for nextval.
LargestPlusOne == Largest + 1
NextVal == seq

\* UPDATE ... WHERE unix_uid IS NULL, with nextval: waits for the row and for the table.
Give(g, a) ==
  /\ giver[g].pc = "give" /\ a \in giver[g].todo
  /\ Writable
  /\ ~LockedRow(a)
  /\ account[a].state = "row" /\ NumberOf(a) = 0
  /\ seq <= LastId                                 \* bound
  /\ seq' = seq + 1
  /\ \/ /\ NextVal \in Taken                        \* the unique constraint
        /\ RollbackGiver(g)
        /\ UNCHANGED <<owners, regiven>>
     \/ /\ NextVal \notin Taken
        /\ giver' = [giver EXCEPT ![g].todo = @ \ {a}, ![g].given[a] = NextVal,
                                  ![g].answer[a] = NextVal]
        /\ owners' = [owners EXCEPT ![NextVal] = @ \cup {a}]
        /\ regiven' = IF NextVal \in loose THEN regiven \cup {NextVal} ELSE regiven
  /\ UNCHANGED <<account, starter, initLock, tableLock, byHand, loose>>

\* Given one meanwhile: the request that gave it wins; or the row has gone.
GivenMeanwhile(g, a) ==
  /\ giver[g].pc = "give" /\ a \in giver[g].todo
  /\ Writable
  /\ ~LockedRow(a)
  /\ \/ /\ NumberOf(a) # 0
        /\ giver' = [giver EXCEPT ![g].todo = @ \ {a}, ![g].answer[a] = NumberOf(a)]
     \/ /\ account[a].state = "gone"
        /\ RollbackGiver(g)
  /\ UNCHANGED <<account, seq, starter, initLock, tableLock, byHand, owners, loose, regiven>>

CommitGiver(g) ==
  /\ giver[g].pc = "give" /\ giver[g].todo = {}
  /\ account' = [a \in Accounts |->
                   IF giver[g].given[a] # 0 THEN [account[a] EXCEPT !.number = giver[g].given[a]]
                   ELSE account[a]]
  /\ giver' = [giver EXCEPT ![g].pc = "answered", ![g].given = [a \in Accounts |-> 0]]
  /\ UNCHANGED <<seq, starter, initLock, tableLock, byHand, owners, loose, regiven>>

\* The request fails, the sequence does not go back; or it has been answered.
GiverEnds(g) ==
  /\ giver[g].pc # "idle"
  /\ RollbackGiver(g)
  /\ UNCHANGED <<account, seq, starter, initLock, tableLock, byHand, owners, loose, regiven>>

-----------------------------------------------------------------------------
(* Start-up                                                                *)

\* init_lock: one process at a time.
TakeInitLock(s) ==
  /\ starter[s].pc = "idle" /\ initLock = NoStarter
  /\ initLock' = s
  /\ starter' = [starter EXCEPT ![s] = [pc |-> "check", tries |-> Tries, seen |-> 0]]
  /\ UNCHANGED <<account, seq, giver, tableLock, byHand, owners, loose, regiven>>

LetGo(s) ==
  /\ initLock' = NoStarter
  /\ starter' = [starter EXCEPT ![s] = [pc |-> "done", tries |-> 0, seen |-> 0]]

\* Without a lock: is there anything to do?
CheckBehind(s) ==
  /\ starter[s].pc = "check"
  /\ \/ /\ Behind
        /\ starter' = [starter EXCEPT ![s].pc = "lock", ![s].seen = Largest]
        /\ UNCHANGED initLock
     \/ /\ ~Behind
        /\ LetGo(s)
  /\ UNCHANGED <<account, seq, giver, tableLock, byHand, owners, loose, regiven>>

\* Waits for every number being given to be committed or taken back.
LockTable(s) ==
  /\ starter[s].pc = "lock"
  /\ \A a \in Accounts : ~LockedRow(a)
  /\ tableLock' = s
  /\ starter' = [starter EXCEPT ![s].pc = "set"]
  /\ UNCHANGED <<account, seq, giver, initLock, byHand, owners, loose, regiven>>

\* The wait for the lock runs out: tried again, and given up after the last try.
LockTimesOut(s) ==
  /\ starter[s].pc = "lock"
  /\ \/ /\ starter[s].tries > 1
        /\ starter' = [starter EXCEPT ![s].pc = "check", ![s].tries = @ - 1]
        /\ UNCHANGED initLock
     \/ /\ starter[s].tries <= 1
        /\ LetGo(s)
  /\ UNCHANGED <<account, seq, giver, tableLock, byHand, owners, loose, regiven>>

\* Mutant: what was in the table at the first look.
RaisedAsSeen(s) == starter[s].seen + 1
\* Mutant: one too many.
RaisedTwice(s) == IF Behind THEN Largest + 2 ELSE seq
\* setval of what is in the table now, if the sequence is still behind.
Raised(s) == IF Behind THEN Largest + 1 ELSE seq

SetSequence(s) ==
  /\ starter[s].pc = "set"
  /\ seq' = Raised(s)
  /\ loose' = {n \in loose : n >= seq'}
  /\ tableLock' = NoStarter
  /\ LetGo(s)
  /\ UNCHANGED <<account, giver, byHand, owners, regiven>>

-----------------------------------------------------------------------------
UnixInit ==
  /\ account \in [Accounts -> [state : {"none", "row"}, number : {0}]]
  /\ seq = 1
  /\ giver = [g \in Givers |-> NoGiver]
  /\ starter = [s \in Starters |-> [pc |-> "idle", tries |-> 0, seen |-> 0]]
  /\ initLock = NoStarter /\ tableLock = NoStarter
  /\ byHand = 0
  /\ owners = [n \in Ids |-> {}]
  /\ loose = {} /\ regiven = {}

UnixNext ==
  \/ \E a \in Accounts :
       \/ NewAccount(a) \/ DeleteAccount(a)
       \/ \E n \in 1..LastId : SetByHand(a, n)
  \/ \E g \in Givers :
       \/ \E S \in SUBSET Accounts : Ensure(g, S)
       \/ \E a \in Accounts : Give(g, a) \/ GivenMeanwhile(g, a)
       \/ CommitGiver(g) \/ GiverEnds(g)
  \/ \E s \in Starters :
       TakeInitLock(s) \/ CheckBehind(s) \/ LockTable(s) \/ LockTimesOut(s) \/ SetSequence(s)

UnixSpec == UnixInit /\ [][UnixNext]_unixVars

-----------------------------------------------------------------------------
(* Properties                                                              *)

\* The state has its type.
UnixTypeOK ==
  /\ account \in [Accounts -> [state : {"none", "row", "gone"}, number : Ids]]
  /\ seq \in 1..(LastId + 1)
  /\ \A g \in Givers :
       /\ giver[g].pc \in {"idle", "give", "answered"} /\ giver[g].todo \subseteq Accounts
       /\ giver[g].given \in [Accounts -> Ids] /\ giver[g].answer \in [Accounts -> Ids]
  /\ \A s \in Starters : starter[s].pc \in {"idle", "check", "lock", "set", "done"}
  /\ initLock \in Starters \cup {NoStarter} /\ tableLock \in Starters \cup {NoStarter}
  /\ byHand \in 0..MaxHand
  /\ owners \in [Ids -> SUBSET Accounts]
  /\ loose \subseteq Ids /\ regiven \subseteq Ids

\* A number is for life: no second row is ever given it, also after its row was deleted, and
\* whatever requests and start-ups do at the same time.  The exception is a number set by
\* hand, until a start-up has raised the sequence above it.
NumbersAreForLife == \A n \in Ids \ regiven : Cardinality(owners[n]) <= 1

\* Requests that number the same rows at the same time tell the same numbers: what a request
\* has answered is what the row holds, unless that was set by hand since.
AnswersAgree ==
  byHand = 0 =>
    \A g \in Givers : giver[g].pc = "answered" =>
      \A a \in Accounts :
        giver[g].answer[a] # 0 /\ account[a].state = "row" => account[a].number = giver[g].answer[a]

\* A start-up never sets the sequence back to a number that may be in use.
SequenceNeverFalls == [][seq' >= seq]_unixVars

\* One row for a number, and one number for a row.
NumbersAreRight == NumbersAreForLife /\ AnswersAgree
=============================================================================
