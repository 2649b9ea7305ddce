------------------------------- MODULE DbPool -------------------------------
(***************************************************************************)
(* Searches and the pool of database connections (db.py).  A request keeps *)
(* the connection its user was looked up with until its answer, and        *)
(* merged_search opens up to five sessions more on the same pool: three at *)
(* once, of which the vector's first opens one to read where the embedding *)
(* server is, and one for the rows that no signal gave.  Who finds the     *)
(* pool empty waits, and gives up after the pool's timeout.                *)
(***************************************************************************)
EXTENDS Naturals, FiniteSets

CONSTANTS
  Searches,       \* requests of GET /search/documents
  PoolSize        \* pool_size + max_overflow

ASSUME PoolAssumption == IsFiniteSet(Searches) /\ PoolSize \in Nat \ {0}

VARIABLES
  request,        \* the session of the request: waits, reads, fetches, answered, failed
  dbSession,      \* per request, its other sessions: idle, waits, works, closed, failed
  out             \* connections out of the pool, as the pool counts them

poolVars == <<request, dbSession, out>>

-----------------------------------------------------------------------------
Gathered == {"metadata", "fulltext", "vector"}
SessionKinds == Gathered \cup {"config", "fetch"}
Running == {s \in Searches : request[s] \in {"reads", "fetches"}}
Working == {h \in Searches \X SessionKinds : dbSession[h[1]][h[2]] = "works"}

Full == out >= PoolSize

\* Mutant: a session that is left by an exception is not closed.
ClosedAtEnd(end) == IF end = "failed" THEN out ELSE out - 1

\* async_session() in a with statement, as in get_db, gives its connection back where the block is
\* left, be it by an exception.
GivenBack(end) == out - 1

-----------------------------------------------------------------------------
\* get_current_user reads the user: the first statement of the request takes a connection.
StartSearch(s) ==
  /\ request[s] = "waits" /\ ~Full
  /\ request' = [request EXCEPT ![s] = "reads"]
  /\ dbSession' = [dbSession EXCEPT
                    ![s] = [p \in SessionKinds |->
                             IF p \in {"metadata", "fulltext", "config"} THEN "waits" ELSE "idle"]]
  /\ out' = out + 1

\* Mutant: the pool does not look at how many connections are out.
TakesUnasked(s, p) == dbSession[s][p] = "waits"

Takes(s, p) == dbSession[s][p] = "waits" /\ ~Full

TakeConnection(s, p) ==
  /\ Takes(s, p)
  /\ dbSession' = [dbSession EXCEPT ![s][p] = "works"]
  /\ out' = out + 1
  /\ UNCHANGED request

\* The queries are done, or one of them raises; the request that began them may be over.
CloseSession(s, p) ==
  /\ dbSession[s][p] = "works"
  /\ \E end \in {"closed", "failed"} :
       dbSession' = [dbSession EXCEPT ![s][p] = end] /\ out' = GivenBack(end)
  /\ UNCHANGED request

\* The embedding server is asked within the vector's session, before its first statement.
AskEmbedding(s) ==
  /\ dbSession[s]["config"] = "closed" /\ dbSession[s]["vector"] = "idle"
  /\ \E next \in {"waits", "failed"} : dbSession' = [dbSession EXCEPT ![s]["vector"] = next]
  /\ UNCHANGED <<request, out>>

\* Mutant: who waits, waits for ever.
NoTimeout == FALSE

\* Nothing came back for pool_timeout.
TimesOut == Full

GiveUp(s) ==
  /\ TimesOut
  /\ \/ /\ request[s] = "waits" /\ request' = [request EXCEPT ![s] = "failed"]
        /\ UNCHANGED dbSession
     \/ /\ UNCHANGED request
        /\ \E p \in SessionKinds : /\ dbSession[s][p] = "waits"
                                   /\ dbSession' = [dbSession EXCEPT ![s][p] = "failed"]
  /\ UNCHANGED out

\* gather returns; documents of the metadata alone are read by one more session.
Gather(s) ==
  /\ request[s] = "reads" /\ \A p \in Gathered : dbSession[s][p] = "closed"
  /\ \/ /\ request' = [request EXCEPT ![s] = "answered"] /\ out' = GivenBack("closed")
        /\ UNCHANGED dbSession
     \/ /\ request' = [request EXCEPT ![s] = "fetches"]
        /\ dbSession' = [dbSession EXCEPT ![s]["fetch"] = "waits"]
        /\ UNCHANGED out

\* gather raises at the first failure and leaves the other tasks running.
Raise(s) ==
  /\ s \in Running /\ \E p \in SessionKinds : dbSession[s][p] = "failed"
  /\ request' = [request EXCEPT ![s] = "failed"]
  /\ out' = GivenBack("failed")
  /\ UNCHANGED dbSession

AnswerSearch(s) ==
  /\ request[s] = "fetches" /\ dbSession[s]["fetch"] = "closed"
  /\ request' = [request EXCEPT ![s] = "answered"]
  /\ out' = GivenBack("closed")
  /\ UNCHANGED dbSession

PoolInit ==
  /\ request = [s \in Searches |-> "waits"]
  /\ dbSession = [s \in Searches |-> [p \in SessionKinds |-> "idle"]]
  /\ out = 0

SearchStep(s) ==
  \/ StartSearch(s) \/ GiveUp(s) \/ AskEmbedding(s)
  \/ Gather(s) \/ Raise(s) \/ AnswerSearch(s)
  \/ \E p \in SessionKinds : TakeConnection(s, p) \/ CloseSession(s, p)

PoolNext == \E s \in Searches : SearchStep(s)

\* Queries end, the embedding server answers or its time is up, the pool wakes a waiter or its
\* timeout does, and the loop runs on.
PoolSpec == PoolInit /\ [][PoolNext]_poolVars /\ \A s \in Searches : WF_poolVars(SearchStep(s))

-----------------------------------------------------------------------------
(* Properties                                                              *)

\* Every variable has its type, and no more connections are out than the pool has.
PoolTypeOK ==
  /\ request \in [Searches -> {"waits", "reads", "fetches", "answered", "failed"}]
  /\ dbSession \in [Searches -> [SessionKinds -> {"idle", "waits", "works", "closed", "failed"}]]
  /\ out \in 0..PoolSize

\* While fewer searches run than the pool has connections, one is free or at work for a session
\* that will give it back: whatever failed, gave up or was left running before, only as many
\* searches as connections can all wait for each other (with the values of db.py, fifty at once).
FewerNeverJam == Cardinality(Running) < PoolSize => ~Full \/ Working # {}

\* Searches that wait for each other's connections end, with an answer or with an error.
SearchesEnd == \A s \in Searches : s \in Running ~> request[s] \in {"answered", "failed"}

\* In the end every connection is back in the pool, those of tasks whose request has failed while
\* they ran too.
ConnectionsComeBack == <>[](out = 0)
=============================================================================
