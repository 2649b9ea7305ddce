---------------------------- MODULE ServicesProofs ----------------------------
(***************************************************************************)
(* Proofs about three parts that share nothing.  AgentRun: types and the   *)
(* bound on requests, and that the conversation is right, for any setting  *)
(* of the rounds, any number of tool calls in a reply and whatever the     *)
(* model answers.  DbPool: the connections out of the pool are those that  *)
(* are held, and fewer searches than connections never wait for each other *)
(* only, for any finite set of searches and any size.  ShareLinks: what    *)
(* the backend shows of a link is what the share server does, for any      *)
(* links, visitors and life times and whatever call fails.                 *)
(***************************************************************************)
EXTENDS AgentRun, DbPool, ShareLinks, FiniteSetTheorems, TLAPS

-----------------------------------------------------------------------------
(* The run of the agent                                                    *)

Stages == {"intent", "askIntent", "intentSent", "round", "askRound", "roundSent", "reply", "tools",
           "after", "stream", "askStream", "streaming", "speaking", "done", "failed", "cancelled"}
InLoop == {"round", "askRound", "roundSent", "reply", "tools"}
BeforeLoop == {"intent", "askIntent", "intentSent"}
Late == {"after", "stream", "askStream", "streaming", "speaking", "done", "failed", "cancelled"}
Streams == {"none", "plain", "forced", "fallback"}

AgentTypeInv ==
  /\ maxRounds \in RoundSettings /\ maxRounds \in Nat \ {0} /\ round \in Nat
  /\ stage \in Stages
  /\ reply \in Replies \cup {None} /\ left \in 0..MaxCalls /\ open \in Nat
  /\ searched \in 0..3 /\ browser \in {"here", "gone"}
  /\ acted \in BOOLEAN /\ answered \in BOOLEAN /\ cancelEvent \in BOOLEAN /\ broke \in BOOLEAN
  /\ unread \in BOOLEAN /\ streamOf \in Streams
  /\ asked \in Nat /\ askedAfter \in Nat /\ answers \in Nat
  /\ stage = "reply" => reply # None

\* A round of the loop is one of the rounds of the setting, and tools never run in the last.
RoundsFit ==
  /\ round <= maxRounds
  /\ stage \in InLoop => round >= 1
  /\ stage = "tools" => round < maxRounds

\* One request for the intent, one for each round begun, and one for the stream.
AskedFits ==
  /\ stage \in {"intent", "askIntent"} => asked = 0
  /\ stage = "intentSent" => asked <= 1
  /\ stage \in {"round", "askRound"} => asked <= round
  /\ stage \in {"roundSent", "reply", "tools", "after", "stream", "askStream"} => asked <= round + 1
  /\ stage \in {"streaming", "speaking", "done", "failed", "cancelled"} => asked <= maxRounds + 2

\* The open calls are those of the reply whose tools are running.
CallsFit ==
  /\ broke => stage \in Late
  /\ stage = "tools" => open = left
  /\ ~broke /\ stage \notin {"tools", "cancelled"} => open = 0

\* An answer is given once, and it is noted; a fallback comes of a loop that broke off, and only it
\* ends without an answer after tools have run.
AnswersFit ==
  /\ stage \notin {"after", "speaking", "done", "cancelled"} => answers = 0 /\ ~answered
  /\ answers <= 1
  /\ answered => answers > 0
  /\ stage = "after" => (answers > 0 => answered) /\ (answered \/ broke)
  /\ stage = "speaking" => answers > 0
  /\ stage \in {"stream", "askStream"} /\ streamOf = "fallback" => broke
  /\ stage = "done" => answers > 0 \/ (broke /\ (~acted \/ unread))

\* The one request that may go out after the event is the last.
CancelFits ==
  /\ askedAfter <= 1
  /\ askedAfter > 0 =>
       cancelEvent /\ stage \in {"intentSent", "roundSent", "streaming", "speaking", "done",
                               "cancelled"}

AgentInv == AgentTypeInv /\ RoundsFit /\ AskedFits /\ CallsFit /\ AnswersFit /\ CancelFits

-----------------------------------------------------------------------------
LEMMA AgentInitInv == AgentInit => AgentInv
<1> SUFFICES ASSUME AgentInit PROVE AgentInv
  OBVIOUS
<1>1. AgentTypeInv
  <2>1. maxRounds \in Nat \ {0} /\ left \in 0..MaxCalls
    BY AgentAssumption DEF AgentInit
  <2>2. /\ acted \in BOOLEAN /\ answered \in BOOLEAN /\ cancelEvent \in BOOLEAN
        /\ broke \in BOOLEAN /\ unread \in BOOLEAN
    BY DEF AgentInit
  <2> QED  BY <2>1, <2>2 DEF AgentInit, AgentTypeInv, Stages, Streams
<1>2. RoundsFit /\ AskedFits
  BY AgentAssumption DEF AgentInit, RoundsFit, AskedFits, InLoop
<1>3. CallsFit /\ AnswersFit /\ CancelFits
  BY DEF AgentInit, CallsFit, AnswersFit, CancelFits
<1> QED  BY <1>1, <1>2, <1>3 DEF AgentInv

LEMMA AgentStepInv == AgentInv /\ [AgentNext]_agentVars => AgentInv'
<1> SUFFICES ASSUME AgentInv, [AgentNext]_agentVars PROVE AgentInv'
  OBVIOUS
<1> USE AgentAssumption
    DEF AgentInv, AgentTypeInv, RoundsFit, AskedFits, CallsFit, AnswersFit, CancelFits, Stages, InLoop,
        Late, Streams, AgentGoes, Cancel, Heeded, runVars, streamVars, loopVars, sentVars
<1>1. ASSUME SkipIntent PROVE AgentInv'
  BY <1>1 DEF SkipIntent
<1>2. ASSUME CheckIntent PROVE AgentInv'
  BY <1>2 DEF CheckIntent
<1>3. ASSUME AskIntent PROVE AgentInv'
  BY <1>3 DEF AskIntent, Ask
<1>4. ASSUME IntentAnswered PROVE AgentInv'
  BY <1>4 DEF IntentAnswered
<1>25. ASSUME SetUpFails PROVE AgentInv'
  BY <1>25 DEF SetUpFails
<1>26. ASSUME IntentUnread PROVE AgentInv'
  BY <1>26 DEF IntentUnread
<1>27. ASSUME RoundUnread PROVE AgentInv'
  BY <1>27 DEF RoundUnread, LeaveLoop
<1>28. ASSUME StreamUnread PROVE AgentInv'
  <2>1. CASE streamOf = "plain"
    BY <1>28, <2>1 DEF StreamUnread
  <2>2. CASE streamOf = "forced"
    BY <1>28, <2>2 DEF StreamUnread, LeaveLoop
  <2>3. CASE streamOf = "fallback"
    BY <1>28, <2>3 DEF StreamUnread
  <2> QED  BY <1>28, <2>1, <2>2, <2>3 DEF StreamUnread
<1>5. ASSUME CheckRound PROVE AgentInv'
  BY <1>5 DEF CheckRound
<1>6. ASSUME AskRound PROVE AgentInv'
  BY <1>6 DEF AskRound, Ask
<1>7. ASSUME RoundAnswered PROVE AgentInv'
  BY <1>7 DEF RoundAnswered, Replies, None
<1>8. ASSUME BrokenReply PROVE AgentInv'
  BY <1>8 DEF BrokenReply, LeaveLoop, None
<1>9. ASSUME Nudge PROVE AgentInv'
  BY <1>9 DEF Nudge, NoCallsOrLast, NudgedRound, NudgeFirst, NudgeNegative, LastRound, None
<1>10. ASSUME AnswerText PROVE AgentInv'
  <2>1. answers = 0 /\ answers' = 1 /\ answered' = TRUE /\ answered' \in BOOLEAN
    BY <1>10 DEF AnswerText, NoCallsOrLast, AnsweredInText
  <2>2. /\ stage = "reply" /\ stage' = "after" /\ reply' = None
        /\ UNCHANGED <<round, left, open, broke, maxRounds, searched, acted, browser, cancelEvent,
                       streamOf, unread, asked, askedAfter>>
    BY <1>10 DEF AnswerText, NoCallsOrLast, LeaveLoop
  <2>3. AgentTypeInv'
    BY <2>1, <2>2
  <2>4. AnswersFit'
    BY <2>1, <2>2
  <2>5. RoundsFit' /\ AskedFits' /\ CallsFit' /\ CancelFits'
    BY <2>2
  <2> QED  BY <2>3, <2>4, <2>5
<1>11. ASSUME AnswerByStream PROVE AgentInv'
  BY <1>11 DEF AnswerByStream, NoCallsOrLast, None
<1>12. ASSUME TakeCalls PROVE AgentInv'
  BY <1>12 DEF TakeCalls, CallsOf, Replies, None, LastRound
<1>13. ASSUME RunTool PROVE AgentInv'
  BY <1>13 DEF RunTool, Answered
<1>14. ASSUME OddArguments PROVE AgentInv'
  BY <1>14 DEF OddArguments, LeaveLoop, None
<1>15. ASSUME ToolsRun PROVE AgentInv'
  BY <1>15 DEF ToolsRun, None
<1>16. ASSUME AfterLoop PROVE AgentInv'
  BY <1>16 DEF AfterLoop, Fallback
<1>17. ASSUME CheckStream PROVE AgentInv'
  BY <1>17 DEF CheckStream
<1>18. ASSUME AskStream PROVE AgentInv'
  BY <1>18 DEF AskStream, Ask
<1>19. ASSUME StreamSpeaks PROVE AgentInv'
  <2>1. stage = "streaming" /\ answers = 0
    BY <1>19 DEF StreamSpeaks
  <2>2. CASE cancelEvent /\ Cancel
    BY <2>1, <2>2
  <2>3. CASE /\ answers' = answers + 1 /\ answered' = TRUE /\ stage' = "speaking"
             /\ UNCHANGED <<round, reply, left, open, broke, loopVars, sentVars>>
    <3>1. answers' = 1 /\ answered' \in BOOLEAN
      BY <2>1, <2>3
    <3> QED  BY <2>1, <2>3, <3>1
  <2> QED  BY <1>19, <2>2, <2>3 DEF StreamSpeaks
<1>20. ASSUME StreamEnds PROVE AgentInv'
  BY <1>20 DEF StreamEnds
<1>21. ASSUME LeavePage PROVE AgentInv'
  BY <1>21 DEF LeavePage, Ended
<1>22. ASSUME MonitorSees PROVE AgentInv'
  BY <1>22 DEF MonitorSees, Ended
<1>23. ASSUME DropGenerator PROVE AgentInv'
  BY <1>23 DEF DropGenerator, Ended
<1>24. ASSUME AgentEnded \/ UNCHANGED agentVars PROVE AgentInv'
  BY <1>24 DEF AgentEnded, agentVars
<1> QED
  BY <1>1, <1>2, <1>3, <1>4, <1>5, <1>6, <1>7, <1>8, <1>9, <1>10, <1>11, <1>12, <1>13, <1>14,
     <1>15, <1>16, <1>17, <1>18, <1>19, <1>20, <1>21, <1>22, <1>23, <1>24, <1>25, <1>26, <1>27, <1>28
  DEF AgentNext, AgentStep

\* The invariant holds in every state of every run of the agent.
THEOREM AgentInvariant == AgentSpec => []AgentInv
BY AgentInitInv, AgentStepInv, PTL DEF AgentSpec

\* The rounds never pass the setting, and one answer costs at most one request for the intent,
\* one for each round and one for the stream.
THEOREM AgentTypes == AgentSpec => []AgentTypeOK
<1>1. AgentInv => AgentTypeOK
  BY DEF AgentInv, AgentTypeInv, RoundsFit, AskedFits, AgentTypeOK, Stages, Streams, InLoop
<1> QED  BY <1>1, AgentInvariant, PTL

\* A conversation the language model takes, one answer at its end unless the loop broke off with no
\* tool run or the fallback could not read its settings, and no second request to the model for a
\* reader who has left.
THEOREM ConversationRight == AgentSpec => []ConversationIsRight
<1>1. AgentInv => CallsAreAnswered
  BY DEF AgentInv, CallsFit, CallsAreAnswered
<1>2. AgentInv => DoneMeansTold /\ OneAnswer
  BY DEF AgentInv, AnswersFit, DoneMeansTold, OneAnswer
<1>3. AgentInv => LlmStopsOnCancel
  BY DEF AgentInv, CancelFits, LlmStopsOnCancel
<1> QED  BY <1>1, <1>2, <1>3, AgentInvariant, PTL DEF ConversationIsRight

-----------------------------------------------------------------------------
(* The pool of connections                                                 *)

SessionStates == {"idle", "waits", "works", "closed", "failed"}

PoolTypeInv ==
  /\ request \in [Searches -> {"waits", "reads", "fetches", "answered", "failed"}]
  /\ dbSession \in [Searches -> [SessionKinds -> SessionStates]]

\* A request that waits for its first connection has begun nothing, and the session for the rows
\* that no signal gave is opened after the others.
SessionsInOrder ==
  \A s \in Searches :
    /\ request[s] = "waits" => \A p \in SessionKinds : dbSession[s][p] = "idle"
    /\ request[s] = "reads" => dbSession[s]["fetch"] = "idle"

\* What the pool counts is held: by the requests that run, and by the sessions at work for any
\* request, over or not.
PoolInv ==
  /\ PoolTypeInv /\ SessionsInOrder
  /\ out = Cardinality(Running) + Cardinality(Working) /\ out <= PoolSize

-----------------------------------------------------------------------------
(* Who holds a connection                                                  *)

\* The sessions of all searches are finitely many.
LEMMA SessionsAreFinite ==
    IsFiniteSet(Searches) /\ IsFiniteSet(Searches \X SessionKinds)
<1>1. /\ IsFiniteSet({"metadata"}) /\ IsFiniteSet({"fulltext"}) /\ IsFiniteSet({"vector"})
      /\ IsFiniteSet({"config"}) /\ IsFiniteSet({"fetch"})
  BY FS_Singleton
<1>2. IsFiniteSet(({"metadata"} \cup {"fulltext"}) \cup {"vector"})
  BY <1>1, FS_Union
<1>3. IsFiniteSet({"config"} \cup {"fetch"})
  BY <1>1, FS_Union
<1>4. IsFiniteSet((({"metadata"} \cup {"fulltext"}) \cup {"vector"}) \cup ({"config"} \cup {"fetch"}))
  BY <1>2, <1>3, FS_Union
<1>5. SessionKinds = (({"metadata"} \cup {"fulltext"}) \cup {"vector"}) \cup ({"config"} \cup {"fetch"})
  BY DEF SessionKinds, Gathered
<1> QED  BY <1>4, <1>5, PoolAssumption, FS_Product

LEMMA HoldersAreFinite ==
    /\ IsFiniteSet(Running) /\ IsFiniteSet(Working)
    /\ Cardinality(Running) \in Nat /\ Cardinality(Working) \in Nat
<1>1. Running \subseteq Searches /\ Working \subseteq Searches \X SessionKinds
  BY DEF Running, Working
<1>2. IsFiniteSet(Running) /\ IsFiniteSet(Working)
  BY <1>1, SessionsAreFinite, FS_Subset
<1> QED  BY <1>2, FS_CardinalityType

\* One more holder, or one less, is one connection more or less.
LEMMA OneMoreOrLess ==
    ASSUME NEW S, IsFiniteSet(S), NEW x
    PROVE  /\ x \notin S => Cardinality(S \cup {x}) = Cardinality(S) + 1
           /\ x \in S => Cardinality(S \ {x}) = Cardinality(S) - 1
BY FS_AddElement, FS_RemoveElement

\* A connection is taken by one, while the pool is not full.
LEMMA OneTaken ==
    ASSUME PoolInv, ~Full, out' = out + 1, NEW x,
           \/ x \notin Running /\ Running' = Running \cup {x} /\ Working' = Working
           \/ x \notin Working /\ Working' = Working \cup {x} /\ Running' = Running
    PROVE  out' = Cardinality(Running)' + Cardinality(Working)' /\ out' <= PoolSize
<1>1. PICK m \in Nat : m = Cardinality(Running)
  BY HoldersAreFinite
<1>2. PICK n \in Nat : n = Cardinality(Working)
  BY HoldersAreFinite
<1>3. out = m + n /\ out < PoolSize
  BY <1>1, <1>2, PoolAssumption DEF PoolInv, Full
<1>4. \/ Cardinality(Running') = m + 1 /\ Cardinality(Working') = n
      \/ Cardinality(Running') = m /\ Cardinality(Working') = n + 1
  BY <1>1, <1>2, HoldersAreFinite, OneMoreOrLess
<1> QED  BY <1>3, <1>4, PoolAssumption

\* A connection is given back by one who held it.
LEMMA OneGivenBack ==
    ASSUME PoolInv, out' = out - 1, NEW x,
           \/ x \in Running /\ Running' = Running \ {x} /\ Working' = Working
           \/ x \in Working /\ Working' = Working \ {x} /\ Running' = Running
    PROVE  out' = Cardinality(Running)' + Cardinality(Working)' /\ out' <= PoolSize
<1>1. PICK m \in Nat : m = Cardinality(Running)
  BY HoldersAreFinite
<1>2. PICK n \in Nat : n = Cardinality(Working)
  BY HoldersAreFinite
<1>3. out = m + n /\ out <= PoolSize
  BY <1>1, <1>2 DEF PoolInv
<1>4. \/ Cardinality(Running') = m - 1 /\ Cardinality(Working') = n
      \/ Cardinality(Running') = m /\ Cardinality(Working') = n - 1
  BY <1>1, <1>2, HoldersAreFinite, OneMoreOrLess
<1> QED  BY <1>3, <1>4, PoolAssumption

\* Nobody takes a connection and nobody gives one back.
LEMMA HoldersStay ==
    ASSUME PoolInv, out' = out, Running' = Running, Working' = Working
    PROVE  out' = Cardinality(Running)' + Cardinality(Working)' /\ out' <= PoolSize
BY DEF PoolInv

\* What a session does changes who is at work as its own state does.
LEMMA SessionMoves ==
    ASSUME PoolTypeInv, NEW s \in Searches, NEW p \in SessionKinds, NEW v \in SessionStates,
           dbSession' = [dbSession EXCEPT ![s][p] = v]
    PROVE  /\ dbSession' \in [Searches -> [SessionKinds -> SessionStates]]
           /\ v = "works" => Working' = Working \cup {<<s, p>>}
           /\ v # "works" => Working' = Working \ {<<s, p>>}
           /\ <<s, p>> \in Working <=> dbSession[s][p] = "works"
<1>1. \A t \in Searches, q \in SessionKinds :
        dbSession'[t][q] = IF t = s /\ q = p THEN v ELSE dbSession[t][q]
  BY DEF PoolTypeInv
<1>2. dbSession' \in [Searches -> [SessionKinds -> SessionStates]]
  BY DEF PoolTypeInv
<1>3. \A h : h \in Working' <=> /\ h \in Searches \X SessionKinds
                                /\ dbSession'[h[1]][h[2]] = "works"
  BY DEF Working
<1>4. \A h : h \in Working <=> /\ h \in Searches \X SessionKinds
                               /\ dbSession[h[1]][h[2]] = "works"
  BY DEF Working
<1>5. \A h \in Searches \X SessionKinds :
        dbSession'[h[1]][h[2]] = IF h = <<s, p>> THEN v ELSE dbSession[h[1]][h[2]]
  BY <1>1
<1>6. <<s, p>> \in Searches \X SessionKinds
  OBVIOUS
<1> QED  BY <1>2, <1>3, <1>4, <1>5, <1>6

\* What a request does changes who runs as its own state does.
LEMMA RequestMoves ==
    ASSUME PoolTypeInv, NEW s \in Searches,
           NEW v \in {"waits", "reads", "fetches", "answered", "failed"},
           request' = [request EXCEPT ![s] = v]
    PROVE  /\ request' \in [Searches -> {"waits", "reads", "fetches", "answered", "failed"}]
           /\ v \in {"reads", "fetches"} => Running' = Running \cup {s}
           /\ v \notin {"reads", "fetches"} => Running' = Running \ {s}
           /\ s \in Running <=> request[s] \in {"reads", "fetches"}
BY DEF PoolTypeInv, Running

-----------------------------------------------------------------------------
(* Steps                                                                   *)

LEMMA InvNext == PoolInv /\ [PoolNext]_poolVars => PoolInv'
<1> SUFFICES ASSUME PoolInv, [PoolNext]_poolVars PROVE PoolInv'
  OBVIOUS
<1>a. PoolTypeInv /\ SessionsInOrder
  BY DEF PoolInv
<1> DEFINE Counted == out' = Cardinality(Running)' + Cardinality(Working)' /\ out' <= PoolSize
<1>b. PoolTypeInv' /\ SessionsInOrder' /\ Counted => PoolInv'
  BY DEF PoolInv
<1>c. /\ request' = request => Running' = Running
      /\ dbSession' = dbSession => Working' = Working
  BY DEF Running, Working
<1>1. ASSUME NEW s \in Searches, StartSearch(s) PROVE PoolInv'
  <2>1. /\ request' = [request EXCEPT ![s] = "reads"] /\ request[s] = "waits" /\ ~Full
        /\ out' = out + 1
    BY <1>1 DEF StartSearch
  <2>2. /\ request' \in [Searches -> {"waits", "reads", "fetches", "answered", "failed"}]
        /\ Running' = Running \cup {s} /\ s \notin Running
    BY <1>a, <2>1, RequestMoves
  <2>3. PoolTypeInv'
    BY <1>a, <1>1, <2>2 DEF StartSearch, PoolTypeInv, SessionStates
  <2>4. Working' = Working
    <3>1. \A p \in SessionKinds : dbSession[s][p] # "works" /\ dbSession'[s][p] # "works"
      BY <1>a, <1>1 DEF StartSearch, PoolTypeInv, SessionsInOrder
    <3>2. \A t \in Searches : t # s => dbSession'[t] = dbSession[t]
      BY <1>a, <1>1 DEF StartSearch, PoolTypeInv
    <3> QED  BY <3>1, <3>2 DEF Working
  <2>5. SessionsInOrder'
    <3>1. /\ request'[s] = "reads" /\ dbSession'[s]["fetch"] = "idle"
          /\ \A t \in Searches : t # s => request'[t] = request[t] /\ dbSession'[t] = dbSession[t]
      BY <1>a, <1>1 DEF StartSearch, PoolTypeInv, SessionKinds
    <3> QED  BY <1>a, <3>1 DEF SessionsInOrder
  <2>6. Counted
    BY <2>1, <2>2, <2>4, OneTaken
  <2> QED  BY <1>b, <2>3, <2>5, <2>6
<1>2. ASSUME NEW s \in Searches, NEW p \in SessionKinds, NEW v \in SessionStates,
             dbSession' = [dbSession EXCEPT ![s][p] = v], request' = request,
             dbSession[s][p] # "idle" \/ (p = "vector" /\ dbSession[s]["config"] # "idle")
      PROVE  PoolTypeInv' /\ SessionsInOrder'
  <2>1. PoolTypeInv'
    BY <1>a, <1>2, SessionMoves DEF PoolTypeInv
  <2>2. "config" \in SessionKinds
    BY DEF SessionKinds
  <2>3. SessionsInOrder'
    <3>1. \A t \in Searches, q \in SessionKinds :
            dbSession'[t][q] = IF t = s /\ q = p THEN v ELSE dbSession[t][q]
      BY <1>a, <1>2 DEF PoolTypeInv
    <3>2. request[s] # "waits"
      BY <1>a, <1>2, <2>2 DEF SessionsInOrder
    <3>3. request[s] = "reads" => p # "fetch"
      BY <1>a, <1>2 DEF SessionsInOrder
    <3>4. "fetch" \in SessionKinds
      BY DEF SessionKinds
    <3> QED  BY <1>a, <1>2, <3>1, <3>2, <3>3, <3>4 DEF SessionsInOrder
  <2> QED  BY <2>1, <2>3
<1>3. ASSUME NEW s \in Searches, NEW v \in {"fetches", "answered", "failed"},
             request' = [request EXCEPT ![s] = v], dbSession' = dbSession
      PROVE  PoolTypeInv' /\ SessionsInOrder'
  <2>1. PoolTypeInv'
    BY <1>a, <1>3, RequestMoves DEF PoolTypeInv
  <2> QED  BY <1>a, <1>3, <2>1 DEF PoolTypeInv, SessionsInOrder
<1>4. ASSUME NEW s \in Searches, NEW p \in SessionKinds, TakeConnection(s, p) PROVE PoolInv'
  <2>1. /\ dbSession' = [dbSession EXCEPT ![s][p] = "works"] /\ dbSession[s][p] = "waits"
        /\ request' = request /\ out' = out + 1 /\ ~Full /\ "works" \in SessionStates
    BY <1>4 DEF TakeConnection, Takes, SessionStates
  <2>2. Working' = Working \cup {<<s, p>>} /\ <<s, p>> \notin Working
    BY <1>a, <2>1, SessionMoves
  <2>3. Counted
    BY <1>c, <2>1, <2>2, OneTaken
  <2> QED  BY <1>b, <1>2, <2>1, <2>3
<1>5. ASSUME NEW s \in Searches, NEW p \in SessionKinds, CloseSession(s, p) PROVE PoolInv'
  <2>1. PICK end \in {"closed", "failed"} :
          dbSession' = [dbSession EXCEPT ![s][p] = end] /\ out' = out - 1
    BY <1>5 DEF CloseSession, GivenBack
  <2>2. /\ dbSession[s][p] = "works" /\ request' = request
        /\ end \in SessionStates /\ end # "works"
    BY <1>5 DEF CloseSession, SessionStates
  <2>3. Working' = Working \ {<<s, p>>} /\ <<s, p>> \in Working
    BY <1>a, <2>1, <2>2, SessionMoves
  <2>4. Counted
    BY <1>c, <2>1, <2>2, <2>3, OneGivenBack
  <2> QED  BY <1>b, <1>2, <2>1, <2>2, <2>4
<1>6. ASSUME NEW s \in Searches, AskEmbedding(s) PROVE PoolInv'
  <2>1. PICK next \in {"waits", "failed"} : dbSession' = [dbSession EXCEPT ![s]["vector"] = next]
    BY <1>6 DEF AskEmbedding
  <2>2. /\ dbSession[s]["vector"] = "idle" /\ dbSession[s]["config"] = "closed"
        /\ request' = request /\ out' = out /\ "vector" \in SessionKinds
        /\ next \in SessionStates /\ next # "works"
    BY <1>6 DEF AskEmbedding, SessionStates, SessionKinds, Gathered
  <2>3. Working' = Working \ {<<s, "vector">>} /\ <<s, "vector">> \notin Working
    BY <1>a, <2>1, <2>2, SessionMoves
  <2>4. Working' = Working
    BY <2>3
  <2>5. Counted
    BY <1>c, <2>2, <2>4, HoldersStay
  <2> QED  BY <1>b, <1>2, <2>1, <2>2, <2>5
<1>7. ASSUME NEW s \in Searches, GiveUp(s) PROVE PoolInv'
  <2>1. CASE /\ request[s] = "waits" /\ request' = [request EXCEPT ![s] = "failed"]
             /\ UNCHANGED dbSession
    <3>1. Running' = Running \ {s} /\ s \notin Running
      BY <1>a, <2>1, RequestMoves
    <3>2. Running' = Running
      BY <3>1
    <3>3. Counted
      BY <1>7, <1>c, <2>1, <3>2, HoldersStay DEF GiveUp
    <3> QED  BY <1>b, <1>3, <2>1, <3>3
  <2>2. ASSUME NEW p \in SessionKinds, request' = request, dbSession[s][p] = "waits",
               dbSession' = [dbSession EXCEPT ![s][p] = "failed"]
        PROVE  PoolInv'
    <3>1. "failed" \in SessionStates
      BY DEF SessionStates
    <3>2. Working' = Working \ {<<s, p>>} /\ <<s, p>> \notin Working
      BY <1>a, <2>2, <3>1, SessionMoves
    <3>3. Working' = Working
      BY <3>2
    <3>4. Counted
      BY <1>7, <1>c, <2>2, <3>3, HoldersStay DEF GiveUp
    <3> QED  BY <1>b, <1>2, <2>2, <3>1, <3>4
  <2> QED  BY <1>7, <2>1, <2>2 DEF GiveUp
<1>8. ASSUME NEW s \in Searches, NEW v \in {"answered", "failed"}, s \in Running,
             request' = [request EXCEPT ![s] = v], dbSession' = dbSession, out' = out - 1
      PROVE  PoolInv'
  <2>1. Running' = Running \ {s}
    BY <1>a, <1>8, RequestMoves
  <2>2. Counted
    BY <1>8, <1>c, <2>1, OneGivenBack
  <2> QED  BY <1>b, <1>3, <1>8, <2>2
<1>9. ASSUME NEW s \in Searches, Gather(s) PROVE PoolInv'
  <2>1. s \in Running
    BY <1>9 DEF Gather, Running
  <2>2. CASE /\ request' = [request EXCEPT ![s] = "fetches"]
             /\ dbSession' = [dbSession EXCEPT ![s]["fetch"] = "waits"] /\ UNCHANGED out
    <3>1. "fetch" \in SessionKinds /\ "waits" \in SessionStates
      BY DEF SessionKinds, SessionStates
    <3>2. Running' = Running \cup {s}
      BY <1>a, <2>2, RequestMoves
    <3>3. PoolTypeInv'
      BY <1>a, <2>2, <3>1, RequestMoves, SessionMoves DEF PoolTypeInv
    <3>4. SessionsInOrder'
      BY <1>a, <2>2 DEF PoolTypeInv, SessionsInOrder
    <3>5. dbSession[s]["fetch"] # "works"
      BY <1>a, <1>9 DEF Gather, SessionsInOrder
    <3>6. Working' = Working \ {<<s, "fetch">>} /\ <<s, "fetch">> \notin Working
      BY <1>a, <2>2, <3>1, <3>5, SessionMoves
    <3>7. Running' = Running /\ Working' = Working
      BY <2>1, <3>2, <3>6
    <3>8. Counted
      BY <2>2, <3>7, HoldersStay
    <3> QED  BY <1>b, <3>3, <3>4, <3>8
  <2> QED  BY <1>8, <1>9, <2>1, <2>2 DEF Gather, GivenBack
<1>10. ASSUME NEW s \in Searches, Raise(s) \/ AnswerSearch(s) PROVE PoolInv'
  BY <1>8, <1>10 DEF Raise, AnswerSearch, GivenBack, Running
<1>11. CASE UNCHANGED poolVars
  BY <1>a, <1>11 DEF poolVars, PoolInv, PoolTypeInv, SessionsInOrder, Running, Working
<1> QED
  BY <1>1, <1>4, <1>5, <1>6, <1>7, <1>9, <1>10, <1>11 DEF PoolNext, SearchStep

LEMMA InitRight == PoolInit => PoolInv
<1> SUFFICES ASSUME PoolInit PROVE PoolInv
  OBVIOUS
<1>1. Running = {} /\ Working = {}
  BY DEF PoolInit, Running, Working
<1>2. out = Cardinality(Running) + Cardinality(Working)
  BY <1>1, FS_EmptySet DEF PoolInit
<1> QED
  BY <1>2, PoolAssumption DEF PoolInit, PoolInv, PoolTypeInv, SessionStates, SessionsInOrder

-----------------------------------------------------------------------------
(* Theorems                                                                *)

\* The connections the pool counts are those of the requests that run and of the sessions at work,
\* and never more than it has, whatever closes, raises, times out or is left running (db.py,
\* search.py).
THEOREM PoolInvariant == PoolSpec => []PoolInv
BY InitRight, InvNext, PTL DEF PoolSpec

\* Every variable has its type, and no more connections are out than the pool has.
THEOREM PoolTypes == PoolSpec => []PoolTypeOK
<1>1. ASSUME PoolInv PROVE PoolTypeOK
  <2>1. PICK m \in Nat : m = Cardinality(Running)
    BY HoldersAreFinite
  <2>2. PICK n \in Nat : n = Cardinality(Working)
    BY HoldersAreFinite
  <2>3. out \in 0..PoolSize
    BY <1>1, <2>1, <2>2, PoolAssumption DEF PoolInv
  <2> QED  BY <1>1, <2>3 DEF PoolInv, PoolTypeInv, SessionStates, PoolTypeOK
<1> QED  BY <1>1, PoolInvariant, PTL

\* While fewer searches run than the pool has connections, one of these is at work for a session
\* that gives it back, or free: no connection is lost to what has failed before (get_db,
\* merged_search).
THEOREM NeverJam == PoolSpec => []FewerNeverJam
<1>1. ASSUME PoolInv PROVE FewerNeverJam
  <2> SUFFICES ASSUME Cardinality(Running) < PoolSize, Working = {} PROVE ~Full
    BY DEF FewerNeverJam
  <2>1. out = Cardinality(Running)
    BY <1>1, FS_EmptySet, HoldersAreFinite DEF PoolInv
  <2> QED  BY <2>1, HoldersAreFinite, PoolAssumption DEF Full
<1> QED  BY <1>1, PoolInvariant, PTL

-----------------------------------------------------------------------------
(* Links                                                                   *)

Locals == {"none", "active", "inactive", "gone"}
Uploads == {"idle", "sent", "stored", "answered", "refused", "saved"}
LinkStates == [local : Locals, upload : Uploads, waits : BOOLEAN, delete : {"idle", "called", "done"},
               expires : 0..MaxClock, password : BOOLEAN, row : BOOLEAN, file : BOOLEAN]

TypesBeside ==
  /\ clock \in 0..MaxClock /\ faults \in 0..MaxShareFaults
  /\ document \in {"live", "trash", "gone"} /\ keyValid \in BOOLEAN
  /\ removing \subseteq {"request", "cli"} \X Links
  /\ sweep \in [todo : SUBSET Links, at : Links \cup {NoLink}]
  /\ cookie \in [Visitors -> [link : Links \cup {NoLink}, until : Nat]]
  /\ visit \in [Visitors -> [pc : {"idle", "checked", "served"}, link : Links \cup {NoLink}]]
  /\ entered \in [Visitors -> SUBSET Links]
  /\ strayed \subseteq Links /\ unconfirmed \subseteq Links /\ handled \subseteq Links

\* An upload that was answered, and who removes what it has made.
Made(l) == link[l].upload \in {"answered", "saved"}
Asked(l) == <<"request", l>> \in removing
ByHand(l) == <<"cli", l>> \in removing
Swept(l) == l \in sweep.todo \/ l = sweep.at

\* Only what was answered has a row or is removed, only what was saved is shown or deleted.
MadeFirst(l) ==
  /\ HasRow(l) \/ Asked(l) \/ ByHand(l) \/ Swept(l) => Made(l)
  /\ link[l].local # "none" \/ link[l].delete # "idle" => link[l].upload = "saved"

\* The clean-up goes by links that have ended.
EndedFirst(l) == Swept(l) => clock > link[l].expires

\* A file is gone, or noted, before its row is removed.
FileFirst(l) == l = sweep.at \/ Asked(l) \/ ByHand(l) => ~link[l].file \/ l \in strayed

\* What removes a link is a deletion of the backend that is under way, or is noted.
DeletedFirst(l) == l \notin handled => ~ByHand(l) /\ (Asked(l) => link[l].delete = "called")

\* A link that was answered has its row and its file until it ends or is deleted.
OpenFits(l) ==
  /\ l \notin handled /\ (link[l].upload = "answered" \/ link[l].local = "active")
  /\ link[l].delete = "idle" /\ clock <= link[l].expires
  => HasRow(l) /\ link[l].file

\* A deletion that is done or committed has removed the row, or is noted.
ClosedFits(l) ==
  l \notin unconfirmed /\ (link[l].delete = "done" \/ link[l].local = "inactive") => ~HasRow(l)

FileFits(l) ==
  /\ l \notin strayed /\ link[l].file => HasRow(l) \/ link[l].upload = "stored"
  /\ link[l].upload = "stored" => link[l].file

LinkFits(l) ==
  /\ MadeFirst(l) /\ EndedFirst(l) /\ FileFirst(l) /\ DeletedFirst(l)
  /\ OpenFits(l) /\ ClosedFits(l) /\ FileFits(l)

\* A cookie, and a visit to a link with a password, are of a link whose password was given.
VisitFits(v) ==
  /\ cookie[v].link # NoLink => cookie[v].link \in entered[v]
  /\ visit[v].pc # "idle" =>
       /\ visit[v].link \in Links /\ Made(visit[v].link)
       /\ link[visit[v].link].password => visit[v].link \in entered[v]

LinksInv ==
  /\ link \in [Links -> LinkStates] /\ TypesBeside
  /\ \A l \in Links : LinkFits(l)
  /\ \A v \in Visitors : VisitFits(v)

-----------------------------------------------------------------------------
(* Steps of a link                                                         *)

\* A day is over before the next begins.
LEMMA DaysRise ==
    ASSUME NEW a \in Nat, NEW b \in Nat, Day(a) < Day(b)
    PROVE  a < b
BY ShareAssumption DEF Day

LEMMA StartFits == ShareInit => LinksInv
<1> SUFFICES ASSUME ShareInit PROVE LinksInv
  OBVIOUS
<1> USE ShareAssumption
<1>1. NewLink \in LinkStates
  BY DEF NewLink, LinkStates, Locals, Uploads
<1>2. link \in [Links -> LinkStates]
  BY <1>1 DEF ShareInit
<1>3. TypesBeside
  BY DEF ShareInit, TypesBeside, NoVisit
<1>4. ASSUME NEW l \in Links PROVE LinkFits(l)
  BY <1>4 DEF ShareInit, LinkFits, MadeFirst, EndedFirst, FileFirst, DeletedFirst, OpenFits, ClosedFits,
              FileFits, NewLink, HasRow, Made, Asked, ByHand, Swept
<1>5. ASSUME NEW v \in Visitors PROVE VisitFits(v)
  BY <1>5 DEF ShareInit, VisitFits, NoVisit
<1> QED  BY <1>2, <1>3, <1>4, <1>5 DEF LinksInv

LEMMA TypesBesideKept == TypesBeside /\ [ShareNext]_shareVars => TypesBeside'
<1> SUFFICES ASSUME TypesBeside, [ShareNext]_shareVars PROVE TypesBeside'
  OBVIOUS
<1> USE ShareAssumption DEF TypesBeside
<1>1. ASSUME NEW l \in Links, NEW life \in Lifetimes, NEW password \in BOOLEAN,
             CreateLink(l, life, password)
      PROVE  TypesBeside'
  BY <1>1 DEF CreateLink, ghosts
<1>2. ASSUME NEW l \in Links, HandleInternalUpload(l) PROVE TypesBeside'
  BY <1>2 DEF HandleInternalUpload, Fault
<1>3. ASSUME NEW l \in Links, CreateShareLink(l) PROVE TypesBeside'
  BY <1>3 DEF CreateShareLink, Fault, ghosts
<1>4. ASSUME NEW l \in Links, CallerGone(l) PROVE TypesBeside'
  BY <1>4 DEF CallerGone, Fault, ghosts
<1>5. ASSUME NEW l \in Links, SaveLink(l) \/ DeleteLink(l) \/ DeleteCommit(l)
      PROVE  TypesBeside'
  BY <1>5 DEF SaveLink, DeleteLink, DeleteCommit, ghosts
<1>6. ASSUME NEW l \in Links, HandleInternalDelete(l) PROVE TypesBeside'
  BY <1>6 DEF HandleInternalDelete, RemoveFile, Fault
<1>7. ASSUME NEW l \in Links, DeleteAnswered(l) PROVE TypesBeside'
  BY <1>7 DEF DeleteAnswered, Fault
<1>8. ASSUME NEW l \in Links, DeleteLost(l) PROVE TypesBeside'
  BY <1>8 DEF DeleteLost, Fault
<1>9. ASSUME NEW l \in Links, CliDelete(l) PROVE TypesBeside'
  BY <1>9 DEF CliDelete, Fault
<1>10. ASSUME NEW l \in Links, NEW who \in {"request", "cli"}, DeleteShareLink(who, l)
      PROVE  TypesBeside'
  BY <1>10 DEF DeleteShareLink, ghosts
<1>11. ASSUME NEW state \in {"live", "trash", "gone"}, Document(state) PROVE TypesBeside'
  BY <1>11 DEF Document, Fault, ghosts
<1>12. ASSUME GetExpiredLinks PROVE TypesBeside'
  BY <1>12 DEF GetExpiredLinks, ghosts
<1>13. ASSUME NEW l \in Links, SweepFile(l) PROVE TypesBeside'
  BY <1>13 DEF SweepFile, RemoveFile, Fault
<1>14. ASSUME NEW l \in Links, PurgeLink(l) PROVE TypesBeside'
  BY <1>14 DEF PurgeLink, ghosts
<1>15. ASSUME ChangeKey PROVE TypesBeside'
  BY <1>15 DEF ChangeKey, Fault, ghosts
<1>16. ASSUME ShareServerRestart PROVE TypesBeside'
  <2>1. visit' \in [Visitors -> [pc : {"idle", "checked", "served"}, link : Links \cup {NoLink}]]
    BY <1>16 DEF ShareServerRestart, NoVisit
  <2>2. strayed' \subseteq Links /\ unconfirmed' \subseteq Links
    BY <1>16 DEF ShareServerRestart
  <2>3. removing' = {} /\ sweep' \in [todo : SUBSET Links, at : Links \cup {NoLink}]
    BY <1>16 DEF ShareServerRestart
  <2>4. faults' \in 0..MaxShareFaults
    <3>1. faults' = faults + 1 /\ faults < MaxShareFaults
      BY <1>16 DEF ShareServerRestart, Fault
    <3> QED  BY <3>1
  <2>5. UNCHANGED <<clock, document, keyValid, cookie, entered, handled>>
    BY <1>16 DEF ShareServerRestart
  <2> QED  BY <2>1, <2>2, <2>3, <2>4, <2>5
<1>17. ASSUME NEW v \in Visitors, NEW l \in Links, HandleVerify(v, l) PROVE TypesBeside'
  BY <1>17 DEF HandleVerify
<1>18. ASSUME NEW v \in Visitors, NEW l \in Links, HandleDownload(v, l) PROVE TypesBeside'
  BY <1>18 DEF HandleDownload, ghosts
<1>19. ASSUME NEW v \in Visitors, ServeFile(v) \/ Leave(v) PROVE TypesBeside'
  BY <1>19 DEF ServeFile, Leave, NoVisit, ghosts
<1>20. ASSUME ClockTick PROVE TypesBeside'
  BY <1>20 DEF ClockTick, ghosts
<1>21. ASSUME UNCHANGED shareVars PROVE TypesBeside'
  BY <1>21 DEF shareVars, ghosts
<1> QED
  BY <1>1, <1>2, <1>3, <1>4, <1>5, <1>6, <1>7, <1>8, <1>9, <1>10, <1>11,
     <1>12, <1>13, <1>14, <1>15, <1>16, <1>17, <1>18, <1>19, <1>20, <1>21
  DEF ShareNext, CleanUp

\* What leaves a link alone, and brings nobody to remove it, leaves it in order.
LEMMA Elsewhere ==
    ASSUME NEW m \in Links, LinkFits(m), link'[m] = link[m], clock' = clock,
           Swept(m)' => Swept(m), m = sweep'.at => m = sweep.at,
           Asked(m)' => Asked(m), ByHand(m)' => ByHand(m),
           strayed \subseteq strayed', unconfirmed \subseteq unconfirmed', handled \subseteq handled'
    PROVE  LinkFits(m)'
BY DEF LinkFits, MadeFirst, EndedFirst, FileFirst, DeletedFirst, OpenFits, ClosedFits, FileFits,
   HasRow, Made

\* Visits are not disturbed where an upload that was answered stays so.
LEMMA VisitsStay ==
    ASSUME \A v \in Visitors : VisitFits(v), UNCHANGED <<cookie, visit, entered>>,
           \A m \in Links : Made(m) => Made(m)' /\ link'[m].password = link[m].password
    PROVE  \A v \in Visitors : VisitFits(v)'
BY DEF VisitFits

\* A step at one link.
LEMMA OneLink ==
    ASSUME LinksInv, TypesBeside', NEW l \in Links, NEW r \in LinkStates,
           link' = [link EXCEPT ![l] = r],
           UNCHANGED <<clock, cookie, visit, entered>>,
           \A m \in Links \ {l} :
             /\ Swept(m)' => Swept(m)
             /\ m = sweep'.at => m = sweep.at
             /\ Asked(m)' => Asked(m)
             /\ ByHand(m)' => ByHand(m),
           strayed \subseteq strayed', unconfirmed \subseteq unconfirmed', handled \subseteq handled',
           Made(l) => r.upload \in {"answered", "saved"} /\ r.password = link[l].password,
           link'[l] = r => LinkFits(l)'
    PROVE  LinksInv'
<1>1. /\ link' \in [Links -> LinkStates] /\ link'[l] = r
      /\ \A m \in Links \ {l} : link'[m] = link[m]
  BY DEF LinksInv
<1>2. ASSUME NEW m \in Links \ {l} PROVE LinkFits(m)'
  BY <1>1, Elsewhere DEF LinksInv
<1>3. \A m \in Links : Made(m) => Made(m)' /\ link'[m].password = link[m].password
  BY <1>1 DEF Made
<1>4. \A v \in Visitors : VisitFits(v)'
  BY <1>3, VisitsStay DEF LinksInv
<1> QED  BY <1>1, <1>2, <1>4 DEF LinksInv

LEMMA CreateLinkFits ==
    ASSUME LinksInv, TypesBeside', NEW l \in Links, NEW life \in Lifetimes, NEW password \in BOOLEAN,
           CreateLink(l, life, password)
    PROVE  LinksInv'
<1> USE ShareAssumption
<1>0. clock + life \in 0..MaxClock
  <2>1. clock \in Nat /\ life \in Nat /\ Day(clock + life) < Day(MaxClock)
    BY DEF LinksInv, TypesBeside, CreateLink
  <2>2. clock + life < MaxClock
    BY <2>1, DaysRise
  <2> QED  BY <2>1, <2>2
<1> DEFINE r == [link[l] EXCEPT !.upload = "sent", !.waits = TRUE, !.password = password,
                                !.expires = clock + life]
<1>1. link[l] \in LinkStates
  BY DEF LinksInv
<1>2. r \in LinkStates
  BY <1>1, <1>0 DEF LinkStates, Locals, Uploads
<1>3. link' = [link EXCEPT ![l] = r]
  BY DEF CreateLink, Expiry
<1>4. /\ r.upload = "sent" /\ r.waits = TRUE /\ r.password = password /\ r.expires = clock + life
      /\ r.local = link[l].local /\ r.delete = link[l].delete /\ r.row = link[l].row
      /\ r.file = link[l].file
  BY <1>1 DEF LinkStates
<1>5. /\ link[l].upload = "idle"
      /\ UNCHANGED <<clock, cookie, visit, entered, removing, sweep, strayed, unconfirmed, handled>>
  BY DEF CreateLink, Expiry, ghosts
<1>6. LinkFits(l)
  BY DEF LinksInv
<1>7. ASSUME link'[l] = r PROVE LinkFits(l)'
  BY <1>4, <1>5, <1>6, <1>7 DEF LinkFits, MadeFirst, EndedFirst, FileFirst,
     DeletedFirst, OpenFits, ClosedFits, FileFits, HasRow, Made, Asked, ByHand, Swept
<1> HIDE DEF r
<1> QED  BY <1>2, <1>3, <1>4, <1>5, <1>6, <1>7, OneLink DEF Asked, ByHand, Swept, Made

LEMMA CallerGoneFits ==
    ASSUME LinksInv, TypesBeside', NEW l \in Links, CallerGone(l)
    PROVE  LinksInv'
<1> USE ShareAssumption
<1> DEFINE r == [link[l] EXCEPT !.waits = FALSE]
<1>1. link[l] \in LinkStates
  BY DEF LinksInv
<1>2. r \in LinkStates
  BY <1>1 DEF LinkStates, Locals, Uploads
<1>3. link' = [link EXCEPT ![l] = r]
  BY DEF CallerGone
<1>4. /\ r.waits = FALSE
      /\ r.local = link[l].local /\ r.upload = link[l].upload /\ r.delete = link[l].delete
      /\ r.expires = link[l].expires /\ r.password = link[l].password /\ r.row = link[l].row
      /\ r.file = link[l].file
  BY <1>1 DEF LinkStates
<1>5. /\ UNCHANGED <<clock, cookie, visit, entered, removing, sweep, strayed, unconfirmed, handled>>
  BY DEF CallerGone, ghosts
<1>6. LinkFits(l)
  BY DEF LinksInv
<1>7. ASSUME link'[l] = r PROVE LinkFits(l)'
  BY <1>4, <1>5, <1>6, <1>7 DEF LinkFits, MadeFirst, EndedFirst, FileFirst,
     DeletedFirst, OpenFits, ClosedFits, FileFits, HasRow, Made, Asked, ByHand, Swept
<1> HIDE DEF r
<1> QED  BY <1>2, <1>3, <1>4, <1>5, <1>6, <1>7, OneLink DEF Asked, ByHand, Swept, Made

LEMMA DeleteLinkFits ==
    ASSUME LinksInv, TypesBeside', NEW l \in Links, DeleteLink(l)
    PROVE  LinksInv'
<1> USE ShareAssumption
<1> DEFINE r == [link[l] EXCEPT !.delete = "called"]
<1>1. link[l] \in LinkStates
  BY DEF LinksInv
<1>2. r \in LinkStates
  BY <1>1 DEF LinkStates, Locals, Uploads
<1>3. link' = [link EXCEPT ![l] = r]
  BY DEF DeleteLink
<1>4. /\ r.delete = "called"
      /\ r.local = link[l].local /\ r.upload = link[l].upload /\ r.waits = link[l].waits
      /\ r.expires = link[l].expires /\ r.password = link[l].password /\ r.row = link[l].row
      /\ r.file = link[l].file
  BY <1>1 DEF LinkStates
<1>5. /\ link[l].local = "active" /\ link[l].delete = "idle"
      /\ UNCHANGED <<clock, cookie, visit, entered, removing, sweep, strayed, unconfirmed, handled>>
  BY DEF DeleteLink, ghosts
<1>6. LinkFits(l)
  BY DEF LinksInv
<1>7. ASSUME link'[l] = r PROVE LinkFits(l)'
  BY <1>4, <1>5, <1>6, <1>7 DEF LinkFits, MadeFirst, EndedFirst, FileFirst,
     DeletedFirst, OpenFits, ClosedFits, FileFits, HasRow, Made, Asked, ByHand, Swept
<1> HIDE DEF r
<1> QED  BY <1>2, <1>3, <1>4, <1>5, <1>6, <1>7, OneLink DEF Asked, ByHand, Swept, Made

LEMMA SaveLinkFits ==
    ASSUME LinksInv, TypesBeside', NEW l \in Links, SaveLink(l)
    PROVE  LinksInv'
<1> USE ShareAssumption
<1> DEFINE upload == IF link[l].upload = "answered" THEN "saved" ELSE link[l].upload
           local == IF link[l].upload = "answered" /\ document # "gone" THEN "active"
                    ELSE link[l].local
           r == [link[l] EXCEPT !.waits = FALSE, !.upload = upload, !.local = local]
<1>1. link[l] \in LinkStates
  BY DEF LinksInv
<1>2. r \in LinkStates
  BY <1>1 DEF LinkStates, Locals, Uploads
<1>3. link' = [link EXCEPT ![l] = r]
  BY DEF SaveLink
<1>4. /\ r.waits = FALSE /\ r.upload = upload /\ r.local = local
      /\ r.delete = link[l].delete /\ r.expires = link[l].expires /\ r.password = link[l].password
      /\ r.row = link[l].row /\ r.file = link[l].file
  BY <1>1 DEF LinkStates
<1>5. /\ link[l].upload \in {"answered", "refused"}
      /\ UNCHANGED <<clock, cookie, visit, entered, removing, sweep, strayed, unconfirmed, handled>>
  BY DEF SaveLink, ghosts
<1>6. LinkFits(l)
  BY DEF LinksInv
<1>7. ASSUME link'[l] = r PROVE LinkFits(l)'
  BY <1>4, <1>5, <1>6, <1>7 DEF LinkFits, MadeFirst, EndedFirst, FileFirst,
     DeletedFirst, OpenFits, ClosedFits, FileFits, HasRow, Made, Asked, ByHand, Swept
<1> HIDE DEF r
<1> QED  BY <1>2, <1>3, <1>4, <1>5, <1>6, <1>7, OneLink DEF Asked, ByHand, Swept, Made

LEMMA DeleteCommitFits ==
    ASSUME LinksInv, TypesBeside', NEW l \in Links, DeleteCommit(l)
    PROVE  LinksInv'
<1> USE ShareAssumption
<1> DEFINE local == IF link[l].local = "active" THEN "inactive" ELSE link[l].local
           r == [link[l] EXCEPT !.delete = "idle", !.local = local]
<1>1. link[l] \in LinkStates
  BY DEF LinksInv
<1>2. r \in LinkStates
  BY <1>1 DEF LinkStates, Locals, Uploads
<1>3. link' = [link EXCEPT ![l] = r]
  BY DEF DeleteCommit
<1>4. /\ r.delete = "idle" /\ r.local = local
      /\ r.upload = link[l].upload /\ r.waits = link[l].waits /\ r.expires = link[l].expires
      /\ r.password = link[l].password /\ r.row = link[l].row /\ r.file = link[l].file
  BY <1>1 DEF LinkStates
<1>5. /\ link[l].delete = "done"
      /\ UNCHANGED <<clock, cookie, visit, entered, removing, sweep, strayed, unconfirmed, handled>>
  BY DEF DeleteCommit, ghosts
<1>6. LinkFits(l)
  BY DEF LinksInv
<1>7. ASSUME link'[l] = r PROVE LinkFits(l)'
  BY <1>4, <1>5, <1>6, <1>7 DEF LinkFits, MadeFirst, EndedFirst, FileFirst,
     DeletedFirst, OpenFits, ClosedFits, FileFits, HasRow, Made, Asked, ByHand, Swept
<1> HIDE DEF r
<1> QED  BY <1>2, <1>3, <1>4, <1>5, <1>6, <1>7, OneLink DEF Asked, ByHand, Swept, Made

LEMMA DeleteLostFits ==
    ASSUME LinksInv, TypesBeside', NEW l \in Links, DeleteLost(l)
    PROVE  LinksInv'
<1> USE ShareAssumption
<1> DEFINE r == [link[l] EXCEPT !.delete = "idle"]
<1>1. link[l] \in LinkStates
  BY DEF LinksInv
<1>2. r \in LinkStates
  BY <1>1 DEF LinkStates, Locals, Uploads
<1>3. link' = [link EXCEPT ![l] = r]
  BY DEF DeleteLost
<1>4. /\ r.delete = "idle"
      /\ r.local = link[l].local /\ r.upload = link[l].upload /\ r.waits = link[l].waits
      /\ r.expires = link[l].expires /\ r.password = link[l].password /\ r.row = link[l].row
      /\ r.file = link[l].file
  BY <1>1 DEF LinkStates
<1>5. /\ handled' = handled \cup {l}
      /\ UNCHANGED <<clock, cookie, visit, entered, removing, sweep, strayed, unconfirmed>>
  BY DEF DeleteLost, ghosts
<1>6. LinkFits(l)
  BY DEF LinksInv
<1>7. ASSUME link'[l] = r PROVE LinkFits(l)'
  BY <1>4, <1>5, <1>6, <1>7 DEF LinkFits, MadeFirst, EndedFirst, FileFirst,
     DeletedFirst, OpenFits, ClosedFits, FileFits, HasRow, Made, Asked, ByHand, Swept
<1> HIDE DEF r
<1> QED  BY <1>2, <1>3, <1>4, <1>5, <1>6, <1>7, OneLink DEF Asked, ByHand, Swept, Made

LEMMA DeleteAnsweredFits ==
    ASSUME LinksInv, TypesBeside', NEW l \in Links, DeleteAnswered(l)
    PROVE  LinksInv'
<1> USE ShareAssumption
<1> DEFINE r == [link[l] EXCEPT !.delete = "done"]
<1>1. link[l] \in LinkStates
  BY DEF LinksInv
<1>2. r \in LinkStates
  BY <1>1 DEF LinkStates, Locals, Uploads
<1>3. link' = [link EXCEPT ![l] = r]
  BY DEF DeleteAnswered
<1>4. /\ r.delete = "done"
      /\ r.local = link[l].local /\ r.upload = link[l].upload /\ r.waits = link[l].waits
      /\ r.expires = link[l].expires /\ r.password = link[l].password /\ r.row = link[l].row
      /\ r.file = link[l].file
  BY <1>1 DEF LinkStates
<1>5. /\ link[l].delete = "called" /\ ~Asked(l)
      /\ unconfirmed \subseteq unconfirmed' /\ (HasRow(l) => l \in unconfirmed')
      /\ UNCHANGED <<clock, cookie, visit, entered, removing, sweep, strayed, handled>>
  BY DEF DeleteAnswered, HasRow, Asked
<1>6. LinkFits(l)
  BY DEF LinksInv
<1>7. ASSUME link'[l] = r PROVE LinkFits(l)'
  BY <1>4, <1>5, <1>6, <1>7 DEF LinkFits, MadeFirst, EndedFirst, FileFirst,
     DeletedFirst, OpenFits, ClosedFits, FileFits, HasRow, Made, Asked, ByHand, Swept
<1> HIDE DEF r
<1> QED  BY <1>2, <1>3, <1>4, <1>5, <1>6, <1>7, OneLink DEF Asked, ByHand, Swept, Made

LEMMA CliDeleteFits ==
    ASSUME LinksInv, TypesBeside', NEW l \in Links, CliDelete(l)
    PROVE  LinksInv'
<1> USE ShareAssumption
<1> DEFINE r == [link[l] EXCEPT !.file = FALSE]
<1>1. link[l] \in LinkStates
  BY DEF LinksInv
<1>2. r \in LinkStates
  BY <1>1 DEF LinkStates, Locals, Uploads
<1>3. link' = [link EXCEPT ![l] = r]
  BY DEF CliDelete
<1>4. /\ r.file = FALSE
      /\ r.local = link[l].local /\ r.upload = link[l].upload /\ r.waits = link[l].waits
      /\ r.delete = link[l].delete /\ r.expires = link[l].expires /\ r.password = link[l].password
      /\ r.row = link[l].row
  BY <1>1 DEF LinkStates
<1>5. /\ HasRow(l) /\ removing' = removing \cup {<<"cli", l>>} /\ handled' = handled \cup {l}
      /\ UNCHANGED <<clock, cookie, visit, entered, sweep, strayed, unconfirmed>>
  BY DEF CliDelete, ghosts
<1>6. LinkFits(l)
  BY DEF LinksInv
<1>7. ASSUME link'[l] = r PROVE LinkFits(l)'
  BY <1>4, <1>5, <1>6, <1>7 DEF LinkFits, MadeFirst, EndedFirst, FileFirst,
     DeletedFirst, OpenFits, ClosedFits, FileFits, HasRow, Made, Asked, ByHand, Swept
<1> HIDE DEF r
<1> QED  BY <1>2, <1>3, <1>4, <1>5, <1>6, <1>7, OneLink DEF Asked, ByHand, Swept, Made

LEMMA DeleteShareLinkFits ==
    ASSUME LinksInv, TypesBeside', NEW who \in {"request", "cli"}, NEW l \in Links,
           DeleteShareLink(who, l)
    PROVE  LinksInv'
<1> USE ShareAssumption
<1> DEFINE delete == IF who = "request" /\ link[l].delete = "called" THEN "done" ELSE link[l].delete
           r == [link[l] EXCEPT !.row = FALSE, !.delete = delete]
<1>1. link[l] \in LinkStates
  BY DEF LinksInv
<1>2. r \in LinkStates
  BY <1>1 DEF LinkStates, Locals, Uploads
<1>3. link' = [link EXCEPT ![l] = r]
  BY DEF DeleteShareLink
<1>4. /\ r.row = FALSE /\ r.delete = delete
      /\ r.local = link[l].local /\ r.upload = link[l].upload /\ r.waits = link[l].waits
      /\ r.expires = link[l].expires /\ r.password = link[l].password /\ r.file = link[l].file
  BY <1>1 DEF LinkStates
<1>5. /\ <<who, l>> \in removing /\ removing' = removing \ {<<who, l>>}
      /\ UNCHANGED <<clock, cookie, visit, entered, sweep, strayed, unconfirmed, handled>>
  BY DEF DeleteShareLink, ghosts
<1>6. LinkFits(l)
  BY DEF LinksInv
<1>8. /\ Asked(l)' <=> Asked(l) /\ who # "request"
      /\ ByHand(l)' <=> ByHand(l) /\ who # "cli"
      /\ Asked(l) \/ ByHand(l)
      /\ who = "request" => Asked(l)
  BY <1>5 DEF Asked, ByHand
<1>7. ASSUME link'[l] = r PROVE LinkFits(l)'
  <2>1. MadeFirst(l)' /\ EndedFirst(l)' /\ FileFirst(l)'
    BY <1>4, <1>5, <1>6, <1>7, <1>8
    DEF LinkFits, MadeFirst, EndedFirst, FileFirst, HasRow, Made, Swept
  <2>2. DeletedFirst(l)'
    BY <1>4, <1>5, <1>6, <1>7, <1>8 DEF LinkFits, DeletedFirst
  <2>3. OpenFits(l)'
    BY <1>4, <1>5, <1>6, <1>7, <1>8 DEF LinkFits, OpenFits, DeletedFirst
  <2>4. ClosedFits(l)' /\ FileFits(l)'
    BY <1>4, <1>5, <1>6, <1>7, <1>8 DEF LinkFits, ClosedFits, FileFits, FileFirst, HasRow
  <2> QED  BY <2>1, <2>2, <2>3, <2>4 DEF LinkFits
<1> HIDE DEF r
<1> QED  BY <1>2, <1>3, <1>4, <1>5, <1>6, <1>7, OneLink DEF Asked, ByHand, Swept, Made

LEMMA PurgeLinkFits ==
    ASSUME LinksInv, TypesBeside', NEW l \in Links, PurgeLink(l)
    PROVE  LinksInv'
<1> USE ShareAssumption
<1> DEFINE r == [link[l] EXCEPT !.row = FALSE]
<1>1. link[l] \in LinkStates
  BY DEF LinksInv
<1>2. r \in LinkStates
  BY <1>1 DEF LinkStates, Locals, Uploads
<1>3. link' = [link EXCEPT ![l] = r]
  BY DEF PurgeLink
<1>4. /\ r.row = FALSE
      /\ r.local = link[l].local /\ r.upload = link[l].upload /\ r.waits = link[l].waits
      /\ r.delete = link[l].delete /\ r.expires = link[l].expires /\ r.password = link[l].password
      /\ r.file = link[l].file
  BY <1>1 DEF LinkStates
<1>5. /\ sweep.at = l /\ sweep' = [sweep EXCEPT !.at = NoLink]
      /\ sweep'.at = NoLink /\ sweep'.todo = sweep.todo
      /\ UNCHANGED <<clock, cookie, visit, entered, removing, strayed, unconfirmed, handled>>
  BY DEF PurgeLink, ghosts, LinksInv, TypesBeside
<1>6. LinkFits(l)
  BY DEF LinksInv
<1>8. /\ Swept(l) /\ (Swept(l)' => Swept(l)) /\ l # sweep'.at
      /\ Asked(l)' <=> Asked(l)
      /\ ByHand(l)' <=> ByHand(l)
  BY <1>5 DEF Asked, ByHand, Swept
<1>7. ASSUME link'[l] = r PROVE LinkFits(l)'
  <2>1. MadeFirst(l)' /\ EndedFirst(l)'
    BY <1>4, <1>5, <1>6, <1>7, <1>8 DEF LinkFits, MadeFirst, EndedFirst, HasRow, Made
  <2>2. FileFirst(l)' /\ DeletedFirst(l)'
    BY <1>4, <1>5, <1>6, <1>7, <1>8 DEF LinkFits, FileFirst, DeletedFirst
  <2>3. OpenFits(l)'
    <3>1. clock > link[l].expires
      BY <1>6, <1>8 DEF LinkFits, EndedFirst
    <3>2. clock \in Nat /\ link[l].expires \in Nat
      BY <1>1 DEF LinksInv, TypesBeside, LinkStates
    <3> QED  BY <1>4, <1>5, <1>7, <3>1, <3>2 DEF OpenFits
  <2>4. ClosedFits(l)' /\ FileFits(l)'
    BY <1>4, <1>5, <1>6, <1>7 DEF LinkFits, ClosedFits, FileFits, FileFirst, MadeFirst, Made, Swept, HasRow
  <2> QED  BY <2>1, <2>2, <2>3, <2>4 DEF LinkFits
<1> HIDE DEF r
<1> QED  BY <1>2, <1>3, <1>4, <1>5, <1>6, <1>7, OneLink DEF Asked, ByHand, Swept, Made

LEMMA HandleInternalUploadFits ==
    ASSUME LinksInv, TypesBeside', NEW l \in Links, HandleInternalUpload(l)
    PROVE  LinksInv'
<1>1. link[l] \in LinkStates /\ LinkFits(l)
  BY DEF LinksInv
<1>2. PICK upload \in {"stored", "refused"}, file \in BOOLEAN :
        /\ link' = [link EXCEPT ![l].upload = upload, ![l].file = file]
        /\ upload = "stored" => file
        /\ upload = "refused" => file = link[l].file \/ l \in strayed'
  <2>1. link[l].file \in BOOLEAN
    BY <1>1 DEF LinkStates
  <2>2. CASE link' = [link EXCEPT ![l].upload = "stored", ![l].file = TRUE]
    BY <2>2
  <2>3. CASE link' = [link EXCEPT ![l].upload = "refused"]
    <3>1. link' = [link EXCEPT ![l] = [link[l] EXCEPT !.upload = "refused"]]
      BY <2>3
    <3>2. [link[l] EXCEPT !.upload = "refused"]
            = [link[l] EXCEPT !.upload = "refused", !.file = link[l].file]
      BY <1>1 DEF LinkStates
    <3>3. link' = [link EXCEPT ![l].upload = "refused", ![l].file = link[l].file]
      BY <3>1, <3>2
    <3> QED  BY <3>3, <2>1
  <2>4. CASE /\ link' = [link EXCEPT ![l].upload = "refused", ![l].file = TRUE]
             /\ strayed' = strayed \cup {l}
    BY <2>4
  <2> QED  BY <2>2, <2>3, <2>4 DEF HandleInternalUpload
<1> DEFINE r == [link[l] EXCEPT !.upload = upload, !.file = file]
<1>3. r \in LinkStates /\ link' = [link EXCEPT ![l] = r]
  BY <1>1, <1>2 DEF LinkStates, Uploads
<1>4. /\ r.upload = upload /\ r.file = file /\ r.local = link[l].local /\ r.delete = link[l].delete
      /\ r.expires = link[l].expires /\ r.password = link[l].password /\ r.row = link[l].row
  BY <1>1 DEF LinkStates
<1>5. /\ link[l].upload = "sent" /\ strayed \subseteq strayed'
      /\ UNCHANGED <<clock, cookie, visit, entered, removing, sweep, unconfirmed, handled>>
  BY DEF HandleInternalUpload
<1> HIDE DEF r
<1>6. LinkFits(l)
  BY <1>1
<1>7. ASSUME link'[l] = r PROVE LinkFits(l)'
  BY <1>2, <1>4, <1>5, <1>6, <1>7 DEF LinkFits, MadeFirst, EndedFirst, FileFirst, DeletedFirst, OpenFits,
     ClosedFits, FileFits, HasRow, Made, Asked, ByHand, Swept
<1> QED  BY <1>3, <1>5, <1>7, OneLink DEF Asked, ByHand, Swept, Made

LEMMA CreateShareLinkFits ==
    ASSUME LinksInv, TypesBeside', NEW l \in Links, CreateShareLink(l)
    PROVE  LinksInv'
<1>1. link[l] \in LinkStates /\ LinkFits(l)
  BY DEF LinksInv
<1>2. PICK r \in LinkStates :
        /\ link' = [link EXCEPT ![l] = r]
        /\ r.local = link[l].local /\ r.delete = link[l].delete
        /\ r.expires = link[l].expires /\ r.password = link[l].password
        /\ \/ r.upload = "answered" /\ r.row = TRUE /\ r.file = link[l].file
           \/ r.upload = "refused" /\ r.row = link[l].row /\ r.file = FALSE
  <2>1. CASE link' = [link EXCEPT ![l].upload = "answered", ![l].row = TRUE]
    <3> DEFINE r == [link[l] EXCEPT !.upload = "answered", !.row = TRUE]
    <3>1. r \in LinkStates
      BY <1>1 DEF LinkStates, Uploads
    <3>2. link' = [link EXCEPT ![l] = r]
      BY <2>1
    <3>3. /\ r.upload = "answered" /\ r.row = TRUE /\ r.file = link[l].file
          /\ r.local = link[l].local /\ r.delete = link[l].delete
          /\ r.expires = link[l].expires /\ r.password = link[l].password
      BY <1>1 DEF LinkStates
    <3> HIDE DEF r
    <3> QED  BY <3>1, <3>2, <3>3
  <2>2. CASE link' = [link EXCEPT ![l].upload = "refused", ![l].file = FALSE]
    <3> DEFINE r == [link[l] EXCEPT !.upload = "refused", !.file = FALSE]
    <3>1. r \in LinkStates
      BY <1>1 DEF LinkStates, Uploads
    <3>2. link' = [link EXCEPT ![l] = r]
      BY <2>2
    <3>3. /\ r.upload = "refused" /\ r.row = link[l].row /\ r.file = FALSE
          /\ r.local = link[l].local /\ r.delete = link[l].delete
          /\ r.expires = link[l].expires /\ r.password = link[l].password
      BY <1>1 DEF LinkStates
    <3> HIDE DEF r
    <3> QED  BY <3>1, <3>2, <3>3
  <2> QED  BY <2>1, <2>2 DEF CreateShareLink
<1>3. /\ link[l].upload = "stored"
      /\ UNCHANGED <<clock, cookie, visit, entered, removing, sweep, strayed, unconfirmed, handled>>
  BY DEF CreateShareLink, ghosts
<1>7. ASSUME link'[l] = r PROVE LinkFits(l)'
  BY <1>1, <1>2, <1>3, <1>7 DEF LinkFits, MadeFirst, EndedFirst, FileFirst, DeletedFirst, OpenFits,
     ClosedFits, FileFits, HasRow, Made, Asked, ByHand, Swept
<1> QED  BY <1>2, <1>3, <1>7, OneLink DEF Asked, ByHand, Swept, Made

\* What a removal of the file leaves of a link.
LEMMA FileRemoved ==
    ASSUME LinksInv, NEW l \in Links, RemoveFile(l)
    PROVE  \E r \in LinkStates :
             /\ link' = [link EXCEPT ![l] = r]
             /\ r.local = link[l].local /\ r.upload = link[l].upload /\ r.delete = link[l].delete
             /\ r.expires = link[l].expires /\ r.password = link[l].password /\ r.row = link[l].row
             /\ r.file => link[l].file /\ l \in strayed'
             /\ strayed \subseteq strayed'
<1>1. link \in [Links -> LinkStates] /\ link[l] \in LinkStates
  BY DEF LinksInv
<1>2. CASE link' = [link EXCEPT ![l].file = FALSE] /\ strayed' = strayed
  <2> DEFINE r == [link[l] EXCEPT !.file = FALSE]
  <2>1. r \in LinkStates
    BY <1>1 DEF LinkStates
  <2>2. link' = [link EXCEPT ![l] = r]
    BY <1>2
  <2>3. /\ r.file = FALSE
        /\ r.local = link[l].local /\ r.upload = link[l].upload /\ r.delete = link[l].delete
        /\ r.expires = link[l].expires /\ r.password = link[l].password /\ r.row = link[l].row
    BY <1>1 DEF LinkStates
  <2> HIDE DEF r
  <2> QED  BY <1>2, <2>1, <2>2, <2>3
<1>3. CASE link[l].file /\ link' = link /\ strayed' = strayed \cup {l}
  <2>1. link' = [link EXCEPT ![l] = link[l]]
    BY <1>1, <1>3
  <2> QED  BY <1>1, <1>3, <2>1
<1> QED  BY <1>2, <1>3 DEF RemoveFile

LEMMA HandleInternalDeleteFits ==
    ASSUME LinksInv, TypesBeside', NEW l \in Links, HandleInternalDelete(l)
    PROVE  LinksInv'
<1>1. link[l] \in LinkStates /\ LinkFits(l)
  BY DEF LinksInv
<1>2. PICK r \in LinkStates :
        /\ link' = [link EXCEPT ![l] = r]
        /\ r.local = link[l].local /\ r.upload = link[l].upload /\ r.delete = link[l].delete
        /\ r.expires = link[l].expires /\ r.password = link[l].password /\ r.row = link[l].row
        /\ r.file => link[l].file /\ l \in strayed'
        /\ strayed \subseteq strayed'
  BY FileRemoved DEF HandleInternalDelete
<1>3. /\ link[l].delete = "called" /\ HasRow(l) /\ removing' = removing \cup {<<"request", l>>}
      /\ UNCHANGED <<clock, cookie, visit, entered, sweep, unconfirmed, handled>>
  BY DEF HandleInternalDelete
<1>7. ASSUME link'[l] = r PROVE LinkFits(l)'
  <2>1. MadeFirst(l)' /\ EndedFirst(l)' /\ FileFirst(l)'
    BY <1>1, <1>2, <1>3, <1>7 DEF LinkFits, MadeFirst, EndedFirst, FileFirst, HasRow, Made, Swept
  <2>2. DeletedFirst(l)'
    BY <1>1, <1>2, <1>3, <1>7 DEF LinkFits, DeletedFirst, Asked, ByHand
  <2>3. OpenFits(l)' /\ ClosedFits(l)' /\ FileFits(l)'
    BY <1>1, <1>2, <1>3, <1>7 DEF LinkFits, MadeFirst, OpenFits, ClosedFits, FileFits, HasRow, Made
  <2> QED  BY <2>1, <2>2, <2>3 DEF LinkFits
<1> QED  BY <1>2, <1>3, <1>7, OneLink DEF Asked, ByHand, Swept, Made

LEMMA SweepFileFits ==
    ASSUME LinksInv, TypesBeside', NEW l \in Links, SweepFile(l)
    PROVE  LinksInv'
<1>1. link[l] \in LinkStates /\ LinkFits(l)
  BY DEF LinksInv
<1>2. PICK r \in LinkStates :
        /\ link' = [link EXCEPT ![l] = r]
        /\ r.local = link[l].local /\ r.upload = link[l].upload /\ r.delete = link[l].delete
        /\ r.expires = link[l].expires /\ r.password = link[l].password /\ r.row = link[l].row
        /\ r.file => link[l].file /\ l \in strayed'
        /\ strayed \subseteq strayed'
  BY FileRemoved DEF SweepFile
<1>3. /\ l \in sweep.todo /\ sweep.at = NoLink /\ sweep'.todo = sweep.todo \ {l} /\ sweep'.at = l
      /\ UNCHANGED <<clock, cookie, visit, entered, removing, unconfirmed, handled>>
  BY DEF SweepFile
<1>4. clock > link[l].expires
  BY <1>1, <1>3 DEF LinkFits, EndedFirst, Swept
<1>5. clock \in Nat /\ link[l].expires \in Nat
  BY <1>1, ShareAssumption DEF LinksInv, TypesBeside, LinkStates
<1>7. ASSUME link'[l] = r PROVE LinkFits(l)'
  <2>1. MadeFirst(l)'
    BY <1>1, <1>2, <1>3, <1>7 DEF LinkFits, MadeFirst, HasRow, Made, Swept, Asked, ByHand
  <2>2. EndedFirst(l)' /\ FileFirst(l)' /\ DeletedFirst(l)'
    BY <1>1, <1>2, <1>3, <1>4, <1>7 DEF LinkFits, EndedFirst, FileFirst, DeletedFirst, Asked, ByHand
  <2>3. OpenFits(l)'
    BY <1>2, <1>3, <1>4, <1>5, <1>7 DEF OpenFits
  <2>4. ClosedFits(l)' /\ FileFits(l)'
    BY <1>1, <1>2, <1>3, <1>7 DEF LinkFits, MadeFirst, ClosedFits, FileFits, HasRow, Made, Swept
  <2> QED  BY <2>1, <2>2, <2>3, <2>4 DEF LinkFits
<1> QED  BY <1>2, <1>3, <1>7, OneLink DEF Asked, ByHand, Swept, Made

LEMMA DocumentFits ==
    ASSUME LinksInv, TypesBeside', NEW state \in {"live", "trash", "gone"}, Document(state)
    PROVE  LinksInv'
<1> DEFINE Local(l) == IF state = "gone" /\ link[l].local # "none" THEN "gone" ELSE link[l].local
<1>1. link \in [Links -> LinkStates]
  BY DEF LinksInv
<1>2. /\ link' = [l \in Links |-> [link[l] EXCEPT !.local = Local(l)]]
      /\ UNCHANGED <<clock, cookie, visit, entered, removing, sweep, strayed, unconfirmed, handled>>
  BY DEF Document, ghosts
<1>3. ASSUME NEW l \in Links
      PROVE  /\ link'[l] \in LinkStates /\ link'[l].local = Local(l)
             /\ link'[l].upload = link[l].upload /\ link'[l].delete = link[l].delete
             /\ link'[l].expires = link[l].expires /\ link'[l].password = link[l].password
             /\ link'[l].row = link[l].row /\ link'[l].file = link[l].file
  <2>1. link'[l] = [link[l] EXCEPT !.local = Local(l)] /\ link[l] \in LinkStates
    BY <1>1, <1>2
  <2>2. Local(l) \in Locals
    BY <2>1 DEF LinkStates, Locals
  <2> HIDE DEF Local
  <2> QED  BY <2>1, <2>2 DEF LinkStates
<1>4. ASSUME NEW l \in Links PROVE LinkFits(l)'
  <2>1. LinkFits(l)
    BY DEF LinksInv
  <2> QED  BY <2>1, <1>2, <1>3 DEF LinkFits, MadeFirst, EndedFirst, FileFirst, DeletedFirst, OpenFits,
              ClosedFits, FileFits, HasRow, Made, Asked, ByHand, Swept
<1>5. link' \in [Links -> LinkStates]
  <2> HIDE DEF Local
  <2>1. DOMAIN link' = Links /\ link' = [l \in Links |-> link'[l]]
    BY <1>2
  <2> QED  BY <2>1, <1>3
<1>6. \A v \in Visitors : VisitFits(v)'
  BY <1>2, <1>3, VisitsStay DEF LinksInv, Made
<1> QED  BY <1>4, <1>5, <1>6 DEF LinksInv

LEMMA ShareServerRestartFits ==
    ASSUME LinksInv, TypesBeside', ShareServerRestart
    PROVE  LinksInv'
<1> DEFINE Upload(l) == IF link[l].upload \in {"sent", "stored"} THEN "refused" ELSE link[l].upload
           Delete(l) == IF link[l].delete = "called" THEN "done" ELSE link[l].delete
<1>1. link \in [Links -> LinkStates]
  BY DEF LinksInv
<1>2. /\ link' = [l \in Links |-> [link[l] EXCEPT !.upload = Upload(l), !.delete = Delete(l)]]
      /\ removing' = {} /\ sweep'.todo = {} /\ sweep'.at = NoLink
      /\ strayed' = strayed \cup {l \in Links : link[l].upload = "stored"}
      /\ unconfirmed' = unconfirmed \cup {l \in Links : link[l].delete = "called"}
      /\ UNCHANGED <<clock, cookie, entered, handled>>
  BY DEF ShareServerRestart
<1>3. ASSUME NEW l \in Links
      PROVE  /\ link'[l] \in LinkStates /\ link'[l].upload = Upload(l) /\ link'[l].delete = Delete(l)
             /\ link'[l].local = link[l].local /\ link'[l].expires = link[l].expires
             /\ link'[l].row = link[l].row /\ link'[l].file = link[l].file
  <2>1. /\ link'[l] = [link[l] EXCEPT !.upload = Upload(l), !.delete = Delete(l)]
        /\ link[l] \in LinkStates
    BY <1>1, <1>2
  <2>2. Upload(l) \in Uploads /\ Delete(l) \in {"idle", "called", "done"}
    BY <2>1 DEF LinkStates, Uploads
  <2> HIDE DEF Upload, Delete
  <2> QED  BY <2>1, <2>2 DEF LinkStates
<1>4. ASSUME NEW l \in Links PROVE LinkFits(l)'
  <2>1. LinkFits(l)
    BY DEF LinksInv
  <2>2. ~Asked(l)' /\ ~ByHand(l)' /\ ~Swept(l)' /\ l # sweep'.at
    BY <1>2, ShareAssumption DEF Asked, ByHand, Swept
  <2>3. MadeFirst(l)' /\ EndedFirst(l)' /\ FileFirst(l)' /\ DeletedFirst(l)'
    BY <2>1, <2>2, <1>3
    DEF LinkFits, MadeFirst, EndedFirst, FileFirst, DeletedFirst, HasRow, Made
  <2>6. /\ link'[l].row = link[l].row /\ link'[l].file = link[l].file
        /\ link'[l].local = link[l].local /\ link'[l].expires = link[l].expires
        /\ link'[l].upload = "answered" => link[l].upload = "answered"
        /\ link'[l].upload # "stored"
        /\ link'[l].delete = "idle" => link[l].delete = "idle"
        /\ link'[l].delete = "done" => link[l].delete \in {"called", "done"}
    BY <1>3
  <2>7. /\ clock' = clock /\ handled' = handled
        /\ l \notin strayed' => l \notin strayed /\ link[l].upload # "stored"
        /\ l \notin unconfirmed' => l \notin unconfirmed /\ link[l].delete # "called"
    BY <1>2
  <2>4. OpenFits(l)'
    BY <2>1, <2>6, <2>7 DEF LinkFits, OpenFits, HasRow
  <2>5. ClosedFits(l)' /\ FileFits(l)'
    BY <2>1, <2>6, <2>7 DEF LinkFits, ClosedFits, FileFits, HasRow
  <2> QED  BY <2>3, <2>4, <2>5 DEF LinkFits
<1>5. link' \in [Links -> LinkStates]
  <2> HIDE DEF Upload, Delete
  <2>1. DOMAIN link' = Links /\ link' = [l \in Links |-> link'[l]]
    BY <1>2
  <2> QED  BY <2>1, <1>3
<1>6. ASSUME NEW v \in Visitors PROVE VisitFits(v)'
  <2>1. visit'[v].pc = "idle"
    BY DEF ShareServerRestart, NoVisit
  <2>2. VisitFits(v)
    BY DEF LinksInv
  <2> QED  BY <2>1, <2>2, <1>2 DEF VisitFits
<1> QED  BY <1>4, <1>5, <1>6 DEF LinksInv

LEMMA GetExpiredLinksFits ==
    ASSUME LinksInv, TypesBeside', GetExpiredLinks
    PROVE  LinksInv'
<1>1. /\ sweep' = [sweep EXCEPT !.todo = {l \in Links : HasRow(l) /\ Listed(l)}]
      /\ sweep \in [todo : SUBSET Links, at : Links \cup {NoLink}] /\ sweep.at = NoLink
      /\ UNCHANGED <<clock, link, cookie, visit, entered, removing, strayed, unconfirmed, handled>>
  BY DEF GetExpiredLinks, ghosts, LinksInv, TypesBeside
<1>2. ASSUME NEW l \in Links PROVE LinkFits(l)'
  <2>1. LinkFits(l) /\ clock \in Nat /\ link[l].expires \in Nat
    BY ShareAssumption DEF LinksInv, TypesBeside, LinkStates
  <2>2. l # sweep'.at /\ (Swept(l)' => HasRow(l) /\ Listed(l))
    BY <1>1, ShareAssumption DEF Swept
  <2>3. Listed(l) => clock > link[l].expires
    BY <2>1, DaysRise DEF Listed
  <2>4. MadeFirst(l)' /\ EndedFirst(l)' /\ FileFirst(l)'
    BY <2>1, <2>2, <2>3, <1>1
    DEF LinkFits, MadeFirst, EndedFirst, FileFirst, HasRow, Made, Asked, ByHand
  <2>5. DeletedFirst(l)' /\ OpenFits(l)' /\ ClosedFits(l)' /\ FileFits(l)'
    BY <2>1, <1>1 DEF LinkFits, DeletedFirst, OpenFits, ClosedFits, FileFits, HasRow, Asked, ByHand
  <2> QED  BY <2>4, <2>5 DEF LinkFits
<1>3. \A v \in Visitors : VisitFits(v)'
  BY <1>1, VisitsStay DEF LinksInv, Made
<1> QED  BY <1>1, <1>2, <1>3 DEF LinksInv

LEMMA ClockTickFits ==
    ASSUME LinksInv, TypesBeside', ClockTick
    PROVE  LinksInv'
<1>1. /\ clock' = clock + 1
      /\ UNCHANGED <<link, cookie, visit, entered, removing, sweep, strayed, unconfirmed, handled>>
  BY DEF ClockTick, ghosts
<1>2. ASSUME NEW l \in Links PROVE LinkFits(l)'
  <2>1. LinkFits(l) /\ clock \in Nat /\ link[l].expires \in Nat
    BY ShareAssumption DEF LinksInv, TypesBeside, LinkStates
  <2>2. MadeFirst(l)' /\ FileFirst(l)' /\ DeletedFirst(l)' /\ ClosedFits(l)' /\ FileFits(l)'
    BY <2>1, <1>1 DEF LinkFits, MadeFirst, FileFirst, DeletedFirst, ClosedFits, FileFits, HasRow, Made,
       Asked, ByHand, Swept
  <2>3. EndedFirst(l)'
    BY <2>1, <1>1 DEF LinkFits, EndedFirst, Swept
  <2>4. OpenFits(l)'
    BY <2>1, <1>1 DEF LinkFits, OpenFits, HasRow
  <2> QED  BY <2>2, <2>3, <2>4 DEF LinkFits
<1>3. \A v \in Visitors : VisitFits(v)'
  BY <1>1, VisitsStay DEF LinksInv, Made
<1> QED  BY <1>1, <1>2, <1>3 DEF LinksInv

\* Visitors and keys change no link.
LEMMA LinksStay ==
    ASSUME LinksInv,
           UNCHANGED <<clock, link, removing, sweep, strayed, unconfirmed, handled>>
    PROVE  link' \in [Links -> LinkStates] /\ \A l \in Links : LinkFits(l)'
BY Elsewhere DEF LinksInv, Swept, Asked, ByHand

LEMMA HandleVerifyFits ==
    ASSUME LinksInv, TypesBeside', NEW v \in Visitors, NEW l \in Links, HandleVerify(v, l)
    PROVE  LinksInv'
<1>1. UNCHANGED <<clock, link, removing, sweep, visit, strayed, unconfirmed, handled>>
  BY DEF HandleVerify
<1>2. /\ cookie' = [cookie EXCEPT ![v] = [link |-> l, until |-> clock + CookieLife]]
      /\ entered' = [entered EXCEPT ![v] = @ \cup {l}]
      /\ v \in DOMAIN cookie /\ v \in DOMAIN entered
  BY DEF HandleVerify, LinksInv, TypesBeside
<1>3. ASSUME NEW w \in Visitors PROVE VisitFits(w)'
  <2>1. VisitFits(w)
    BY DEF LinksInv
  <2>2. cookie'[w].link = (IF w = v THEN l ELSE cookie[w].link)
    BY <1>2 DEF LinksInv, TypesBeside
  <2>3. entered'[w] = IF w = v THEN entered[w] \cup {l} ELSE entered[w]
    BY <1>2 DEF LinksInv, TypesBeside
  <2> QED  BY <2>1, <2>2, <2>3, <1>1 DEF VisitFits, Made
<1> QED  BY <1>1, <1>3, LinksStay DEF LinksInv

LEMMA HandleDownloadFits ==
    ASSUME LinksInv, TypesBeside', NEW v \in Visitors, NEW l \in Links, HandleDownload(v, l)
    PROVE  LinksInv'
<1>1. UNCHANGED <<clock, link, removing, sweep, cookie, entered, strayed, unconfirmed, handled>>
  BY DEF HandleDownload, ghosts
<1>2. /\ visit' = [visit EXCEPT ![v] = [pc |-> "checked", link |-> l]]
      /\ HasRow(l) /\ (link[l].password => cookie[v].link = l)
  BY DEF HandleDownload, CookieOpens
<1>3. Made(l) /\ (cookie[v].link = l => l \in entered[v])
  BY <1>2, ShareAssumption DEF LinksInv, LinkFits, MadeFirst, VisitFits
<1>4. ASSUME NEW w \in Visitors PROVE VisitFits(w)'
  <2>1. VisitFits(w)
    BY DEF LinksInv
  <2>2. visit'[w] = IF w = v THEN [pc |-> "checked", link |-> l] ELSE visit[w]
    BY <1>2 DEF LinksInv, TypesBeside
  <2>3. CASE w = v
    <3>1. visit'[w].link = l
      BY <2>2, <2>3
    <3> QED  BY <3>1, <2>1, <2>3, <1>1, <1>2, <1>3 DEF VisitFits, Made
  <2>4. CASE w # v
    BY <2>1, <2>2, <2>4, <1>1 DEF VisitFits, Made
  <2> QED  BY <2>3, <2>4
<1> QED  BY <1>1, <1>4, LinksStay DEF LinksInv

LEMMA ServedFits ==
    ASSUME LinksInv, TypesBeside', NEW v \in Visitors, ServeFile(v) \/ Leave(v)
    PROVE  LinksInv'
<1>1. UNCHANGED <<clock, link, removing, sweep, cookie, entered, strayed, unconfirmed, handled>>
  BY DEF ServeFile, Leave, ghosts
<1>2. /\ visit \in [Visitors -> [pc : {"idle", "checked", "served"}, link : Links \cup {NoLink}]]
      /\ \/ visit' = [visit EXCEPT ![v] = NoVisit]
         \/ /\ visit[v].pc = "checked"
            /\ visit' = [visit EXCEPT ![v] = [visit[v] EXCEPT !.pc = "served"]]
  BY DEF ServeFile, Leave, LinksInv, TypesBeside
<1>3. ASSUME NEW w \in Visitors PROVE VisitFits(w)'
  <2>1. VisitFits(w)
    BY DEF LinksInv
  <2>2. visit'[w].pc # "idle" => visit[w].pc # "idle" /\ visit'[w].link = visit[w].link
    BY <1>2 DEF NoVisit
  <2> QED  BY <2>1, <2>2, <1>1 DEF VisitFits, Made
<1> QED  BY <1>1, <1>3, LinksStay DEF LinksInv

LEMMA LinksInvKept == LinksInv /\ [ShareNext]_shareVars => LinksInv'
<1> SUFFICES ASSUME LinksInv, [ShareNext]_shareVars PROVE LinksInv'
  OBVIOUS
<1>1. TypesBeside'
  BY TypesBesideKept DEF LinksInv
<1>2. ASSUME NEW l \in Links, NEW life \in Lifetimes, NEW password \in BOOLEAN,
             CreateLink(l, life, password)
      PROVE  LinksInv'
  BY <1>1, <1>2, CreateLinkFits
<1>3. ASSUME NEW l \in Links,
             HandleInternalUpload(l) \/ CreateShareLink(l) \/ CallerGone(l) \/ SaveLink(l)
      PROVE  LinksInv'
  BY <1>1, <1>3, HandleInternalUploadFits, CreateShareLinkFits, CallerGoneFits, SaveLinkFits
<1>4. ASSUME NEW l \in Links,
             \/ DeleteLink(l) \/ HandleInternalDelete(l) \/ DeleteAnswered(l) \/ DeleteCommit(l)
             \/ DeleteLost(l) \/ CliDelete(l)
      PROVE  LinksInv'
  BY <1>1, <1>4, DeleteLinkFits, HandleInternalDeleteFits, DeleteAnsweredFits, DeleteCommitFits,
     DeleteLostFits, CliDeleteFits
<1>5. ASSUME NEW l \in Links, NEW who \in {"request", "cli"}, DeleteShareLink(who, l)
      PROVE  LinksInv'
  BY <1>1, <1>5, DeleteShareLinkFits
<1>6. ASSUME NEW state \in {"live", "trash", "gone"}, Document(state) PROVE LinksInv'
  BY <1>1, <1>6, DocumentFits
<1>7. ASSUME CleanUp PROVE LinksInv'
  BY <1>1, <1>7, GetExpiredLinksFits, SweepFileFits, PurgeLinkFits DEF CleanUp
<1>8. ASSUME ChangeKey \/ UNCHANGED shareVars PROVE LinksInv'
  <2>1. /\ UNCHANGED <<clock, link, removing, sweep, strayed, unconfirmed, handled>>
        /\ UNCHANGED <<cookie, visit, entered>>
    BY <1>8 DEF ChangeKey, shareVars, ghosts
  <2>2. \A v \in Visitors : VisitFits(v)'
    BY <2>1, VisitsStay DEF LinksInv, Made
  <2> QED  BY <1>1, <2>1, <2>2, LinksStay DEF LinksInv
<1>9. ASSUME ShareServerRestart PROVE LinksInv'
  BY <1>1, <1>9, ShareServerRestartFits
<1>10. ASSUME NEW v \in Visitors, NEW l \in Links, HandleVerify(v, l) \/ HandleDownload(v, l)
       PROVE  LinksInv'
  BY <1>1, <1>10, HandleVerifyFits, HandleDownloadFits
<1>11. ASSUME NEW v \in Visitors, ServeFile(v) \/ Leave(v) PROVE LinksInv'
  BY <1>1, <1>11, ServedFits
<1>12. ASSUME ClockTick PROVE LinksInv'
  BY <1>1, <1>12, ClockTickFits
<1> QED
  BY <1>2, <1>3, <1>4, <1>5, <1>6, <1>7, <1>8, <1>9, <1>10, <1>11, <1>12 DEF ShareNext

\* The inductive invariant of share links: the state of each link, on both sides, fits what is under
\* way for it, and a browser is let in only with the password of the link.
THEOREM LinksInvariant == ShareSpec => []LinksInv
<1>1. ShareInit => LinksInv
  BY StartFits
<1>2. LinksInv /\ [ShareNext]_shareVars => LinksInv'
  BY LinksInvKept
<1> QED  BY <1>1, <1>2, PTL DEF ShareSpec

\* The state of both sides of a link has its type.
THEOREM ShareTypes == ShareSpec => []ShareTypeOK
<1>1. LinksInv => ShareTypeOK
  BY DEF LinksInv, TypesBeside, ShareTypeOK, LinkStates, Locals, Uploads
<1> QED  BY <1>1, LinksInvariant, PTL

\* What the backend shows of a link is what the share server does (share.py, share-server): an active
\* link works, an inactive one is closed, files have rows, and passwords were given; whatever
\* calls fail and whenever the share server restarts, with the exceptions noted.
THEOREM LinksRight == ShareSpec => []LinksAreAsShown
<1>1. ASSUME LinksInv PROVE LinksAreAsShown
  <2>1. ActiveLinkWorks
    BY <1>1 DEF LinksInv, LinkFits, OpenFits, ActiveLinkWorks
  <2>2. InactiveLinkIsClosed
    BY <1>1 DEF LinksInv, LinkFits, ClosedFits, InactiveLinkIsClosed
  <2>3. FilesHaveRows
    BY <1>1 DEF LinksInv, LinkFits, FileFits, FilesHaveRows
  <2>4. PasswordWasGiven
    BY <1>1 DEF LinksInv, VisitFits, PasswordWasGiven
  <2> QED  BY <2>1, <2>2, <2>3, <2>4 DEF LinksAreAsShown
<1> QED  BY <1>1, LinksInvariant, PTL
=============================================================================
