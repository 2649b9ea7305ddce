------------------------------ MODULE MCServices ------------------------------
(* Instances of ShareLinks, SmbAccounts, AgentRun, Notices and DbPool for TLC.  They  *)
(* share no variable and no property is about two of them: a behaviour runs one part   *)
(* and leaves the others at their initial values, so the states of the parts add up.   *)
EXTENDS ShareLinks, SmbAccounts, AgentRun, Notices, DbPool, TLC

CONSTANT l1

VARIABLE service

servicesVars ==
  <<service, shareVars, smbVars, agentVars, noticeVars, poolVars>>

\* Links: one to be made; or two there are, with and without a password, and no fault left.
Saved(life, pw) ==
  [NewLink EXCEPT !.local = "active", !.upload = "saved", !.expires = life, !.password = pw,
                  !.row = TRUE, !.file = TRUE]
MCLinks ==
  /\ link \in {[l \in Links |-> IF l = l1 THEN NewLink ELSE [NewLink EXCEPT !.upload = "refused"]],
               [l \in Links |-> Saved(1, l = l1)]}
  /\ faults = IF link[l1].upload = "saved" THEN MaxShareFaults ELSE 0
  /\ clock = 0 /\ document = "live" /\ keyValid = TRUE
  /\ removing = {} /\ sweep = [todo |-> {}, at |-> NoLink]
  /\ cookie = [v \in Visitors |-> [link |-> NoLink, until |-> 0]]
  /\ visit = [v \in Visitors |-> NoVisit]
  /\ entered = [v \in Visitors |-> {}] /\ strayed = {} /\ unconfirmed = {} /\ handled = {}
IdleLinks == link = [l \in Links |-> NewLink] /\ ShareInit

\* Accounts: one user, with a name, a password and an account on the file server.
One(S) == CHOOSE x \in S : TRUE
MCAccounts ==
  LET u == One(People)
      n == One(LoginNames)
      s == One(Secrets)
      row == [state |-> "row", name |-> n, active |-> TRUE, secret |-> s] IN
  /\ person = [v \in People |-> IF v = u THEN row ELSE NoPerson]
  /\ pairs = {<<n, u>>}
  /\ unixUser = [m \in LoginNames |-> IF m = n THEN u ELSE Nobody]
  /\ smbAccount = [m \in LoginNames |-> IF m = n THEN s ELSE "none"]
  /\ session = [m \in LoginNames |-> Nobody]
  /\ writes = {} /\ passwdFile = [m \in LoginNames |-> NoFile] /\ command = NoCommand
  /\ changes = 0 /\ smbFaults = 0 /\ late = {} /\ pwLost = {} /\ behind = {} /\ slipped = {}

IdleAgent == maxRounds = One(RoundSettings) /\ AgentInit
IdleNotices == channel = "webhook" /\ NoticeInit

ServicesInit ==
  /\ PoolInit
  /\ \/ /\ service = "links"
        /\ MCLinks /\ MCAccounts /\ IdleAgent /\ IdleNotices
     \/ /\ service \in {"accounts", "pool"}
        /\ IdleLinks /\ MCAccounts /\ IdleAgent /\ IdleNotices
     \/ /\ service = "agent"
        /\ IdleLinks /\ MCAccounts /\ AgentInit /\ IdleNotices
     \/ /\ service = "notices"
        /\ IdleLinks /\ MCAccounts /\ IdleAgent /\ NoticeInit

-----------------------------------------------------------------------------
NotLinks == <<service, smbVars, agentVars, noticeVars, poolVars>>
NotAccounts == <<service, shareVars, agentVars, noticeVars, poolVars>>
NotAgent == <<service, shareVars, smbVars, noticeVars, poolVars>>
NotNotices == <<service, shareVars, smbVars, agentVars, poolVars>>
NotPool == <<service, shareVars, smbVars, agentVars, noticeVars>>

ServicesNext ==
  \/ service = "links" /\ ShareNext /\ UNCHANGED NotLinks
  \/ service = "accounts" /\ SmbNext /\ UNCHANGED NotAccounts
  \/ service = "agent" /\ AgentNext /\ UNCHANGED NotAgent
  \/ service = "notices" /\ NoticeNext /\ UNCHANGED NotNotices
  \/ service = "pool" /\ PoolNext /\ UNCHANGED NotPool

\* The fairness of the parts' own specifications.
ServicesFairness ==
  /\ WF_shareVars(service = "links" /\ ClockTick)
  /\ WF_shareVars(service = "links" /\ CleanUp)
  /\ SF_smbVars(service = "accounts" /\ StartSync)
  /\ WF_smbVars(service = "accounts" /\ SyncStep)
  /\ WF_smbVars(service = "accounts" /\ UsePassword)
  /\ WF_agentVars(service = "agent" /\ AgentStep)
  /\ WF_noticeVars(service = "notices" /\ NoticeWork)
  /\ \A s \in Searches : WF_poolVars(service = "pool" /\ SearchStep(s))

ServicesSpec == ServicesInit /\ [][ServicesNext]_servicesVars /\ ServicesFairness

\* The part that runs is well typed; the others stay as they are.
ServicesTypeOK ==
  /\ service = "links" => ShareTypeOK
  /\ service = "accounts" => SmbTypeOK
  /\ service = "agent" => AgentTypeOK
  /\ service = "notices" => NoticeTypeOK
  /\ service = "pool" => PoolTypeOK

\* What was begun ends, and what was taken comes back: links, connections of leavers, runs of the
\* agent, notices, searches and their connections to the database.
WhatBeginsEnds ==
  /\ LinksEnd /\ LeaversAreCutOff
  /\ AgentEnds
  /\ NoticesEnd
  /\ SearchesEnd /\ ConnectionsComeBack
=============================================================================
