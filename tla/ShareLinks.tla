------------------------------ MODULE ShareLinks ------------------------------
(***************************************************************************)
(* Links to a document for people outside: a row in the database           *)
(* (routers/share.py), a row and a copy of the file on the share server    *)
(* (share-server/*.go), a process and a database of its own.  Each call    *)
(* from one to the other can fail, be answered too late, or meet a restart *)
(* of the share server.                                                    *)
(***************************************************************************)
EXTENDS Naturals, FiniteSets

CONSTANTS
  Links,          \* tokens
  Visitors,       \* browsers of people outside
  NoLink,         \* no cookie
  Lifetimes,      \* expires_in
  DayLength,      \* clock ticks of a UTC day
  CookieLife,     \* the 30 minutes of a share token
  MaxClock, MaxShareFaults  \* bounds: clock ticks; failures, restarts and changes by hand

ASSUME ShareAssumption ==
  /\ NoLink \notin Links
  /\ Lifetimes \subseteq Nat /\ DayLength \in Nat \ {0} /\ CookieLife \in Nat
  /\ MaxClock \in Nat /\ MaxShareFaults \in Nat

VARIABLES
  clock,
  document,   \* the document the links are to: live, trash or gone
  keyValid,   \* the API key in the settings is one the share server takes
  link,       \* per token: both rows, the file on the share server, the calls in flight
  removing,   \* file removed and row not yet, by a request or by hand (the sweep has its own)
  sweep,      \* the list of the clean-up loop, and the link it is at
  cookie,     \* share_token cookie of a browser
  visit,      \* a download: the link whose row has been checked
  faults,     \* failures so far
  entered,    \* history: links whose password a visitor has given
  strayed,    \* history: links with a file that was left behind
  unconfirmed,\* history: links made inactive although the share server may have kept them
  handled     \* history: links removed on the share server without a word to the backend

shareVars == <<clock, document, keyValid, link, removing, sweep, cookie, visit, faults,
               entered, strayed, unconfirmed, handled>>
ghosts == <<entered, strayed, unconfirmed, handled>>

-----------------------------------------------------------------------------
Day(t) == t \div DayLength
HasRow(l) == link[l].row
NoVisit == [pc |-> "idle", link |-> NoLink]
Fault == faults < MaxShareFaults /\ faults' = faults + 1

\* The upload: idle, sent, stored (the file), answered (the row), refused, saved.
NewLink == [local |-> "none", upload |-> "idle", waits |-> FALSE, delete |-> "idle",
            expires |-> 0, password |-> FALSE, row |-> FALSE, file |-> FALSE]

-----------------------------------------------------------------------------
(* POST /share: the file goes to the share server, then the row is saved   *)

\* Mutant: an end in days, for hours.
InDays(life) == clock + life * DayLength
Expiry(life) == clock + life

CreateLink(l, life, password) ==
  /\ document = "live"
  /\ link[l].upload = "idle"
  /\ Day(clock + life) < Day(MaxClock)     \* bound: the clock goes on after the day it expires
  /\ link' = [link EXCEPT ![l].upload = "sent", ![l].waits = TRUE, ![l].password = password,
                          ![l].expires = Expiry(life)]
  /\ UNCHANGED <<clock, document, keyValid, removing, sweep, cookie, visit, faults, ghosts>>

\* The file is written before the row; a copy that breaks off leaves what it has written.
HandleInternalUpload(l) ==
  /\ link[l].upload = "sent"
  /\ \/ /\ keyValid
        /\ link' = [link EXCEPT ![l].upload = "stored", ![l].file = TRUE]
        /\ UNCHANGED <<faults, strayed>>
     \/ /\ ~keyValid
        /\ link' = [link EXCEPT ![l].upload = "refused"]
        /\ UNCHANGED <<faults, strayed>>
     \/ /\ keyValid /\ Fault
        /\ link' = [link EXCEPT ![l].upload = "refused", ![l].file = TRUE]
        /\ strayed' = strayed \cup {l}
  /\ UNCHANGED <<clock, document, keyValid, removing, sweep, cookie, visit, entered, unconfirmed,
                 handled>>

\* Mutant: a row that cannot be written leaves the file.
CreateOrLeave(l) ==
  /\ link[l].upload = "stored"
  /\ \/ /\ link' = [link EXCEPT ![l].upload = "answered", ![l].row = TRUE]
        /\ UNCHANGED faults
     \/ /\ Fault
        /\ link' = [link EXCEPT ![l].upload = "refused"]
  /\ UNCHANGED <<clock, document, keyValid, removing, sweep, cookie, visit, ghosts>>

CreateShareLink(l) ==
  /\ link[l].upload = "stored"
  /\ \/ /\ link' = [link EXCEPT ![l].upload = "answered", ![l].row = TRUE]
        /\ UNCHANGED faults
     \/ /\ Fault
        /\ link' = [link EXCEPT ![l].upload = "refused", ![l].file = FALSE]
  /\ UNCHANGED <<clock, document, keyValid, removing, sweep, cookie, visit, ghosts>>

\* The backend's call times out or its process stops; the share server knows nothing of it.
CallerGone(l) ==
  /\ link[l].waits
  /\ Fault
  /\ link' = [link EXCEPT ![l].waits = FALSE]
  /\ UNCHANGED <<clock, document, keyValid, removing, sweep, cookie, visit, ghosts>>

\* Only a 201 makes a row; its foreign key wants the document.
SaveLink(l) ==
  /\ link[l].waits /\ link[l].upload \in {"answered", "refused"}
  /\ link' = [link EXCEPT ![l].waits = FALSE, ![l].upload = IF @ = "answered" THEN "saved" ELSE @,
               ![l].local = IF link[l].upload = "answered" /\ document # "gone"
                           THEN "active" ELSE @]
  /\ UNCHANGED <<clock, document, keyValid, removing, sweep, cookie, visit, faults, ghosts>>

-----------------------------------------------------------------------------
(* DELETE /share/{id}: the call to the share server is made first, and the *)
(* link becomes inactive whatever comes of it.                             *)

DeleteLink(l) ==
  /\ link[l].local = "active" /\ link[l].delete = "idle"
  /\ link' = [link EXCEPT ![l].delete = "called"]
  /\ UNCHANGED <<clock, document, keyValid, removing, sweep, cookie, visit, faults, ghosts>>

\* os.Remove of a file, whose error is not looked at.
RemoveFile(l) ==
  \/ /\ link' = [link EXCEPT ![l].file = FALSE]
     /\ UNCHANGED <<faults, strayed>>
  \/ /\ link[l].file /\ Fault
     /\ strayed' = strayed \cup {l}
     /\ UNCHANGED link

HandleInternalDelete(l) ==
  /\ link[l].delete = "called" /\ keyValid /\ HasRow(l)
  /\ RemoveFile(l)
  /\ removing' = removing \cup {<<"request", l>>}
  /\ UNCHANGED <<clock, document, keyValid, sweep, cookie, visit, entered, unconfirmed, handled>>

DeleteShareLink(who, l) ==
  /\ <<who, l>> \in removing
  /\ removing' = removing \ {<<who, l>>}
  /\ link' = [link EXCEPT ![l].row = FALSE,
                          ![l].delete = IF who = "request" /\ @ = "called" THEN "done" ELSE @]
  /\ UNCHANGED <<clock, document, keyValid, sweep, cookie, visit, faults, ghosts>>

\* 404 is as good as done; an unknown key, a lost call or no settings is not.
DeleteAnswered(l) ==
  /\ link[l].delete = "called" /\ <<"request", l>> \notin removing
  /\ \/ /\ keyValid /\ ~HasRow(l)
        /\ link' = [link EXCEPT ![l].delete = "done"]
        /\ UNCHANGED <<faults, unconfirmed>>
     \/ /\ ~keyValid
        /\ link' = [link EXCEPT ![l].delete = "done"]
        /\ unconfirmed' = unconfirmed \cup {l}
        /\ UNCHANGED faults
     \/ /\ Fault
        /\ link' = [link EXCEPT ![l].delete = "done"]
        /\ unconfirmed' = unconfirmed \cup {l}
  /\ UNCHANGED <<clock, document, keyValid, removing, sweep, cookie, visit, entered, strayed,
                 handled>>

\* Mutant: the row is deactivated before the share server has answered.
DeleteAtOnce(l) ==
  /\ link[l].delete \in {"called", "done"}
  /\ link' = [link EXCEPT ![l].delete = "idle", ![l].local = IF @ = "active" THEN "inactive" ELSE @]
  /\ UNCHANGED <<clock, document, keyValid, removing, sweep, cookie, visit, faults, ghosts>>

DeleteCommit(l) ==
  /\ link[l].delete = "done"
  /\ link' = [link EXCEPT ![l].delete = "idle", ![l].local = IF @ = "active" THEN "inactive" ELSE @]
  /\ UNCHANGED <<clock, document, keyValid, removing, sweep, cookie, visit, faults, ghosts>>

\* The backend stops before the commit.
DeleteLost(l) ==
  /\ link[l].delete # "idle" /\ Fault
  /\ link' = [link EXCEPT ![l].delete = "idle"]
  /\ handled' = handled \cup {l}
  /\ UNCHANGED <<clock, document, keyValid, removing, sweep, cookie, visit, entered, strayed,
                 unconfirmed>>

\* The trash leaves links as they are; with the row of the document theirs go.
Document(state) ==
  /\ <<document, state>> \in {<<"live", "trash">>, <<"trash", "live">>, <<"trash", "gone">>}
  /\ Fault
  /\ document' = state
  /\ link' = [l \in Links |->
                [link[l] EXCEPT !.local = IF state = "gone" /\ @ # "none" THEN "gone" ELSE @]]
  /\ UNCHANGED <<clock, keyValid, removing, sweep, cookie, visit, ghosts>>

-----------------------------------------------------------------------------
(* The share server: clean-up, administration, restarts                    *)

\* Mutant: what ends today is over.
ListedToday(l) == Day(link[l].expires) <= Day(clock)
\* expires_at < datetime('now') compares texts, "...T..." with "... ...": the time of day
\* never counts, a link that ended today is not listed.
Listed(l) == Day(link[l].expires) < Day(clock)

GetExpiredLinks ==
  /\ sweep.todo = {} /\ sweep.at = NoLink
  /\ \E l \in Links : HasRow(l) /\ Listed(l)
  /\ sweep' = [sweep EXCEPT !.todo = {l \in Links : HasRow(l) /\ Listed(l)}]
  /\ UNCHANGED <<clock, document, keyValid, link, removing, cookie, visit, faults, ghosts>>

SweepFile(l) ==
  /\ l \in sweep.todo /\ sweep.at = NoLink
  /\ RemoveFile(l)
  /\ sweep' = [todo |-> sweep.todo \ {l}, at |-> l]
  /\ UNCHANGED <<clock, document, keyValid, removing, cookie, visit, entered, unconfirmed, handled>>

\* Mutant: the clean-up stays at the link it has purged.
PurgeAndStop(l) ==
  /\ sweep.at = l
  /\ link' = [link EXCEPT ![l].row = FALSE]
  /\ UNCHANGED <<clock, document, keyValid, removing, sweep, cookie, visit, faults, ghosts>>

\* After a failed removal, too.
PurgeLink(l) ==
  /\ sweep.at = l
  /\ link' = [link EXCEPT ![l].row = FALSE]
  /\ sweep' = [sweep EXCEPT !.at = NoLink]
  /\ UNCHANGED <<clock, document, keyValid, removing, cookie, visit, faults, ghosts>>

\* share-server links delete
CliDelete(l) ==
  /\ HasRow(l) /\ <<"cli", l>> \notin removing
  /\ Fault
  /\ link' = [link EXCEPT ![l].file = FALSE]
  /\ removing' = removing \cup {<<"cli", l>>}
  /\ handled' = handled \cup {l}
  /\ UNCHANGED <<clock, document, keyValid, sweep, cookie, visit, entered, strayed, unconfirmed>>

\* share-server key revoke; a new key is made and put into the settings.
ChangeKey ==
  /\ Fault
  /\ keyValid' = ~keyValid
  /\ UNCHANGED <<clock, document, link, removing, sweep, cookie, visit, ghosts>>

\* Calls in flight end in an error, a file may be without its row and a row without its file.
ShareServerRestart ==
  /\ Fault
  /\ strayed' = strayed \cup {l \in Links : link[l].upload = "stored"}
  /\ unconfirmed' = unconfirmed \cup {l \in Links : link[l].delete = "called"}
  /\ link' = [l \in Links |->
                [link[l] EXCEPT !.upload = IF @ \in {"sent", "stored"} THEN "refused" ELSE @,
                                !.delete = IF @ = "called" THEN "done" ELSE @]]
  /\ removing' = {}
  /\ sweep' = [todo |-> {}, at |-> NoLink]
  /\ visit' = [v \in Visitors |-> NoVisit]
  /\ UNCHANGED <<clock, document, keyValid, cookie, entered, handled>>

-----------------------------------------------------------------------------
(* Visitors                                                                *)

\* HandleVerify with the right password: one cookie for all links of a browser.
HandleVerify(v, l) ==
  /\ HasRow(l)
  /\ cookie' = [cookie EXCEPT ![v] = [link |-> l, until |-> clock + CookieLife]]
  /\ entered' = [entered EXCEPT ![v] = @ \cup {l}]
  /\ UNCHANGED <<clock, document, keyValid, link, removing, sweep, visit, faults, strayed,
                 unconfirmed, handled>>

\* Mutant: a cookie of any link.
SomeCookie(v, l) == cookie[v].link # NoLink /\ clock <= cookie[v].until
CookieOpens(v, l) == cookie[v].link = l /\ clock <= cookie[v].until

\* HandleDownload: the row is read and checked, the file is opened later.
HandleDownload(v, l) ==
  /\ visit[v].pc = "idle"
  /\ HasRow(l) /\ clock <= link[l].expires
  /\ link[l].password => CookieOpens(v, l)
  /\ visit' = [visit EXCEPT ![v] = [pc |-> "checked", link |-> l]]
  /\ UNCHANGED <<clock, document, keyValid, link, removing, sweep, cookie, faults, ghosts>>

ServeFile(v) ==
  /\ visit[v].pc = "checked"
  /\ visit' = [visit EXCEPT ![v] = IF link[@.link].file THEN [@ EXCEPT !.pc = "served"]
                                   ELSE NoVisit]
  /\ UNCHANGED <<clock, document, keyValid, link, removing, sweep, cookie, faults, ghosts>>

Leave(v) ==
  /\ visit[v].pc = "served"
  /\ visit' = [visit EXCEPT ![v] = NoVisit]
  /\ UNCHANGED <<clock, document, keyValid, link, removing, sweep, cookie, faults, ghosts>>

ClockTick ==
  /\ clock < MaxClock
  /\ clock' = clock + 1
  /\ UNCHANGED <<document, keyValid, link, removing, sweep, cookie, visit, faults, ghosts>>

-----------------------------------------------------------------------------
ShareInit ==
  /\ clock = 0
  /\ document = "live"
  /\ keyValid = TRUE
  /\ link = [l \in Links |-> NewLink]
  /\ removing = {}
  /\ sweep = [todo |-> {}, at |-> NoLink]
  /\ cookie = [v \in Visitors |-> [link |-> NoLink, until |-> 0]]
  /\ visit = [v \in Visitors |-> NoVisit]
  /\ faults = 0
  /\ entered = [v \in Visitors |-> {}]
  /\ strayed = {} /\ unconfirmed = {} /\ handled = {}

CleanUp == GetExpiredLinks \/ \E l \in Links : SweepFile(l) \/ PurgeLink(l)

ShareNext ==
  \/ \E l \in Links :
       \/ \E life \in Lifetimes, password \in BOOLEAN : CreateLink(l, life, password)
       \/ HandleInternalUpload(l) \/ CreateShareLink(l) \/ CallerGone(l) \/ SaveLink(l)
       \/ DeleteLink(l) \/ HandleInternalDelete(l) \/ DeleteAnswered(l) \/ DeleteCommit(l)
       \/ DeleteLost(l) \/ CliDelete(l)
       \/ \E who \in {"request", "cli"} : DeleteShareLink(who, l)
  \/ \E state \in {"live", "trash", "gone"} : Document(state)
  \/ CleanUp \/ ChangeKey \/ ShareServerRestart
  \/ \E v \in Visitors :
       \/ \E l \in Links : HandleVerify(v, l) \/ HandleDownload(v, l)
       \/ ServeFile(v) \/ Leave(v)
  \/ ClockTick

\* Time passes and the clean-up loop runs for ever.
ShareSpec ==
  ShareInit /\ [][ShareNext]_shareVars /\ WF_shareVars(ClockTick) /\ WF_shareVars(CleanUp)

-----------------------------------------------------------------------------
(* Properties                                                              *)

\* The state has its type.
ShareTypeOK ==
  /\ clock \in 0..MaxClock /\ faults \in 0..MaxShareFaults
  /\ document \in {"live", "trash", "gone"} /\ keyValid \in BOOLEAN
  /\ \A l \in Links :
       /\ link[l].local \in {"none", "active", "inactive", "gone"}
       /\ link[l].upload \in {"idle", "sent", "stored", "answered", "refused", "saved"}
       /\ link[l].delete \in {"idle", "called", "done"}
       /\ link[l].row \in BOOLEAN /\ link[l].file \in BOOLEAN /\ link[l].expires \in 0..MaxClock
  /\ removing \subseteq {"request", "cli"} \X Links
  /\ sweep.todo \subseteq Links /\ sweep.at \in Links \cup {NoLink}
  /\ strayed \cup unconfirmed \cup handled \subseteq Links

\* A link that is shown as active works until it expires: the share server has its row and its
\* file, unless it is being deleted, or was deleted by hand or by a request that never ended.
ActiveLinkWorks ==
  \A l \in Links \ handled :
    link[l].local = "active" /\ link[l].delete = "idle" /\ clock <= link[l].expires =>
      HasRow(l) /\ link[l].file

\* A link that is shown as inactive cannot be opened, except when the share server did not
\* confirm its deletion (the backend ignores that and shows it as inactive all the same).
InactiveLinkIsClosed ==
  \A l \in Links \ unconfirmed : link[l].local = "inactive" => ~HasRow(l)

\* The share server keeps no file that nothing will remove: a file has a row, or its upload or
\* removal is under way; the exceptions are copies that broke off, restarts between file
\* and row, and removals that failed.
FilesHaveRows ==
  \A l \in Links \ strayed :
    link[l].file => HasRow(l) \/ link[l].upload = "stored"

\* A file with a password is served only to a browser whose user has given the password of
\* that very link; the cookie of another link does not open it.
PasswordWasGiven ==
  \A v \in Visitors :
    visit[v].pc = "served" /\ link[visit[v].link].password => visit[v].link \in entered[v]

\* Whatever the backend forgets (calls that failed, documents that were purged), the share
\* server closes every link in the end.
LinksEnd == \A l \in Links : HasRow(l) ~> ~HasRow(l)

\* What the backend shows of a link is what the share server does, and it keeps and serves no file
\* beyond that.
LinksAreAsShown == ActiveLinkWorks /\ InactiveLinkIsClosed /\ FilesHaveRows /\ PasswordWasGiven
=============================================================================
