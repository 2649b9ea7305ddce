----------------------------- MODULE SmbAccounts -----------------------------
(***************************************************************************)
(* Users of LAS and the accounts of the Samba container that follow them.  *)
(* LAS answers with the list of its active users and writes a file with    *)
(* the password of whoever logs in or changes it (routers/auth.py,         *)
(* routers/users.py); samba/sync.sh, one command at a time under a lock,   *)
(* brings users and accounts in line with the list and takes the files.    *)
(* A user's unix number is for life (UnixIds): here it is the user.        *)
(***************************************************************************)
EXTENDS Naturals, FiniteSets

CONSTANTS
  People, LoginNames, Secrets,
  Nobody, NoSecret,
  MaxAccountChanges, MaxSmbFaults   \* bounds: changes and logins; failures, restarts

ASSUME SmbAssumption ==
  /\ LoginNames # {} /\ Nobody \notin People /\ NoSecret \notin Secrets
  /\ {"none", "disabled"} \cap Secrets = {}
  /\ MaxAccountChanges \in Nat /\ MaxSmbFaults \in Nat

VARIABLES
  person,     \* users: none, row or gone, username, is_active, password
  writes,     \* password files that a request of LAS is about to write
  passwdFile, \* /smb-sync/<name>.passwd: who it is of and the password
  command,    \* the sync.sh that holds the lock: step, names it has yet to go through, the
              \* name it has disconnected, and the password file it has claimed
  pairs,      \* $USERS: name and number of the last list
  unixUser,   \* /etc/passwd of the container: name -> number
  smbAccount, \* Samba's accounts: none, disabled, or a password
  session,    \* connections of clients: name -> number they act as
  changes, smbFaults,
  late,       \* history: users of whom an old password was written over a newer one, whose name
              \* changed hands while a file of that name was on its way, or who got the account
              \* of the former user of the name, or kept their own, because its removal had failed,
              \* or had the name in the last list when a password of its next user was set
  pwLost,     \* history: users of whom a password was lost, or set for another of their name
  behind,     \* history: names the last sync was not able to remove
  slipped     \* history: names that connected between their disconnection and removal

accounts == <<person, writes, passwdFile>>
container == <<command, pairs, unixUser, smbAccount, session>>
histories == <<late, pwLost, behind, slipped>>
smbVars == <<accounts, container, changes, smbFaults, histories>>

-----------------------------------------------------------------------------
SomeName == CHOOSE n \in LoginNames : TRUE
NoPerson == [state |-> "none", name |-> SomeName, active |-> FALSE, secret |-> NoSecret]
NoFile == [by |-> Nobody, secret |-> NoSecret]
NoCommand == [pc |-> "idle", by |-> "sync", todo |-> {}, leaving |-> {}, name |-> SomeName,
              file |-> NoFile]

Holds(u, n) == person[u].state = "row" /\ person[u].name = n
ActivePair(n, u) == Holds(u, n) /\ person[u].active
UserList == {p \in LoginNames \X People : ActivePair(p[1], p[2])}
Free(n) == \A u \in People : ~Holds(u, n)
OnItsWay(n) ==
  \/ passwdFile[n] # NoFile
  \/ command.file # NoFile /\ command.name = n
  \/ \E w \in writes : w.name = n

Changed == changes < MaxAccountChanges /\ changes' = changes + 1
SmbFault == smbFaults < MaxSmbFaults /\ smbFaults' = smbFaults + 1

-----------------------------------------------------------------------------
(* LAS                                                                     *)

CreateUser(u, n, s) ==
  /\ person[u].state = "none" /\ Free(n)
  /\ Changed
  /\ person' = [person EXCEPT ![u] = [state |-> "row", name |-> n, active |-> TRUE, secret |-> s]]
  /\ late' = IF OnItsWay(n) THEN late \cup {u} ELSE late
  /\ UNCHANGED <<writes, passwdFile, container, smbFaults, pwLost, behind, slipped>>

\* PUT /users/{id} by an admin: username, is_active and, unless NoSecret, the password, of
\* which the file is written after the commit.
UpdateUser(u, n, active, s) ==
  /\ person[u].state = "row" /\ (n = person[u].name \/ Free(n))
  /\ Changed
  /\ LET old == person[u]
         new == [old EXCEPT !.name = n, !.active = active, !.secret = IF s = NoSecret THEN @ ELSE s]
     IN /\ new # old
        /\ person' = [person EXCEPT ![u] = new]
        /\ writes' = writes \cup (IF s = NoSecret THEN {}
                                  ELSE {[by |-> u, name |-> n, secret |-> s]})
        /\ late' = IF n # old.name /\ (OnItsWay(n) \/ OnItsWay(old.name)) THEN late \cup {u}
                   ELSE late
  /\ UNCHANGED <<passwdFile, container, smbFaults, pwLost, behind, slipped>>

DeleteUser(u) ==
  /\ person[u].state = "row"
  /\ Changed
  /\ person' = [person EXCEPT ![u].state = "gone"]
  /\ UNCHANGED <<writes, passwdFile, container, smbFaults, histories>>

\* A login has checked the password and will write it.
Login(u) ==
  /\ person[u].state = "row" /\ person[u].active
  /\ Changed
  /\ writes' = writes \cup {[by |-> u, name |-> person[u].name, secret |-> person[u].secret]}
  /\ UNCHANGED <<person, passwdFile, container, smbFaults, histories>>

\* Mutant: a file that is already there stays.
ReplacedIfNone(w) ==
  IF passwdFile[w.name] # NoFile THEN passwdFile
  ELSE [passwdFile EXCEPT ![w.name] = [by |-> w.by, secret |-> w.secret]]

Replaced(w) == [passwdFile EXCEPT ![w.name] = [by |-> w.by, secret |-> w.secret]]

\* _sync_smb_password: the whole file by os.replace, or nothing when the backend stops here
\* or the disk is full.
WriteFile(w) ==
  /\ w \in writes
  /\ writes' = writes \ {w}
  /\ passwdFile' = Replaced(w)
  /\ late' = IF Holds(w.by, w.name) /\ person[w.by].secret = w.secret THEN late
             ELSE late \cup {w.by}
  /\ UNCHANGED <<person, container, changes, smbFaults, pwLost, behind, slipped>>

LoseFile(w) ==
  /\ w \in writes /\ SmbFault
  /\ writes' = writes \ {w}
  /\ pwLost' = pwLost \cup {w.by}
  /\ UNCHANGED <<person, passwdFile, container, changes, late, behind, slipped>>

-----------------------------------------------------------------------------
(* sync.sh sync                                                            *)

StartSync ==
  /\ command.pc = "idle"
  /\ command' = [NoCommand EXCEPT !.pc = "fetch"]
  /\ UNCHANGED <<accounts, pairs, unixUser, smbAccount, session, changes, smbFaults, histories>>

\* Mutant: every sync is followed by a password.
AfterAnySync == [command EXCEPT !.pc = "password"]

AfterSync == IF command.by = "sync" THEN NoCommand ELSE [command EXCEPT !.pc = "password"]

\* The password claimed for this command may get no account.
Lost == pwLost \cup ({command.file.by} \ {Nobody})

\* Mutant: those whose name is not in the list.
StaleName(list) ==
  {n \in LoginNames : /\ unixUser[n] # Nobody \/ smbAccount[n] # "none"
                      /\ \A u \in People : <<n, u>> \notin list}

\* Users and accounts whose name and number are not in the list.
Stale(list) == {n \in LoginNames : /\ unixUser[n] # Nobody \/ smbAccount[n] # "none"
                                   /\ unixUser[n] = Nobody \/ <<n, unixUser[n]>> \notin list}

\* The list checks out and is kept.
Fetch ==
  /\ command.pc = "fetch"
  /\ pairs' = UserList
  /\ command' = [command EXCEPT !.pc = "remove", !.todo = Stale(UserList)]
  /\ behind' = {}
  /\ UNCHANGED <<accounts, unixUser, smbAccount, session, changes, smbFaults, late, pwLost,
                 slipped>>

\* LAS does not answer, or the list does not check out: nothing is changed.
NoList ==
  /\ command.pc = "fetch" /\ SmbFault
  /\ command' = AfterSync
  /\ pwLost' = Lost
  /\ UNCHANGED <<accounts, pairs, unixUser, smbAccount, session, changes, late, behind, slipped>>

\* Mutant: the processes go on.
CutLater(n) == session

Cut(n) == [session EXCEPT ![n] = Nobody]

\* The smbd processes of the name are killed ...
Disconnect(n) ==
  /\ command.pc = "remove" /\ command.leaving = {} /\ n \in command.todo
  /\ session' = Cut(n)
  /\ command' = [command EXCEPT !.leaving = {n}]
  /\ UNCHANGED <<accounts, pairs, unixUser, smbAccount, changes, smbFaults, histories>>

\* ... then the account and the user are removed, each of which may fail.
RemoveUser(n) ==
  /\ command.pc = "remove" /\ command.leaving = {n}
  /\ command' = [command EXCEPT !.leaving = {}, !.todo = @ \ {n}]
  /\ \E account, user \in BOOLEAN :
       /\ smbAccount' = [smbAccount EXCEPT ![n] = IF account THEN "none" ELSE @]
       /\ unixUser' = [unixUser EXCEPT ![n] = IF user THEN Nobody ELSE @]
       /\ IF account /\ user THEN UNCHANGED <<smbFaults, behind>>
          ELSE SmbFault /\ behind' = behind \cup {n}
       /\ late' = IF account THEN late ELSE late \cup ({unixUser[n]} \ {Nobody})
  /\ UNCHANGED <<accounts, pairs, session, changes, pwLost, slipped>>

EndRemove ==
  /\ command.pc = "remove" /\ command.todo = {}
  /\ command' = [command EXCEPT !.pc = "add", !.todo = {p[1] : p \in pairs}]
  /\ UNCHANGED <<accounts, pairs, unixUser, smbAccount, session, changes, smbFaults, histories>>

\* Mutant: a number is given to a second name.
AnyNumber(n, u) == TRUE

NumberIsFree(n, u) == \A m \in LoginNames \ {n} : unixUser[m] # u

\* adduser refuses a name or a number in use; a name with another number is skipped; then an
\* account that cannot be used, for a name without one.
AddUser(n, u) ==
  /\ command.pc = "add" /\ n \in command.todo /\ <<n, u>> \in pairs
  /\ command' = [command EXCEPT !.todo = @ \ {n}]
  /\ LET added == unixUser[n] = Nobody /\ NumberIsFree(n, u)
         has == unixUser[n] = u \/ added
     IN /\ unixUser' = [unixUser EXCEPT ![n] = IF added THEN u ELSE @]
        /\ smbAccount' = [smbAccount EXCEPT ![n] = IF has /\ @ = "none" THEN "disabled" ELSE @]
        /\ late' = IF added /\ smbAccount[n] # "none" THEN late \cup {u} ELSE late
  /\ UNCHANGED <<accounts, pairs, session, changes, smbFaults, pwLost, behind, slipped>>

EndSync ==
  /\ command.pc = "add" /\ command.todo = {}
  /\ command' = AfterSync
  /\ UNCHANGED <<accounts, pairs, unixUser, smbAccount, session, changes, smbFaults, histories>>

-----------------------------------------------------------------------------
(* sync.sh passwords                                                       *)

IsListed(n) == unixUser[n] # Nobody /\ <<n, unixUser[n]>> \in pairs /\ smbAccount[n] # "none"

\* The file is renamed to claim it: what is written from now on is another file.
NameTaken(n) == [passwdFile EXCEPT ![n] = NoFile]

Claim(n) ==
  /\ command.pc = "idle" /\ passwdFile[n] # NoFile
  /\ passwdFile' = NameTaken(n)
  /\ command' = [NoCommand EXCEPT !.pc = IF IsListed(n) THEN "password" ELSE "fetch",
                                  !.by = "passwords", !.name = n, !.file = passwdFile[n]]
  /\ UNCHANGED <<person, writes, pairs, unixUser, smbAccount, session, changes, smbFaults,
                 histories>>

\* smbpasswd -s and -e for a listed name; the claimed file goes in any case.  The name may be
\* listed for the user who had it before: it is their account that takes the password.
UsePassword ==
  /\ command.pc = "password"
  /\ command' = NoCommand
  /\ LET n == command.name
         taken == IsListed(n) /\ unixUser[n] # command.file.by
     IN \/ /\ smbAccount' = [smbAccount EXCEPT
                              ![n] = IF IsListed(n) THEN command.file.secret ELSE @]
           /\ late' = IF taken THEN late \cup {unixUser[n]} ELSE late
           /\ pwLost' = IF taken THEN Lost ELSE pwLost
           /\ UNCHANGED smbFaults
        \/ /\ IsListed(n) /\ SmbFault
           /\ pwLost' = Lost
           /\ UNCHANGED <<smbAccount, late>>
  /\ UNCHANGED <<accounts, pairs, unixUser, session, changes, behind, slipped>>

\* The container stops and starts again: connections end, a claimed file is removed by
\* start-clean, and the first sync begins.
ContainerRestart ==
  /\ SmbFault
  /\ session' = [n \in LoginNames |-> Nobody]
  /\ pwLost' = Lost
  /\ command' = [NoCommand EXCEPT !.pc = "fetch"]
  /\ behind' = behind \cup Stale(pairs)
  /\ UNCHANGED <<accounts, pairs, unixUser, smbAccount, changes, late, slipped>>

\* A client: smbd goes by its own accounts alone.
Connect(n) ==
  /\ smbAccount[n] \in Secrets /\ unixUser[n] # Nobody /\ session[n] = Nobody
  /\ session' = [session EXCEPT ![n] = unixUser[n]]
  /\ slipped' = IF n \in command.leaving THEN slipped \cup {n} ELSE slipped
  /\ UNCHANGED <<accounts, command, pairs, unixUser, smbAccount, changes, smbFaults, late, pwLost,
                 behind>>

-----------------------------------------------------------------------------
SmbInit ==
  /\ person = [u \in People |-> NoPerson]
  /\ writes = {}
  /\ passwdFile = [n \in LoginNames |-> NoFile]
  /\ command = [NoCommand EXCEPT !.pc = "fetch"]
  /\ pairs = {}
  /\ unixUser = [n \in LoginNames |-> Nobody]
  /\ smbAccount = [n \in LoginNames |-> "none"]
  /\ session = [n \in LoginNames |-> Nobody]
  /\ changes = 0 /\ smbFaults = 0
  /\ late = {} /\ pwLost = {} /\ behind = {} /\ slipped = {}

SyncStep ==
  \/ Fetch \/ EndRemove \/ EndSync
  \/ \E n \in LoginNames : Disconnect(n) \/ RemoveUser(n) \/ \E u \in People : AddUser(n, u)

SmbNext ==
  \/ \E u \in People :
       \/ \E n \in LoginNames, s \in Secrets : CreateUser(u, n, s)
       \/ \E n \in LoginNames, active \in BOOLEAN, s \in Secrets \cup {NoSecret} :
            UpdateUser(u, n, active, s)
       \/ DeleteUser(u) \/ Login(u)
  \/ \E w \in writes : WriteFile(w) \/ LoseFile(w)
  \/ StartSync \/ SyncStep \/ NoList \/ UsePassword \/ ContainerRestart
  \/ \E n \in LoginNames : Claim(n) \/ Connect(n)

\* The two loops of entrypoint.sh go on for ever and a command that has begun ends; the lock
\* comes to the sync again and again, although the password loop asks for it every second.
SmbSpec == /\ SmbInit /\ [][SmbNext]_smbVars
           /\ SF_smbVars(StartSync) /\ WF_smbVars(SyncStep) /\ WF_smbVars(UsePassword)

-----------------------------------------------------------------------------
(* Properties                                                              *)

\* The state has its type, and a command has claimed a file or is a sync.
SmbTypeOK ==
  /\ \A u \in People : /\ person[u].state \in {"none", "row", "gone"}
                       /\ person[u].name \in LoginNames /\ person[u].active \in BOOLEAN
                       /\ person[u].secret \in Secrets \cup {NoSecret}
  /\ writes \subseteq [by : People, name : LoginNames, secret : Secrets]
  /\ passwdFile \in [LoginNames -> [by : People \cup {Nobody}, secret : Secrets \cup {NoSecret}]]
  /\ command.pc \in {"idle", "fetch", "remove", "add", "password"}
  /\ command.todo \cup command.leaving \subseteq LoginNames
  /\ (command.by = "passwords") = (command.file # NoFile)
  /\ pairs \subseteq LoginNames \X People
  /\ unixUser \in [LoginNames -> People \cup {Nobody}]
  /\ smbAccount \in [LoginNames -> Secrets \cup {"none", "disabled"}]
  /\ session \in [LoginNames -> People \cup {Nobody}]
  /\ late \cup pwLost \subseteq People /\ behind \cup slipped \subseteq LoginNames

\* Between two commands every account is one of the last list, under the number LAS gave to
\* that name (after a rename, a swap of names or a new user of an old name, too), unless a
\* removal failed.
AccountsFollowTheList ==
  command.pc = "idle" =>
    \A n \in LoginNames \ behind : smbAccount[n] # "none" => <<n, unixUser[n]>> \in pairs

\* No two names act as one user, whatever removals fail.
OneNamePerUser ==
  \A n, m \in LoginNames : unixUser[n] = unixUser[m] /\ unixUser[n] # Nobody => n = m

\* When no password of a name is under way, an account that can be used takes the password
\* LAS takes, unless an older password was written after a newer one (a login that crossed a
\* change), the name changed hands meanwhile or since the last list, a removal failed, or the
\* password was lost.
SettledPasswordIsRight ==
  \A n \in LoginNames :
    /\ ~OnItsWay(n) /\ smbAccount[n] \in Secrets
    /\ unixUser[n] \in People \ (late \cup pwLost) /\ Holds(unixUser[n], n)
    => smbAccount[n] = person[unixUser[n]].secret

\* Who is deactivated, renamed or deleted loses the account, and the connections with it but
\* for a client that connects again before the removal.
Leaving(n) == unixUser[n] # Nobody /\ ~ActivePair(n, unixUser[n])
Welcome(n) == session[n] = Nobody \/ ActivePair(n, session[n]) \/ n \in slipped

LeaversAreCutOff == \A n \in LoginNames : Leaving(n) ~> ~Leaving(n) /\ Welcome(n)

\* The accounts of the file server are those of LAS, one for a user, with the password of LAS.
AccountsAreThoseOfLas == AccountsFollowTheList /\ OneNamePerUser /\ SettledPasswordIsRight
=============================================================================
