--------------------------- MODULE SmbAccountsProofs ---------------------------
(***************************************************************************)
(* Proofs about SmbAccounts: the accounts of the file server are those of  *)
(* LAS, for any users, names and passwords and whatever fails.             *)
(***************************************************************************)
EXTENDS SmbAccounts, TLAPS

Row(u) == person[u].state = "row"
NameOf(u) == person[u].name
Files == [by : People, secret : Secrets]

\* Users who are there and to whom none of the exceptions has happened.
Clean == {u \in People : Row(u) /\ u \notin late /\ u \notin pwLost}

TypeInv ==
  /\ person \in [People -> [state : {"none", "row", "gone"}, name : LoginNames, active : BOOLEAN,
                            secret : Secrets \cup {NoSecret}]]
  /\ \A u \in People : Row(u) => person[u].secret \in Secrets
  /\ writes \subseteq [by : People, name : LoginNames, secret : Secrets]
  /\ passwdFile \in [LoginNames -> Files \cup {NoFile}]
  /\ command \in [pc : {"idle", "fetch", "remove", "add", "password"}, by : {"sync", "passwords"},
                  todo : SUBSET LoginNames, leaving : SUBSET LoginNames, name : LoginNames,
                  file : Files \cup {NoFile}]
  /\ (command.by = "passwords") <=> (command.file # NoFile)
  /\ command.pc = "idle" => command.file = NoFile
  /\ command.pc = "password" => command.file # NoFile
  /\ pairs \subseteq LoginNames \X People
  /\ unixUser \in [LoginNames -> People \cup {Nobody}]
  /\ smbAccount \in [LoginNames -> Secrets \cup {"none", "disabled"}]
  /\ session \in [LoginNames -> People \cup {Nobody}]
  /\ late \subseteq People /\ pwLost \subseteq People
  /\ behind \subseteq LoginNames /\ slipped \subseteq LoginNames

\* What a sync has gone through is of the list, but for the names it was not able to remove.
FollowInv ==
  \A n \in LoginNames :
    /\ n \notin behind /\ ~(command.pc = "remove" /\ n \in command.todo)
    /\ smbAccount[n] # "none"
    => <<n, unixUser[n]>> \in pairs

NamesUnique == \A u, v \in People : Row(u) /\ Row(v) /\ NameOf(u) = NameOf(v) => u = v

\* Nothing speaks of a user before there is one.
KnownInv ==
  \A u \in People : person[u].state = "none" =>
    /\ \A w \in writes : w.by # u
    /\ \A n \in LoginNames : passwdFile[n].by # u /\ unixUser[n] # u /\ <<n, u>> \notin pairs
    /\ command.file.by # u

\* The passwords on their way for the name of a user are the user's own, and all they have.
OwnInv ==
  \A u \in Clean :
    /\ \A w \in writes : w.name = NameOf(u) <=> w.by = u
    /\ \A n \in LoginNames : passwdFile[n] # NoFile => (n = NameOf(u) <=> passwdFile[n].by = u)
    /\ command.file # NoFile => (command.name = NameOf(u) <=> command.file.by = u)

FileOf(u) == [by |-> u, secret |-> person[u].secret]
Settled(u) ==
  \A n \in LoginNames :
    unixUser[n] = u /\ smbAccount[n] \in Secrets => smbAccount[n] = person[u].secret

\* The last of a user's passwords to be written, to be claimed or to be set is the one of LAS.
LastIsRight(u) ==
  \/ \E w \in writes : w.by = u /\ w.secret = person[u].secret
  \/ passwdFile[NameOf(u)] = FileOf(u)
  \/ passwdFile[NameOf(u)] = NoFile /\ command.file = FileOf(u)
  \/ passwdFile[NameOf(u)] = NoFile /\ command.file.by # u /\ Settled(u)
FinalInv == \A u \in Clean : LastIsRight(u)

\* The list of a sync that a password waits for has its user under the name of the file.
InSync == command.pc \in {"remove", "add"}
SyncedInv ==
  InSync => \A n \in LoginNames, u \in Clean :
              command.file.by = u /\ <<n, u>> \in pairs => n = command.name

\* Who kept an account that was to be removed is one of the exceptions.
BehindInv ==
  InSync => \A n \in behind :
              smbAccount[n] \in Secrets /\ unixUser[n] # Nobody => unixUser[n] \in late

\* A password that is dropped leaves no account that takes an older one.
PassInv ==
  command.pc = "password" /\ command.file.by \in Clean /\ ~IsListed(command.name) =>
    \A n \in LoginNames : unixUser[n] = command.file.by => smbAccount[n] \notin Secrets

AccountsInv ==
  /\ TypeInv /\ FollowInv /\ OneNamePerUser
  /\ NamesUnique /\ KnownInv /\ OwnInv /\ FinalInv
  /\ SyncedInv /\ BehindInv /\ PassInv

-----------------------------------------------------------------------------
(* Types                                                                   *)

LEMMA FilesAreNot == NoFile \notin Files /\ \A f \in Files : f.by \in People /\ f.secret \in Secrets
BY SmbAssumption DEF Files, NoFile

LEMMA StartWell == SmbInit => AccountsInv
<1> SUFFICES ASSUME SmbInit PROVE AccountsInv
  OBVIOUS
<1> USE SmbAssumption
<1>1. SomeName \in LoginNames
  BY DEF SomeName
<1>2. TypeInv
  BY <1>1 DEF SmbInit, TypeInv, NoPerson, NoFile, NoCommand, Row
<1>3. FollowInv /\ OneNamePerUser
  BY DEF SmbInit, FollowInv, OneNamePerUser
<1>4. NamesUnique /\ Clean = {}
  BY DEF SmbInit, NamesUnique, Clean, Row, NoPerson
<1>5. KnownInv
  BY DEF SmbInit, KnownInv, NoFile, NoCommand
<1>6. OwnInv /\ FinalInv
  BY <1>4 DEF OwnInv, FinalInv
<1>7. command.pc = "fetch"
  BY DEF SmbInit, NoCommand
<1>8. SyncedInv /\ BehindInv /\ PassInv
  BY <1>7 DEF SyncedInv, BehindInv, PassInv, InSync
<1> QED  BY <1>2, <1>3, <1>4, <1>5, <1>6, <1>8 DEF AccountsInv

LEMMA AccountTypes == TypeInv => SmbTypeOK
BY FilesAreNot, SmbAssumption DEF TypeInv, SmbTypeOK, NoFile, Files

LEMMA TypeKept == TypeInv /\ [SmbNext]_smbVars => TypeInv'
<1> SUFFICES ASSUME TypeInv, [SmbNext]_smbVars PROVE TypeInv'
  OBVIOUS
<1> USE SmbAssumption
<1> USE DEF TypeInv, Row, NoFile
<1>0. SomeName \in LoginNames
  BY DEF SomeName
<1>a. CASE UNCHANGED smbVars
  BY <1>a DEF smbVars, accounts, container, histories
<1>1. ASSUME NEW u \in People, NEW n \in LoginNames, NEW s \in Secrets, CreateUser(u, n, s)
      PROVE  TypeInv'
  BY <1>1 DEF CreateUser, container
<1>2. ASSUME NEW u \in People, NEW n \in LoginNames, NEW active \in BOOLEAN,
             NEW s \in Secrets \cup {NoSecret}, UpdateUser(u, n, active, s)
      PROVE  TypeInv'
  <2> DEFINE new == [person[u] EXCEPT !.name = n, !.active = active,
                                      !.secret = IF s = NoSecret THEN @ ELSE s]
  <2>1. person' = [person EXCEPT ![u] = new] /\ Row(u)
    BY <1>2 DEF UpdateUser
  <2>a. person[u] \in [state : {"none", "row", "gone"}, name : LoginNames, active : BOOLEAN,
                       secret : Secrets \cup {NoSecret}]
    OBVIOUS
  <2>b. person[u].secret \in Secrets
    BY <2>1
  <2>2. /\ new \in [state : {"none", "row", "gone"}, name : LoginNames, active : BOOLEAN,
                     secret : Secrets \cup {NoSecret}]
        /\ new.secret \in Secrets /\ new.name = n
    BY <2>a, <2>b
  <2> HIDE DEF new
  <2>3. /\ person' \in [People -> [state : {"none", "row", "gone"}, name : LoginNames,
                                    active : BOOLEAN, secret : Secrets \cup {NoSecret}]]
        /\ \A v \in People : Row(v)' => person'[v].secret \in Secrets
    BY <2>1, <2>2
  <2>4. writes' \subseteq [by : People, name : LoginNames, secret : Secrets]
    BY <1>2 DEF UpdateUser
  <2>5. late' \subseteq People /\ UNCHANGED <<passwdFile, container, pwLost, behind, slipped>>
    BY <1>2 DEF UpdateUser
  <2> QED  BY <2>3, <2>4, <2>5 DEF container
<1>3. ASSUME NEW u \in People, DeleteUser(u) PROVE TypeInv'
  BY <1>3 DEF DeleteUser, container, histories
<1>4. ASSUME NEW u \in People, Login(u) PROVE TypeInv'
  BY <1>4 DEF Login, container, histories
<1>5. ASSUME NEW w \in writes, WriteFile(w) PROVE TypeInv'
  BY <1>5 DEF WriteFile, Replaced, Files, container
<1>6. ASSUME NEW w \in writes, LoseFile(w) PROVE TypeInv'
  BY <1>6 DEF LoseFile, container
<1>7. ASSUME StartSync PROVE TypeInv'
  BY <1>0, <1>7 DEF StartSync, NoCommand, accounts, histories
<1>8. ASSUME Fetch PROVE TypeInv'
  BY <1>8 DEF Fetch, UserList, Stale, accounts
<1>9. ASSUME NoList PROVE TypeInv'
  BY <1>0, <1>9 DEF NoList, AfterSync, NoCommand, Lost, Files, accounts
<1>10. ASSUME NEW n \in LoginNames, Disconnect(n) PROVE TypeInv'
  BY <1>10 DEF Disconnect, Cut, accounts, histories
<1>11. ASSUME NEW n \in LoginNames, RemoveUser(n) PROVE TypeInv'
  <2>1. PICK account \in BOOLEAN, user \in BOOLEAN :
          /\ smbAccount' = [smbAccount EXCEPT ![n] = IF account THEN "none" ELSE @]
          /\ unixUser' = [unixUser EXCEPT ![n] = IF user THEN Nobody ELSE @]
          /\ IF account /\ user THEN UNCHANGED <<smbFaults, behind>>
             ELSE SmbFault /\ behind' = behind \cup {n}
          /\ late' = IF account THEN late ELSE late \cup ({unixUser[n]} \ {Nobody})
    BY <1>11 DEF RemoveUser
  <2>2. /\ command' = [command EXCEPT !.leaving = {}, !.todo = @ \ {n}]
        /\ UNCHANGED <<accounts, pairs, session, pwLost, slipped>>
    BY <1>11 DEF RemoveUser
  <2>3. /\ smbAccount' \in [LoginNames -> Secrets \cup {"none", "disabled"}]
        /\ unixUser' \in [LoginNames -> People \cup {Nobody}]
        /\ late' \subseteq People /\ behind' \subseteq LoginNames
    BY <2>1
  <2> QED  BY <2>2, <2>3 DEF accounts
<1>12. ASSUME EndRemove PROVE TypeInv'
  <2>1. {p[1] : p \in pairs} \subseteq LoginNames
    OBVIOUS
  <2> QED  BY <1>12, <2>1 DEF EndRemove, accounts, histories
<1>13. ASSUME NEW n \in LoginNames, NEW u \in People, AddUser(n, u) PROVE TypeInv'
  BY <1>13 DEF AddUser, accounts
<1>14. ASSUME EndSync PROVE TypeInv'
  BY <1>0, <1>14 DEF EndSync, AfterSync, NoCommand, accounts, histories
<1>15. ASSUME NEW n \in LoginNames, Claim(n) PROVE TypeInv'
  BY <1>0, <1>15 DEF Claim, NameTaken, NoCommand, histories
<1>16. ASSUME UsePassword PROVE TypeInv'
  BY <1>0, <1>16 DEF UsePassword, IsListed, NoCommand, Lost, Files, accounts
<1>17. ASSUME ContainerRestart PROVE TypeInv'
  BY <1>0, <1>17 DEF ContainerRestart, Stale, NoCommand, Lost, Files, accounts
<1>18. ASSUME NEW n \in LoginNames, Connect(n) PROVE TypeInv'
  BY <1>18 DEF Connect, accounts
<1> QED
  BY <1>a, <1>1, <1>2, <1>3, <1>4, <1>5, <1>6, <1>7, <1>8, <1>9, <1>10, <1>11, <1>12, <1>13,
     <1>14, <1>15, <1>16, <1>17, <1>18 DEF SmbNext, SyncStep

-----------------------------------------------------------------------------
(* The list and the names                                                  *)

\* A step of LAS or of a client leaves what sync.sh works on as it is.
LEMMA Steps ==
    ASSUME [SmbNext]_smbVars
    PROVE  \/ UNCHANGED <<command, pairs, unixUser, smbAccount, behind>>
           \/ StartSync \/ Fetch \/ NoList \/ EndRemove \/ EndSync \/ UsePassword \/ ContainerRestart
           \/ \E n \in LoginNames : Disconnect(n) \/ RemoveUser(n) \/ Claim(n)
           \/ \E n \in LoginNames, u \in People : AddUser(n, u)
<1>1. ASSUME NEW u \in People, NEW n \in LoginNames, NEW s \in Secrets, CreateUser(u, n, s)
      PROVE  UNCHANGED <<command, pairs, unixUser, smbAccount, behind>>
  BY <1>1 DEF CreateUser, container
<1>2. ASSUME NEW u \in People, NEW n \in LoginNames, NEW active \in BOOLEAN,
             NEW s \in Secrets \cup {NoSecret}, UpdateUser(u, n, active, s)
      PROVE  UNCHANGED <<command, pairs, unixUser, smbAccount, behind>>
  BY <1>2 DEF UpdateUser, container
<1>3. ASSUME NEW u \in People, DeleteUser(u) \/ Login(u)
      PROVE  UNCHANGED <<command, pairs, unixUser, smbAccount, behind>>
  BY <1>3 DEF DeleteUser, Login, container, histories
<1>4. ASSUME NEW w \in writes, WriteFile(w) \/ LoseFile(w)
      PROVE  UNCHANGED <<command, pairs, unixUser, smbAccount, behind>>
  BY <1>4 DEF WriteFile, LoseFile, container
<1>5. ASSUME NEW n \in LoginNames, Connect(n)
      PROVE  UNCHANGED <<command, pairs, unixUser, smbAccount, behind>>
  BY <1>5 DEF Connect
<1>6. ASSUME UNCHANGED smbVars PROVE UNCHANGED <<command, pairs, unixUser, smbAccount, behind>>
  BY <1>6 DEF smbVars, container, histories
<1> QED  BY <1>1, <1>2, <1>3, <1>4, <1>5, <1>6 DEF SmbNext, SyncStep

\* The exceptions are never taken back.
LEMMA ExceptionsStay == [SmbNext]_smbVars => late \subseteq late' /\ pwLost \subseteq pwLost'
BY DEF SmbNext, SyncStep, CreateUser, UpdateUser, DeleteUser, Login, WriteFile, LoseFile, StartSync,
       Fetch, NoList, Disconnect, RemoveUser, EndRemove, AddUser, EndSync, Claim, UsePassword,
       ContainerRestart, Connect, Lost, histories, smbVars

\* Each removal of a name takes its account and its user, or leaves the name behind.
LEMMA Removed ==
    ASSUME TypeInv, NEW n \in LoginNames, RemoveUser(n)
    PROVE  /\ command' = [command EXCEPT !.leaving = {}, !.todo = @ \ {n}] /\ command.pc = "remove"
           /\ UNCHANGED <<accounts, pairs, pwLost>>
           /\ \A m \in LoginNames \ {n} : smbAccount'[m] = smbAccount[m] /\ unixUser'[m] = unixUser[m]
           /\ smbAccount'[n] \in {"none", smbAccount[n]} /\ unixUser'[n] \in {Nobody, unixUser[n]}
           /\ smbAccount'[n] = "none" \/ unixUser[n] = Nobody \/ unixUser[n] \in late'
           /\ behind' \in {behind, behind \cup {n}}
           /\ n \in behind' \/ smbAccount'[n] = "none"
<1>1. PICK account \in BOOLEAN, user \in BOOLEAN :
        /\ smbAccount' = [smbAccount EXCEPT ![n] = IF account THEN "none" ELSE @]
        /\ unixUser' = [unixUser EXCEPT ![n] = IF user THEN Nobody ELSE @]
        /\ IF account /\ user THEN UNCHANGED <<smbFaults, behind>>
           ELSE SmbFault /\ behind' = behind \cup {n}
        /\ late' = IF account THEN late ELSE late \cup ({unixUser[n]} \ {Nobody})
  BY DEF RemoveUser
<1>2. /\ command' = [command EXCEPT !.leaving = {}, !.todo = @ \ {n}] /\ command.pc = "remove"
      /\ UNCHANGED <<accounts, pairs, pwLost>>
  BY DEF RemoveUser
<1> QED  BY <1>1, <1>2 DEF TypeInv

LEMMA Added ==
    ASSUME TypeInv, NEW n \in LoginNames, NEW u \in People, AddUser(n, u)
    PROVE  /\ command.pc = "add" /\ command' = [command EXCEPT !.todo = @ \ {n}]
           /\ <<n, u>> \in pairs
           /\ UNCHANGED <<accounts, pairs, pwLost, behind>>
           /\ \A m \in LoginNames \ {n} : smbAccount'[m] = smbAccount[m] /\ unixUser'[m] = unixUser[m]
           /\ smbAccount'[n] # smbAccount[n] =>
                smbAccount[n] = "none" /\ smbAccount'[n] = "disabled" /\ unixUser'[n] = u
           /\ unixUser'[n] # unixUser[n] =>
                /\ unixUser[n] = Nobody /\ unixUser'[n] = u /\ NumberIsFree(n, u)
                /\ smbAccount[n] # "none" => u \in late'
BY DEF AddUser, TypeInv

LEMMA FollowKept == TypeInv /\ FollowInv /\ [SmbNext]_smbVars => FollowInv'
<1> SUFFICES ASSUME TypeInv, FollowInv, [SmbNext]_smbVars, NEW m \in LoginNames,
                    m \notin behind', ~(command'.pc = "remove" /\ m \in command'.todo),
                    smbAccount'[m] # "none"
             PROVE  <<m, unixUser'[m]>> \in pairs'
  BY DEF FollowInv
<1> USE DEF FollowInv
<1>a. CASE UNCHANGED <<command, pairs, unixUser, smbAccount, behind>>
  BY <1>a
<1>1. CASE StartSync
  BY <1>1 DEF StartSync, accounts, histories
<1>2. CASE Fetch
  <2>1. m \notin Stale(UserList) /\ UNCHANGED <<unixUser, smbAccount>> /\ pairs' = UserList
    BY <1>2 DEF Fetch, TypeInv
  <2> QED  BY <2>1 DEF Stale
<1>3. CASE NoList
  BY <1>3 DEF NoList, accounts
<1>4. CASE EndRemove
  BY <1>4 DEF EndRemove, accounts, histories
<1>5. CASE EndSync
  BY <1>5 DEF EndSync, accounts, histories
<1>6. CASE UsePassword
  BY <1>6 DEF UsePassword, IsListed, accounts, TypeInv
<1>7. CASE ContainerRestart
  BY <1>7 DEF ContainerRestart, Stale, accounts
<1>8. ASSUME NEW n \in LoginNames, Disconnect(n) PROVE <<m, unixUser'[m]>> \in pairs'
  BY <1>8 DEF Disconnect, accounts, histories, TypeInv
<1>9. ASSUME NEW n \in LoginNames, RemoveUser(n) PROVE <<m, unixUser'[m]>> \in pairs'
  <2>1. UNCHANGED pairs /\ behind \subseteq behind' /\ command.pc = "remove"
    BY <1>9, Removed
  <2>2. command'.pc = "remove" /\ command'.todo = command.todo \ {n}
    <3>1. command' = [command EXCEPT !.leaving = {}, !.todo = @ \ {n}]
      BY <1>9, Removed
    <3> QED  BY <2>1, <3>1 DEF TypeInv
  <2>3. CASE m = n
    BY <1>9, <2>3, Removed
  <2>4. CASE m # n
    <3>1. smbAccount'[m] = smbAccount[m] /\ unixUser'[m] = unixUser[m]
      BY <1>9, <2>4, Removed
    <3> QED  BY <2>1, <2>2, <2>4, <3>1
  <2> QED  BY <2>3, <2>4
<1>10. ASSUME NEW n \in LoginNames, Claim(n) PROVE <<m, unixUser'[m]>> \in pairs'
  BY <1>10 DEF Claim, histories
<1>11. ASSUME NEW n \in LoginNames, NEW u \in People, AddUser(n, u)
       PROVE  <<m, unixUser'[m]>> \in pairs'
  BY <1>11, Added DEF TypeInv
<1> QED  BY Steps, <1>a, <1>1, <1>2, <1>3, <1>4, <1>5, <1>6, <1>7, <1>8, <1>9, <1>10, <1>11

LEMMA OneNameKept == TypeInv /\ OneNamePerUser /\ [SmbNext]_smbVars => OneNamePerUser'
<1> SUFFICES ASSUME TypeInv, OneNamePerUser, [SmbNext]_smbVars PROVE OneNamePerUser'
  OBVIOUS
<1>1. ASSUME UNCHANGED unixUser PROVE OneNamePerUser'
  BY <1>1 DEF OneNamePerUser
<1>2. ASSUME NEW n \in LoginNames, RemoveUser(n) PROVE OneNamePerUser'
  <2>1. \A m \in LoginNames : unixUser'[m] \in {Nobody, unixUser[m]}
    BY <1>2, Removed
  <2> QED  BY <2>1 DEF OneNamePerUser
<1>3. ASSUME NEW n \in LoginNames, NEW u \in People, AddUser(n, u) PROVE OneNamePerUser'
  <2>1. \A m \in LoginNames \ {n} : unixUser'[m] = unixUser[m]
    BY <1>3, Added
  <2>2. unixUser'[n] # unixUser[n] => unixUser'[n] = u /\ NumberIsFree(n, u)
    BY <1>3, Added
  <2> QED  BY <2>1, <2>2 DEF OneNamePerUser, NumberIsFree
<1> QED
  BY Steps, <1>1, <1>2, <1>3 DEF StartSync, Fetch, NoList, EndRemove, EndSync, UsePassword,
     ContainerRestart, Disconnect, Claim

LEMMA NamesKept == TypeInv /\ NamesUnique /\ [SmbNext]_smbVars => NamesUnique'
<1> SUFFICES ASSUME TypeInv, NamesUnique, [SmbNext]_smbVars PROVE NamesUnique'
  OBVIOUS
<1> USE DEF NamesUnique, Row, NameOf
<1>1. ASSUME UNCHANGED person PROVE NamesUnique'
  BY <1>1
<1>2. ASSUME NEW u \in People, NEW n \in LoginNames, NEW s \in Secrets, CreateUser(u, n, s)
      PROVE  NamesUnique'
  BY <1>2 DEF CreateUser, Free, Holds, TypeInv
<1>3. ASSUME NEW u \in People, NEW n \in LoginNames, NEW active \in BOOLEAN,
             NEW s \in Secrets \cup {NoSecret}, UpdateUser(u, n, active, s)
      PROVE  NamesUnique'
  <2>1. /\ \A v \in People \ {u} : person'[v] = person[v]
        /\ person'[u].name = n /\ Row(u) /\ (n = person[u].name \/ Free(n))
    BY <1>3 DEF UpdateUser, TypeInv
  <2> QED  BY <2>1 DEF Free, Holds
<1>4. ASSUME NEW u \in People, DeleteUser(u) PROVE NamesUnique'
  BY <1>4 DEF DeleteUser, TypeInv
<1> QED
  BY <1>1, <1>2, <1>3, <1>4 DEF SmbNext, SyncStep, Login, WriteFile, LoseFile, StartSync,
     Fetch, NoList, Disconnect, RemoveUser, EndRemove, AddUser, EndSync, Claim, UsePassword,
     ContainerRestart, Connect, accounts, smbVars

LEMMA KnownKept == TypeInv /\ KnownInv /\ [SmbNext]_smbVars => KnownInv'
<1> SUFFICES ASSUME TypeInv, KnownInv, [SmbNext]_smbVars, NEW v \in People,
                    person'[v].state = "none"
             PROVE  /\ \A w \in writes' : w.by # v
                    /\ \A m \in LoginNames :
                         passwdFile'[m].by # v /\ unixUser'[m] # v /\ <<m, v>> \notin pairs'
                    /\ command'.file.by # v
  BY DEF KnownInv
<1> DEFINE Silent == /\ \A w \in writes' : w.by # v
                     /\ \A m \in LoginNames :
                          passwdFile'[m].by # v /\ unixUser'[m] # v /\ <<m, v>> \notin pairs'
                     /\ command'.file.by # v
<1>0. v # Nobody
  BY SmbAssumption
<1>1. ASSUME NEW u \in People, NEW n \in LoginNames, NEW s \in Secrets, CreateUser(u, n, s)
      PROVE  Silent
  <2>1. person[v].state = "none" /\ UNCHANGED <<writes, passwdFile, container>>
    BY <1>1 DEF CreateUser, TypeInv
  <2> QED  BY <2>1 DEF KnownInv, container
<1>2. ASSUME NEW u \in People, NEW n \in LoginNames, NEW active \in BOOLEAN,
             NEW s \in Secrets \cup {NoSecret}, UpdateUser(u, n, active, s)
      PROVE  Silent
  <2>1. v # u /\ person[v].state = "none" /\ UNCHANGED <<passwdFile, container>>
    BY <1>2 DEF UpdateUser, TypeInv
  <2>2. \A w \in writes' : w \in writes \/ w.by = u
    BY <1>2 DEF UpdateUser
  <2> QED  BY <2>1, <2>2 DEF KnownInv, container
<1>3. ASSUME NEW u \in People, DeleteUser(u) PROVE Silent
  <2>1. person[v].state = "none" /\ UNCHANGED <<writes, passwdFile, container>>
    BY <1>3 DEF DeleteUser, TypeInv
  <2> QED  BY <2>1 DEF KnownInv, container
<1>4. ASSUME NEW u \in People, Login(u) PROVE Silent
  <2>1. v # u /\ UNCHANGED <<person, passwdFile, container>>
    BY <1>4 DEF Login
  <2>2. \A w \in writes' : w \in writes \/ w.by = u
    BY <1>4 DEF Login
  <2> QED  BY <2>1, <2>2 DEF KnownInv, container
<1>5. ASSUME NEW w \in writes, WriteFile(w) PROVE Silent
  <2>1. writes' \subseteq writes /\ UNCHANGED <<person, container>>
    BY <1>5 DEF WriteFile
  <2>2. \A m \in LoginNames : passwdFile'[m] = passwdFile[m] \/ passwdFile'[m].by = w.by
    BY <1>5 DEF WriteFile, Replaced, TypeInv
  <2> QED  BY <2>1, <2>2 DEF KnownInv, container
<1>6. ASSUME NEW w \in writes, LoseFile(w) PROVE Silent
  BY <1>6 DEF LoseFile, KnownInv, container
<1>7. ASSUME UNCHANGED <<accounts, pairs, unixUser>>, command'.file = command.file \/ command'.file = NoFile
      PROVE  Silent
  BY <1>0, <1>7 DEF KnownInv, accounts, NoFile
<1>8. ASSUME Fetch PROVE Silent
  <2>1. UNCHANGED <<accounts, unixUser>> /\ pairs' = UserList /\ command'.file = command.file
    BY <1>8 DEF Fetch, TypeInv
  <2>2. \A m \in LoginNames : <<m, v>> \notin UserList
    BY <2>1 DEF UserList, ActivePair, Holds, accounts
  <2> QED  BY <2>1, <2>2 DEF KnownInv, accounts
<1>9. ASSUME NEW n \in LoginNames, RemoveUser(n) PROVE Silent
  <2>1. UNCHANGED <<accounts, pairs>> /\ command' = [command EXCEPT !.leaving = {}, !.todo = @ \ {n}]
    BY <1>9, Removed
  <2>2. command'.file = command.file
    BY <2>1 DEF TypeInv
  <2>3. \A m \in LoginNames : unixUser'[m] \in {Nobody, unixUser[m]}
    BY <1>9, Removed
  <2> QED  BY <1>0, <2>1, <2>2, <2>3 DEF KnownInv, accounts
<1>10. ASSUME NEW n \in LoginNames, NEW u \in People, AddUser(n, u) PROVE Silent
  <2>1. UNCHANGED <<accounts, pairs>> /\ command' = [command EXCEPT !.todo = @ \ {n}] /\ <<n, u>> \in pairs
    BY <1>10, Added
  <2>2. command'.file = command.file
    BY <2>1 DEF TypeInv
  <2>3. \A m \in LoginNames : unixUser'[m] \in {u, unixUser[m]}
    BY <1>10, Added
  <2> QED  BY <2>1, <2>2, <2>3 DEF KnownInv, accounts
<1>11. ASSUME NEW n \in LoginNames, Claim(n) PROVE Silent
  <2>1. UNCHANGED <<person, writes, pairs, unixUser>> /\ command'.file = passwdFile[n]
    BY <1>11 DEF Claim, NoCommand
  <2>2. \A m \in LoginNames : passwdFile'[m] \in {NoFile, passwdFile[m]}
    BY <1>11 DEF Claim, NameTaken, TypeInv
  <2>3. NoFile.by # v
    BY <1>0 DEF NoFile
  <2>4. /\ \A w \in writes : w.by # v
        /\ \A m \in LoginNames : passwdFile[m].by # v /\ unixUser[m] # v /\ <<m, v>> \notin pairs
    BY <2>1 DEF KnownInv
  <2>5. \A m \in LoginNames : passwdFile'[m].by # v
    BY <2>2, <2>3, <2>4
  <2> QED  BY <2>1, <2>4, <2>5
<1> HIDE DEF Silent
<1>12. StartSync \/ NoList \/ EndSync \/ UsePassword \/ ContainerRestart => Silent
  BY <1>7 DEF StartSync, NoList, EndSync, UsePassword, ContainerRestart, AfterSync, NoCommand, TypeInv
<1>13. EndRemove \/ UNCHANGED smbVars => Silent
  BY <1>7 DEF EndRemove, TypeInv, smbVars, container
<1>14. ASSUME NEW n \in LoginNames, Disconnect(n) \/ Connect(n) PROVE Silent
  BY <1>7, <1>14 DEF Disconnect, Connect, TypeInv
<1>15. Silent
  BY <1>1, <1>2, <1>3, <1>4, <1>5, <1>6, <1>8, <1>9, <1>10, <1>11, <1>12, <1>13, <1>14
  DEF SmbNext, SyncStep
<1> QED  BY <1>15 DEF Silent

\* These steps do not end in the middle of a sync.
LEMMA OutOfSync ==
    ASSUME TypeInv
    PROVE  /\ StartSync \/ NoList \/ EndSync \/ UsePassword \/ ContainerRestart => ~InSync'
           /\ \A n \in LoginNames : Claim(n) => ~InSync'
<1>1. StartSync => ~InSync'
  BY DEF StartSync, NoCommand, InSync
<1>2. NoList \/ EndSync => ~InSync'
  <2>1. command' = NoCommand => ~InSync'
    BY DEF NoCommand, InSync
  <2>2. command' = [command EXCEPT !.pc = "password"] => ~InSync'
    BY DEF TypeInv, InSync
  <2> QED  BY <2>1, <2>2 DEF NoList, EndSync, AfterSync
<1>3. UsePassword \/ ContainerRestart => ~InSync'
  BY DEF UsePassword, ContainerRestart, NoCommand, InSync
<1>4. \A n \in LoginNames : Claim(n) => ~InSync'
  BY DEF Claim, NoCommand, InSync
<1> QED  BY <1>1, <1>2, <1>3, <1>4

LEMMA BehindKept == TypeInv /\ BehindInv /\ [SmbNext]_smbVars => BehindInv'
<1> SUFFICES ASSUME TypeInv, BehindInv, [SmbNext]_smbVars, InSync', NEW m \in behind',
                    smbAccount'[m] \in Secrets, unixUser'[m] # Nobody
             PROVE  unixUser'[m] \in late'
  BY DEF BehindInv
<1>0. m \in LoginNames
  BY TypeKept DEF TypeInv
<1>a. CASE UNCHANGED <<command, pairs, unixUser, smbAccount, behind>>
  BY <1>a, ExceptionsStay DEF BehindInv, InSync
<1>1. CASE Fetch
  BY <1>1 DEF Fetch
<1>2. CASE EndRemove
  BY <1>2, ExceptionsStay DEF EndRemove, BehindInv, InSync, histories
<1>3. ASSUME NEW n \in LoginNames, Disconnect(n) PROVE unixUser'[m] \in late'
  BY <1>3, ExceptionsStay DEF Disconnect, BehindInv, InSync, histories
<1>4. ASSUME NEW n \in LoginNames, RemoveUser(n) PROVE unixUser'[m] \in late'
  <2>1. InSync /\ behind' \subseteq behind \cup {n}
    BY <1>4, Removed DEF InSync
  <2>2. CASE m = n
    <3>1. smbAccount'[n] = "none" \/ unixUser[n] = Nobody \/ unixUser[n] \in late'
      BY <1>4, Removed
    <3>2. unixUser'[n] \in {Nobody, unixUser[n]}
      BY <1>4, Removed
    <3> QED  BY <2>2, <3>1, <3>2, SmbAssumption
  <2>3. CASE m # n
    <3>1. smbAccount'[m] = smbAccount[m] /\ unixUser'[m] = unixUser[m]
      BY <1>0, <1>4, <2>3, Removed
    <3> QED  BY <2>1, <2>3, <3>1, ExceptionsStay DEF BehindInv
  <2> QED  BY <2>2, <2>3
<1>5. ASSUME NEW n \in LoginNames, NEW u \in People, AddUser(n, u) PROVE unixUser'[m] \in late'
  <2>1. InSync /\ m \in behind
    BY <1>5, Added DEF InSync
  <2>2. smbAccount'[m] = smbAccount[m]
    BY <1>0, <1>5, Added, SmbAssumption
  <2>3. CASE unixUser'[m] = unixUser[m]
    BY <2>1, <2>2, <2>3, ExceptionsStay DEF BehindInv
  <2>4. CASE unixUser'[m] # unixUser[m]
    <3>1. m = n
      BY <1>0, <1>5, <2>4, Added
    <3>2. unixUser'[n] = u /\ (smbAccount[n] # "none" => u \in late')
      BY <1>5, <2>4, <3>1, Added
    <3> QED  BY <2>2, <3>1, <3>2, SmbAssumption
  <2> QED  BY <2>3, <2>4
<1> QED  BY Steps, OutOfSync, <1>a, <1>1, <1>2, <1>3, <1>4, <1>5

-----------------------------------------------------------------------------
(* The passwords                                                           *)

\* Only a new user becomes one to whom none of the exceptions has happened.
LEMMA CleanShrinks ==
    ASSUME TypeInv, [SmbNext]_smbVars, NEW v \in Clean'
    PROVE  v \in Clean \/ \E n \in LoginNames, s \in Secrets : CreateUser(v, n, s)
<1>1. v \in People /\ v \notin late /\ v \notin pwLost
  BY ExceptionsStay DEF Clean
<1>2. SUFFICES ASSUME ~Row(v) PROVE \E n \in LoginNames, s \in Secrets : CreateUser(v, n, s)
  BY <1>1 DEF Clean
<1>3. person'[v] # person[v]
  BY <1>2 DEF Clean, Row
<1>4. ASSUME NEW u \in People, NEW n \in LoginNames, NEW s \in Secrets, CreateUser(u, n, s)
      PROVE  u = v
  BY <1>1, <1>3, <1>4 DEF CreateUser, TypeInv
<1>5. ASSUME NEW u \in People, NEW n \in LoginNames, NEW active \in BOOLEAN,
             NEW s \in Secrets \cup {NoSecret}, UpdateUser(u, n, active, s)
      PROVE  FALSE
  BY <1>1, <1>2, <1>3, <1>5 DEF UpdateUser, TypeInv, Row
<1>6. ASSUME NEW u \in People, DeleteUser(u) PROVE FALSE
  BY <1>1, <1>2, <1>3, <1>6 DEF DeleteUser, TypeInv, Row
<1> QED
  BY <1>3, <1>4, <1>5, <1>6 DEF SmbNext, SyncStep, Login, WriteFile, LoseFile, StartSync,
     Fetch, NoList, Disconnect, RemoveUser, EndRemove, AddUser, EndSync, Claim, UsePassword,
     ContainerRestart, Connect, accounts, smbVars

\* The steps that leave the users and the files as they are: a password that has been claimed
\* stays so under its name, or is lost, or is used.
LEMMA ClaimedStays ==
    ASSUME TypeInv, [SmbNext]_smbVars, UNCHANGED accounts
    PROVE  \/ command'.file = command.file /\ command'.name = command.name
           \/ command'.file = NoFile /\ (command.file = NoFile \/ command.file.by \in pwLost')
           \/ UsePassword
<1> DEFINE Same == command'.file = command.file /\ command'.name = command.name
           Gone == command'.file = NoFile /\ (command.file = NoFile \/ command.file.by \in pwLost')
<1>a. CASE UNCHANGED command
  BY <1>a
<1>1. CASE StartSync
  BY <1>1 DEF StartSync, NoCommand, TypeInv
<1>2. CASE Fetch \/ EndRemove
  BY <1>2 DEF Fetch, EndRemove, TypeInv
<1>3. CASE NoList \/ EndSync
  <2>1. CASE command.by = "sync"
    BY <1>3, <2>1 DEF NoList, EndSync, AfterSync, NoCommand, TypeInv
  <2>2. CASE command.by # "sync"
    <3>1. command' = [command EXCEPT !.pc = "password"]
      BY <1>3, <2>2 DEF NoList, EndSync, AfterSync
    <3> QED  BY <3>1 DEF TypeInv
  <2> QED  BY <2>1, <2>2
<1>4. CASE ContainerRestart
  <2>1. command'.file = NoFile /\ pwLost' = Lost
    BY <1>4 DEF ContainerRestart, NoCommand
  <2>2. command.file = NoFile \/ command.file.by \in Lost
    BY FilesAreNot, SmbAssumption DEF Lost, TypeInv
  <2> QED  BY <2>1, <2>2
<1>5. ASSUME NEW n \in LoginNames, Disconnect(n) PROVE Same
  BY <1>5 DEF Disconnect, TypeInv
<1>6. ASSUME NEW n \in LoginNames, RemoveUser(n) PROVE Same
  <2>1. command' = [command EXCEPT !.leaving = {}, !.todo = @ \ {n}]
    BY <1>6, Removed
  <2> QED  BY <2>1 DEF TypeInv
<1>7. ASSUME NEW n \in LoginNames, NEW u \in People, AddUser(n, u) PROVE Same
  BY <1>7 DEF AddUser, TypeInv
<1>8. ASSUME NEW n \in LoginNames, Claim(n) PROVE FALSE
  <2>1. passwdFile'[n] = NoFile /\ passwdFile[n] # NoFile
    BY <1>8 DEF Claim, NameTaken, TypeInv
  <2> QED  BY <2>1 DEF accounts
<1> QED  BY Steps, <1>a, <1>1, <1>2, <1>3, <1>4, <1>5, <1>6, <1>7, <1>8

LEMMA OwnKept ==
    ASSUME TypeInv, NamesUnique, KnownInv, OwnInv, [SmbNext]_smbVars
    PROVE  OwnInv'
<1> SUFFICES ASSUME NEW v \in Clean'
             PROVE  /\ \A w \in writes' : w.name = NameOf(v)' <=> w.by = v
                    /\ \A m \in LoginNames :
                         passwdFile'[m] # NoFile => (m = NameOf(v)' <=> passwdFile'[m].by = v)
                    /\ command'.file # NoFile => (command'.name = NameOf(v)' <=> command'.file.by = v)
  BY DEF OwnInv
<1> DEFINE Own == /\ \A w \in writes' : w.name = NameOf(v)' <=> w.by = v
                  /\ \A m \in LoginNames :
                       passwdFile'[m] # NoFile => (m = NameOf(v)' <=> passwdFile'[m].by = v)
                  /\ command'.file # NoFile => (command'.name = NameOf(v)' <=> command'.file.by = v)
           OwnNow == /\ \A w \in writes : w.name = NameOf(v) <=> w.by = v
                     /\ \A m \in LoginNames :
                          passwdFile[m] # NoFile => (m = NameOf(v) <=> passwdFile[m].by = v)
                     /\ command.file # NoFile => (command.name = NameOf(v) <=> command.file.by = v)
<1>0. v \in People /\ Row(v)' /\ v \notin late' /\ v \notin pwLost'
  BY DEF Clean
<1>1. v \in Clean => OwnNow /\ Row(v)
  BY DEF OwnInv, Clean
<1>2. v \in Clean \/ \E n \in LoginNames, s \in Secrets : CreateUser(v, n, s)
  BY CleanShrinks
<1>3. ASSUME NEW n \in LoginNames, NEW s \in Secrets, CreateUser(v, n, s) PROVE Own
  <2>1. NameOf(v)' = n /\ ~OnItsWay(n) /\ UNCHANGED <<writes, passwdFile, command>>
    BY <1>0, <1>3 DEF CreateUser, NameOf, TypeInv, container
  <2>2. /\ \A w \in writes : w.by # v
        /\ \A m \in LoginNames : passwdFile[m].by # v
        /\ command.file.by # v
    BY <1>0, <1>3 DEF CreateUser, KnownInv
  <2> QED  BY <2>1, <2>2 DEF OnItsWay
<1>4. CASE v \in Clean
  <2>1. OwnNow /\ Row(v)
    BY <1>1, <1>4
  <2>2. ASSUME UNCHANGED accounts PROVE Own
    <3>1. UNCHANGED <<NameOf(v), writes, passwdFile>>
      BY <2>2 DEF accounts, NameOf
    <3>2. \/ command'.file = NoFile
          \/ command'.file = command.file /\ command'.name = command.name
      BY <2>2, ClaimedStays DEF UsePassword, NoCommand
    <3> QED  BY <2>1, <3>1, <3>2
  <2>3. ASSUME NEW u \in People, NEW n \in LoginNames, NEW s \in Secrets, CreateUser(u, n, s)
        PROVE  Own
    <3>1. u # v /\ UNCHANGED <<writes, passwdFile, command>>
      BY <2>1, <2>3 DEF CreateUser, container, Row
    <3>2. NameOf(v)' = NameOf(v)
      BY <1>0, <2>3, <3>1 DEF CreateUser, NameOf, TypeInv
    <3> QED  BY <2>1, <3>1, <3>2
  <2>4. ASSUME NEW u \in People, NEW n \in LoginNames, NEW active \in BOOLEAN,
               NEW s \in Secrets \cup {NoSecret}, UpdateUser(u, n, active, s)
        PROVE  Own
    <3>1. /\ UNCHANGED <<passwdFile, command>> /\ Row(u)
          /\ writes' \subseteq writes \cup {[by |-> u, name |-> n, secret |-> s]} /\ writes \subseteq writes'
          /\ person'[u].name = n /\ \A p \in People \ {u} : person'[p] = person[p]
          /\ n = person[u].name \/ Free(n)
      BY <2>4 DEF UpdateUser, container, TypeInv, Row
    <3>2. CASE u # v
      <4>1. NameOf(v)' = NameOf(v) /\ NameOf(v) # n
        BY <1>0, <2>1, <3>1, <3>2 DEF NameOf, NamesUnique, Free, Holds, Row
      <4>2. \A w \in writes' : w \in writes \/ (w.by = u /\ w.name = n)
        BY <3>1
      <4> QED  BY <2>1, <3>1, <3>2, <4>1, <4>2
    <3>3. CASE u = v /\ n = person[v].name
      <4>1. NameOf(v)' = NameOf(v) /\ NameOf(v) = n
        BY <3>1, <3>3 DEF NameOf
      <4>2. \A w \in writes' : w \in writes \/ (w.by = v /\ w.name = n)
        BY <3>1, <3>3
      <4> QED  BY <2>1, <3>1, <4>1, <4>2
    <3>4. CASE u = v /\ n # person[v].name
      <4>1. ~OnItsWay(n) /\ ~OnItsWay(NameOf(v)) /\ NameOf(v)' = n
        BY <1>0, <2>4, <3>1, <3>4 DEF UpdateUser, NameOf
      <4>2. NameOf(v) \in LoginNames
        BY <1>0 DEF NameOf, TypeInv
      <4>3. \A w \in writes' : w \in writes \/ (w.by = v /\ w.name = n)
        BY <3>1, <3>4
      <4>4. /\ \A w \in writes : w.by # v /\ w.name # n
            /\ \A m \in LoginNames : passwdFile[m] # NoFile => m # n /\ passwdFile[m].by # v
            /\ command.file # NoFile => command.name # n /\ command.file.by # v
        BY <2>1, <4>1, <4>2 DEF OnItsWay
      <4> QED  BY <3>1, <4>1, <4>3, <4>4
    <3> QED  BY <3>2, <3>3, <3>4
  <2>5. ASSUME NEW u \in People, DeleteUser(u) PROVE Own
    <3>1. UNCHANGED <<writes, passwdFile, command>> /\ NameOf(v)' = NameOf(v)
      BY <1>0, <2>5 DEF DeleteUser, container, NameOf, TypeInv
    <3> QED  BY <2>1, <3>1
  <2>6. ASSUME NEW u \in People, Login(u) PROVE Own
    <3>1. UNCHANGED <<person, passwdFile, command>> /\ Row(u)
      BY <2>6 DEF Login, container, Row
    <3>2. \A w \in writes' : w \in writes \/ (w.by = u /\ w.name = NameOf(u))
      BY <2>6 DEF Login, NameOf
    <3>3. NameOf(u) = NameOf(v) <=> u = v
      BY <1>0, <2>1, <3>1 DEF NamesUnique
    <3> QED  BY <2>1, <3>1, <3>2, <3>3 DEF NameOf
  <2>7. ASSUME NEW w \in writes, WriteFile(w) PROVE Own
    <3>1. UNCHANGED <<person, command>> /\ writes' \subseteq writes
      BY <2>7 DEF WriteFile, container
    <3>2. \A m \in LoginNames :
            IF m = w.name THEN passwdFile'[m].by = w.by ELSE passwdFile'[m] = passwdFile[m]
      BY <2>7 DEF WriteFile, Replaced, TypeInv
    <3>3. w.name = NameOf(v) <=> w.by = v
      BY <2>1
    <3> QED  BY <2>1, <3>1, <3>2, <3>3 DEF NameOf
  <2>8. ASSUME NEW w \in writes, LoseFile(w) PROVE Own
    BY <2>1, <2>8 DEF LoseFile, container, NameOf
  <2>9. ASSUME NEW n \in LoginNames, Claim(n) PROVE Own
    <3>1. UNCHANGED <<person, writes>> /\ command'.file = passwdFile[n] /\ command'.name = n
      BY <2>9 DEF Claim, NoCommand
    <3>2. \A m \in LoginNames : passwdFile'[m] \in {NoFile, passwdFile[m]}
      BY <2>9 DEF Claim, NameTaken, TypeInv
    <3>3. passwdFile[n] # NoFile => (n = NameOf(v) <=> passwdFile[n].by = v)
      BY <2>1
    <3> QED  BY <2>1, <3>1, <3>2, <3>3 DEF NameOf
  <2> HIDE DEF Own
  <2>10. Own
    BY <2>2, <2>3, <2>4, <2>5, <2>6, <2>7, <2>8, <2>9 DEF SmbNext, SyncStep, StartSync, Fetch, NoList,
       Disconnect, RemoveUser, EndRemove, AddUser, EndSync, UsePassword, ContainerRestart, Connect,
       smbVars
  <2> QED  BY <2>10 DEF Own
<1> QED  BY <1>2, <1>3, <1>4

\* Only UsePassword gives an account a password.
LEMMA SettledStays ==
    ASSUME TypeInv, [SmbNext]_smbVars, ~UsePassword, NEW v \in People, Settled(v), v \notin late',
           UNCHANGED person
    PROVE  Settled(v)'
<1> SUFFICES ASSUME NEW m \in LoginNames, unixUser'[m] = v, smbAccount'[m] \in Secrets
             PROVE  smbAccount'[m] = person[v].secret
  BY DEF Settled
<1>a. ASSUME UNCHANGED <<unixUser, smbAccount>> PROVE smbAccount'[m] = person[v].secret
  BY <1>a DEF Settled
<1>1. ASSUME NEW n \in LoginNames, RemoveUser(n) PROVE smbAccount'[m] = person[v].secret
  <2>1. smbAccount'[m] \in {"none", smbAccount[m]} /\ unixUser'[m] \in {Nobody, unixUser[m]}
    BY <1>1, Removed
  <2> QED  BY <2>1, SmbAssumption DEF Settled
<1>2. ASSUME NEW n \in LoginNames, NEW u \in People, AddUser(n, u)
      PROVE  smbAccount'[m] = person[v].secret
  <2>1. smbAccount'[m] = smbAccount[m]
    BY <1>2, Added, SmbAssumption
  <2>2. unixUser'[m] = unixUser[m]
    <3>1. SUFFICES ASSUME unixUser'[m] # unixUser[m] PROVE FALSE
      OBVIOUS
    <3>2. m = n
      BY <1>2, <3>1, Added
    <3>3. unixUser'[n] = u /\ (smbAccount[n] # "none" => u \in late')
      BY <1>2, <3>1, <3>2, Added
    <3> QED  BY <2>1, <3>2, <3>3, SmbAssumption
  <2> QED  BY <2>1, <2>2 DEF Settled
<1> QED
  BY Steps, <1>a, <1>1, <1>2 DEF StartSync, Fetch, NoList, EndRemove, EndSync, ContainerRestart,
     Disconnect, Claim

\* A claimed password that is used or dropped leaves its user settled, and no other user's
\* account takes it.
LEMMA PasswordSettles ==
    ASSUME TypeInv, OneNamePerUser, OwnInv, PassInv, UsePassword, NEW v \in Clean, v \in Clean',
           command.file = FileOf(v) \/ (command.file.by # v /\ Settled(v))
    PROVE  Settled(v)'
<1> DEFINE n == command.name
<1>1. /\ n \in LoginNames /\ command.file # NoFile /\ command.pc = "password" /\ UNCHANGED <<person, unixUser>>
  BY DEF UsePassword, TypeInv, accounts
<1>2. v \in People /\ v \notin late' /\ v \notin pwLost'
  BY DEF Clean
<1>3. CASE IsListed(n) /\ unixUser[n] = v /\ command.file.by # v
  <2>1. smbAccount' = smbAccount
    BY <1>2, <1>3 DEF UsePassword
  <2> QED  BY <1>1, <1>3, <2>1 DEF Settled, FileOf
<1>4. CASE IsListed(n) /\ unixUser[n] = v /\ command.file.by = v
  <2>1. command.file.by = v
    BY <1>4
  <2>2. command.file = FileOf(v)
    BY <2>1
  <2>3. smbAccount'[n] = person[v].secret
    <3>1. command.file.by \in Lost
      BY <1>2, <2>1, SmbAssumption DEF Lost
    <3>2. smbAccount' = [smbAccount EXCEPT ![n] = command.file.secret]
      BY <1>2, <1>4, <2>1, <3>1 DEF UsePassword
    <3> QED  BY <1>1, <2>2, <3>2 DEF FileOf, TypeInv
  <2>4. \A m \in LoginNames : unixUser[m] = v => m = n
    BY <1>1, <1>2, <1>4, SmbAssumption DEF OneNamePerUser
  <2> QED  BY <1>1, <2>3, <2>4 DEF Settled
<1>5. CASE ~(IsListed(n) /\ unixUser[n] = v)
  <2>1. \A m \in LoginNames : unixUser[m] = v => smbAccount'[m] = smbAccount[m]
    <3>1. \A m \in LoginNames \ {n} : smbAccount'[m] = smbAccount[m]
      BY DEF UsePassword, TypeInv
    <3>2. ~IsListed(n) => smbAccount'[n] = smbAccount[n]
      BY <1>1 DEF UsePassword, TypeInv
    <3> QED  BY <1>5, <3>1, <3>2
  <2>2. CASE command.file = FileOf(v)
    <3>1. command.file.by = v
      BY <2>2 DEF FileOf
    <3>2. ~IsListed(n)
      <4>1. SUFFICES ASSUME IsListed(n) PROVE FALSE
        OBVIOUS
      <4>2. unixUser[n] # command.file.by /\ v \in Lost
        BY <1>2, <1>5, <3>1, <4>1, SmbAssumption DEF Lost
      <4>3. pwLost' = Lost
        BY <4>1, <4>2 DEF UsePassword
      <4> QED  BY <1>2, <4>2, <4>3
    <3>3. \A m \in LoginNames : unixUser[m] = v => smbAccount[m] \notin Secrets
      BY <1>1, <3>1, <3>2 DEF PassInv
    <3> QED  BY <1>1, <2>1, <3>3 DEF Settled
  <2>3. CASE command.file.by # v /\ Settled(v)
    BY <1>1, <2>1, <2>3 DEF Settled
  <2> QED  BY <2>2, <2>3
<1> QED  BY <1>3, <1>4, <1>5

LEMMA FinalKept ==
    ASSUME TypeInv, OneNamePerUser, NamesUnique, KnownInv, OwnInv, FinalInv, PassInv,
           [SmbNext]_smbVars
    PROVE  FinalInv'
<1> SUFFICES ASSUME NEW v \in Clean' PROVE LastIsRight(v)'
  BY DEF FinalInv
<1>0. /\ v \in People /\ Row(v)' /\ v \notin late' /\ v \notin pwLost'
      /\ v # Nobody /\ FileOf(v) # NoFile /\ NoFile.by # v
  BY SmbAssumption DEF Clean, FileOf, NoFile
<1>1. v \in Clean \/ \E n \in LoginNames, s \in Secrets : CreateUser(v, n, s)
  BY CleanShrinks
<1>2. ASSUME NEW n \in LoginNames, NEW s \in Secrets, CreateUser(v, n, s) PROVE LastIsRight(v)'
  <2>1. NameOf(v)' = n /\ ~OnItsWay(n) /\ UNCHANGED <<passwdFile, command, unixUser>>
    BY <1>0, <1>2 DEF CreateUser, NameOf, TypeInv, container
  <2>2. (\A m \in LoginNames : unixUser[m] # v) /\ command.file.by # v
    BY <1>0, <1>2 DEF CreateUser, KnownInv
  <2> QED  BY <2>1, <2>2 DEF OnItsWay, LastIsRight, Settled
<1>3. CASE v \in Clean
  <2>1. LastIsRight(v) /\ Row(v) /\ NameOf(v) \in LoginNames
    BY <1>3 DEF FinalInv, Clean, NameOf, TypeInv
  <2>2. /\ \A w \in writes : w.name = NameOf(v) <=> w.by = v
        /\ \A m \in LoginNames : passwdFile[m] # NoFile => (m = NameOf(v) <=> passwdFile[m].by = v)
        /\ command.file # NoFile => (command.name = NameOf(v) <=> command.file.by = v)
    BY <1>3 DEF OwnInv
  <2>3. ASSUME writes \subseteq writes', UNCHANGED <<passwdFile, container>>, person'[v] = person[v]
        PROVE  LastIsRight(v)'
    BY <2>1, <2>3 DEF LastIsRight, NameOf, FileOf, Settled, container
  <2>4. ASSUME NEW u \in People, NEW n \in LoginNames, NEW s \in Secrets, CreateUser(u, n, s)
        PROVE  LastIsRight(v)'
    BY <1>0, <2>1, <2>3, <2>4 DEF CreateUser, Row, TypeInv
  <2>5. ASSUME NEW u \in People, DeleteUser(u) PROVE LastIsRight(v)'
    BY <1>0, <2>3, <2>5 DEF DeleteUser, Row, TypeInv
  <2>6. ASSUME NEW u \in People, Login(u) PROVE LastIsRight(v)'
    BY <2>3, <2>6 DEF Login
  <2>7. ASSUME NEW u \in People, NEW n \in LoginNames, NEW active \in BOOLEAN,
               NEW s \in Secrets \cup {NoSecret}, UpdateUser(u, n, active, s)
        PROVE  LastIsRight(v)'
    <3>1. writes \subseteq writes' /\ UNCHANGED <<passwdFile, container>>
      BY <2>7 DEF UpdateUser
    <3>2. CASE u # v
      BY <1>0, <2>3, <2>7, <3>1, <3>2 DEF UpdateUser, TypeInv
    <3>3. CASE u = v /\ s # NoSecret
      <4>1. person'[v].secret = s
        BY <1>0, <2>7, <3>3 DEF UpdateUser, TypeInv
      <4>2. [by |-> v, name |-> n, secret |-> s] \in writes'
        BY <2>7, <3>3 DEF UpdateUser
      <4> QED  BY <4>1, <4>2 DEF LastIsRight
    <3>4. CASE u = v /\ s = NoSecret
      <4>1. person'[v].secret = person[v].secret /\ person'[v].name = n
        BY <1>0, <2>7, <3>4 DEF UpdateUser, TypeInv
      <4>2. CASE n = NameOf(v)
        BY <2>1, <3>1, <4>1, <4>2 DEF LastIsRight, NameOf, FileOf, Settled, container
      <4>3. CASE n # NameOf(v)
        <5>1. ~OnItsWay(n) /\ ~OnItsWay(NameOf(v))
          BY <1>0, <2>7, <3>4, <4>3 DEF UpdateUser, NameOf
        <5>2. /\ \A w \in writes : w.by # v
              /\ passwdFile[NameOf(v)] = NoFile /\ command.file # FileOf(v)
          BY <1>0, <2>1, <2>2, <5>1 DEF OnItsWay, FileOf
        <5>3. command.file.by # v /\ Settled(v)
          BY <1>0, <2>1, <5>2 DEF LastIsRight
        <5>4. passwdFile[n] = NoFile
          BY <5>1 DEF OnItsWay
        <5> QED  BY <3>1, <4>1, <5>3, <5>4 DEF LastIsRight, NameOf, Settled, container
      <4> QED  BY <4>2, <4>3
    <3> QED  BY <3>2, <3>3, <3>4
  <2>8. ASSUME NEW w \in writes, WriteFile(w) PROVE LastIsRight(v)'
    <3>1. UNCHANGED <<person, container>> /\ writes' = writes \ {w}
      BY <2>8 DEF WriteFile
    <3>2. \A m \in LoginNames :
            passwdFile'[m] = IF m = w.name THEN [by |-> w.by, secret |-> w.secret] ELSE passwdFile[m]
      BY <2>8 DEF WriteFile, Replaced, TypeInv
    <3>3. CASE w.by = v
      <4>1. w.name = NameOf(v) /\ w.secret = person[v].secret
        BY <1>0, <2>8, <3>3 DEF WriteFile, Holds, NameOf
      <4>2. passwdFile'[NameOf(v)] = FileOf(v)
        BY <2>1, <3>2, <3>3, <4>1 DEF FileOf
      <4> QED  BY <3>1, <4>2 DEF LastIsRight, NameOf, FileOf
    <3>4. CASE w.by # v
      <4>1. passwdFile'[NameOf(v)] = passwdFile[NameOf(v)]
        BY <2>1, <2>2, <3>2, <3>4
      <4>2. \A x \in writes : x.by = v => x \in writes'
        BY <3>1, <3>4
      <4> QED  BY <2>1, <3>1, <4>1, <4>2 DEF LastIsRight, NameOf, FileOf, Settled, container
    <3> QED  BY <3>3, <3>4
  <2>9. ASSUME NEW w \in writes, LoseFile(w) PROVE LastIsRight(v)'
    <3>1. UNCHANGED <<person, passwdFile, container>> /\ writes' = writes \ {w} /\ w.by # v
      BY <1>0, <2>9 DEF LoseFile
    <3>2. \A x \in writes : x.by = v => x \in writes'
      BY <3>1
    <3> QED  BY <2>1, <3>1, <3>2 DEF LastIsRight, NameOf, FileOf, Settled, container
  <2>10. ASSUME NEW n \in LoginNames, Claim(n) PROVE LastIsRight(v)'
    <3>1. /\ UNCHANGED <<person, writes, unixUser, smbAccount>>
          /\ command'.file = passwdFile[n] /\ command'.name = n
          /\ passwdFile[n] # NoFile /\ command.file = NoFile
      BY <2>10 DEF Claim, NoCommand, TypeInv
    <3>2. passwdFile'[n] = NoFile /\ \A m \in LoginNames \ {n} : passwdFile'[m] = passwdFile[m]
      BY <2>10 DEF Claim, NameTaken, TypeInv
    <3>3. UNCHANGED <<NameOf(v), FileOf(v), Settled(v)>>
      BY <3>1 DEF NameOf, FileOf, Settled
    <3>4. CASE n = NameOf(v)
      BY <2>1, <3>1, <3>2, <3>3, <3>4 DEF LastIsRight
    <3>5. CASE n # NameOf(v)
      <4>1. passwdFile[n].by # v
        BY <2>2, <3>1, <3>5
      <4>2. command.file # FileOf(v)
        BY <1>0, <3>1
      <4> QED  BY <2>1, <3>1, <3>2, <3>3, <3>5, <4>1, <4>2 DEF LastIsRight
    <3> QED  BY <3>4, <3>5
  <2>11. ASSUME UNCHANGED accounts PROVE LastIsRight(v)'
    <3>1. UNCHANGED <<person, writes, passwdFile>> /\ UNCHANGED <<NameOf(v), FileOf(v)>>
      BY <2>11 DEF accounts, NameOf, FileOf
    <3>2. CASE UsePassword
      <4>1. command'.file = NoFile
        BY <3>2 DEF UsePassword, NoCommand
      <4>2. ASSUME command.file = FileOf(v) \/ (command.file.by # v /\ Settled(v)) PROVE Settled(v)'
        BY <1>3, <3>2, <4>2, PasswordSettles
      <4> QED  BY <1>0, <2>1, <3>1, <4>1, <4>2 DEF LastIsRight
    <3>3. CASE ~UsePassword
      <4>1. \/ command'.file = command.file
            \/ command'.file = NoFile /\ (command.file = NoFile \/ command.file.by \in pwLost')
        BY <2>11, <3>3, ClaimedStays
      <4>2. Settled(v) => Settled(v)'
        BY <1>0, <3>1, <3>3, SettledStays
      <4>3. FileOf(v).by = v
        BY DEF FileOf
      <4> QED  BY <1>0, <2>1, <3>1, <4>1, <4>2, <4>3 DEF LastIsRight
    <3> QED  BY <3>2, <3>3
  <2> QED
    BY <2>4, <2>5, <2>6, <2>7, <2>8, <2>9, <2>10, <2>11 DEF SmbNext, SyncStep, StartSync, Fetch, NoList,
       Disconnect, RemoveUser, EndRemove, AddUser, EndSync, UsePassword, ContainerRestart, Connect,
       smbVars
<1> QED  BY <1>1, <1>2, <1>3

\* The list is fetched while the password is claimed: its user, to whom nothing has happened, still
\* has the name of the file.
LEMMA SyncedKept ==
    ASSUME TypeInv, KnownInv, OwnInv, SyncedInv, [SmbNext]_smbVars
    PROVE  SyncedInv'
<1> SUFFICES ASSUME InSync', NEW m \in LoginNames, NEW v \in Clean',
                    command'.file.by = v, <<m, v>> \in pairs'
             PROVE  m = command'.name
  BY DEF SyncedInv
<1>0. v \in People /\ v # Nobody
  BY SmbAssumption DEF Clean
<1>1. v \in Clean
  <2>1. SUFFICES ASSUME NEW n \in LoginNames, NEW s \in Secrets, CreateUser(v, n, s) PROVE FALSE
    BY CleanShrinks
  <2>2. person[v].state = "none" /\ pairs' = pairs
    BY <2>1 DEF CreateUser, container
  <2> QED  BY <1>0, <2>2 DEF KnownInv
<1>2. ASSUME InSync, UNCHANGED pairs, command'.file = command.file, command'.name = command.name
      PROVE  m = command'.name
  BY <1>1, <1>2 DEF SyncedInv
<1>3. CASE UNCHANGED <<command, pairs, unixUser, smbAccount, behind>>
  BY <1>2, <1>3 DEF InSync
<1>4. CASE Fetch
  <2>1. command'.file = command.file /\ command'.name = command.name /\ pairs' = UserList
    BY <1>4 DEF Fetch, TypeInv
  <2>2. m = NameOf(v)
    BY <2>1 DEF UserList, ActivePair, Holds, NameOf
  <2>3. command.file # NoFile
    BY <1>0, <2>1 DEF NoFile
  <2> QED  BY <1>1, <2>1, <2>2, <2>3 DEF OwnInv
<1>5. CASE EndRemove
  BY <1>2, <1>5 DEF EndRemove, InSync, TypeInv
<1>6. ASSUME NEW n \in LoginNames, Disconnect(n) PROVE m = command'.name
  BY <1>2, <1>6 DEF Disconnect, InSync, TypeInv
<1>7. ASSUME NEW n \in LoginNames, RemoveUser(n) PROVE m = command'.name
  BY <1>2, <1>7 DEF RemoveUser, InSync, TypeInv
<1>8. ASSUME NEW n \in LoginNames, NEW u \in People, AddUser(n, u) PROVE m = command'.name
  BY <1>2, <1>8 DEF AddUser, InSync, TypeInv
<1> QED  BY Steps, OutOfSync, <1>3, <1>4, <1>5, <1>6, <1>7, <1>8

LEMMA PassKept ==
    ASSUME TypeInv, FollowInv, KnownInv, SyncedInv, BehindInv, PassInv, [SmbNext]_smbVars
    PROVE  PassInv'
<1> SUFFICES ASSUME command'.pc = "password", command'.file.by \in Clean', ~IsListed(command.name)',
                    NEW m \in LoginNames, unixUser'[m] = command'.file.by, smbAccount'[m] \in Secrets
             PROVE  FALSE
  BY DEF PassInv
<1> DEFINE v == command'.file.by
<1>0. v \in People /\ v # Nobody /\ v \notin late' /\ v \notin pwLost'
  BY SmbAssumption DEF Clean
<1>1. CASE UNCHANGED <<command, pairs, unixUser, smbAccount, behind>>
  <2>1. v \in Clean
    <3>1. SUFFICES ASSUME NEW n \in LoginNames, NEW s \in Secrets, CreateUser(v, n, s) PROVE FALSE
      BY CleanShrinks
    <3>2. person[v].state = "none" /\ v = command.file.by
      BY <1>1, <3>1 DEF CreateUser
    <3> QED  BY <1>0, <3>2 DEF KnownInv
  <2>2. ~IsListed(command.name)
    BY <1>1 DEF IsListed
  <2> QED  BY <1>1, <2>1, <2>2 DEF PassInv
<1>2. CASE NoList
  <2>1. command.by # "sync"
    BY <1>2 DEF NoList, AfterSync, NoCommand
  <2>2. command' = [command EXCEPT !.pc = "password"] /\ pwLost' = Lost
    BY <1>2, <2>1 DEF NoList, AfterSync
  <2>3. v = command.file.by
    BY <2>2 DEF TypeInv
  <2> QED  BY <1>0, <2>2, <2>3 DEF Lost
<1>3. CASE EndSync
  <2>1. command.by # "sync"
    BY <1>3 DEF EndSync, AfterSync, NoCommand
  <2>2. /\ command' = [command EXCEPT !.pc = "password"] /\ command.pc = "add"
        /\ UNCHANGED <<person, pairs, unixUser, smbAccount, late, pwLost>>
    BY <1>3, <2>1 DEF EndSync, AfterSync, accounts, histories
  <2>3. v = command.file.by /\ command'.name = command.name /\ InSync /\ v \in Clean
    BY <2>2 DEF TypeInv, InSync, Clean, Row
  <2>4. m \notin behind
    BY <1>0, <2>2, <2>3 DEF BehindInv
  <2>5. <<m, v>> \in pairs
    BY <2>2, <2>3, <2>4, SmbAssumption DEF FollowInv
  <2>6. m = command.name
    BY <2>3, <2>5 DEF SyncedInv
  <2> QED  BY <1>0, <2>2, <2>3, <2>5, <2>6, SmbAssumption DEF IsListed
<1>4. ASSUME NEW n \in LoginNames, Claim(n) PROVE FALSE
  <2>1. command'.name = n /\ IsListed(n) /\ UNCHANGED <<pairs, unixUser, smbAccount>>
    BY <1>4 DEF Claim, NoCommand
  <2> QED  BY <2>1 DEF IsListed
<1>5. ~(StartSync \/ UsePassword \/ ContainerRestart)
  BY DEF StartSync, UsePassword, ContainerRestart, NoCommand
<1>8. ~(Fetch \/ EndRemove)
  BY DEF Fetch, EndRemove, TypeInv
<1>6. ASSUME NEW n \in LoginNames, Disconnect(n) \/ RemoveUser(n) PROVE FALSE
  BY <1>6 DEF Disconnect, RemoveUser, TypeInv
<1>7. ASSUME NEW n \in LoginNames, NEW u \in People, AddUser(n, u) PROVE FALSE
  BY <1>7 DEF AddUser, TypeInv
<1> QED  BY Steps, <1>1, <1>2, <1>3, <1>4, <1>5, <1>6, <1>7, <1>8

-----------------------------------------------------------------------------
(* Theorems                                                                *)

\* The parts that say how accounts, files and commands hang together hold in every state.
THEOREM AccountsInvariant == SmbSpec => []AccountsInv
<1>1. AccountsInv /\ [SmbNext]_smbVars => AccountsInv'
  BY TypeKept, FollowKept, OneNameKept, NamesKept, KnownKept, OwnKept, FinalKept, SyncedKept,
     BehindKept, PassKept DEF AccountsInv
<1> QED  BY StartWell, <1>1, PTL DEF SmbSpec

\* Users, files, commands and accounts are of their types, and a command has claimed a file or is
\* a sync (sync.sh, routers/auth.py).
THEOREM AccountTypesHold == SmbSpec => []SmbTypeOK
<1>1. AccountsInv => SmbTypeOK
  BY AccountTypes DEF AccountsInv
<1> QED  BY <1>1, AccountsInvariant, PTL

\* The accounts of the file server are those of LAS: between two commands every account is one
\* of the last list, no two names act as one user, and when no password of a name is under
\* way an account takes the password of LAS (sync.sh, _sync_smb_password).
THEOREM AccountsRight == SmbSpec => []AccountsAreThoseOfLas
<1>1. AccountsInv => AccountsFollowTheList
  BY DEF AccountsInv, FollowInv, AccountsFollowTheList
<1>2. AccountsInv => SettledPasswordIsRight
  <2> SUFFICES ASSUME AccountsInv, NEW n \in LoginNames, ~OnItsWay(n), smbAccount[n] \in Secrets,
                      unixUser[n] \in People \ (late \cup pwLost), Holds(unixUser[n], n)
               PROVE  smbAccount[n] = person[unixUser[n]].secret
    BY DEF SettledPasswordIsRight
  <2> DEFINE u == unixUser[n]
  <2>1. u \in Clean /\ NameOf(u) = n
    BY DEF Holds, Clean, Row, NameOf
  <2>2. /\ \A w \in writes : w.name = n <=> w.by = u
        /\ \A m \in LoginNames : passwdFile[m] # NoFile => (m = n <=> passwdFile[m].by = u)
        /\ command.file # NoFile => (command.name = n <=> command.file.by = u)
    BY <2>1 DEF AccountsInv, OwnInv
  <2>3. FileOf(u) # NoFile /\ FileOf(u).by = u
    BY SmbAssumption DEF FileOf, NoFile
  <2>4. /\ \A w \in writes : w.by # u
        /\ passwdFile[n] # FileOf(u) /\ command.file # FileOf(u)
    BY <2>2, <2>3 DEF OnItsWay
  <2>5. LastIsRight(u)
    BY <2>1 DEF AccountsInv, FinalInv
  <2>6. Settled(u)
    BY <2>1, <2>4, <2>5 DEF LastIsRight
  <2> QED  BY <2>6 DEF Settled
<1>3. AccountsInv => AccountsAreThoseOfLas
  BY <1>1, <1>2 DEF AccountsInv, AccountsAreThoseOfLas
<1> QED  BY <1>3, AccountsInvariant, PTL
=============================================================================
