------------------------------ MODULE DriveView ------------------------------
(***************************************************************************)
(* What a user of the network drive is shown (fuse_server.py): listings of *)
(* folders and facts about the user are cached, the web API changes the    *)
(* database underneath and sends invalidations (services/smb_notify.py).   *)
(* One document, one user, the rights of the one to the other.             *)
(*                                                                         *)
(* history holds every state the database has been in: a cached value is   *)
(* the number of the state it was read from.                               *)
(***************************************************************************)
EXTENDS Naturals, Sequences

CONSTANTS
  Dirs,          \* folders that are listed
  Nowhere,       \* folder_id of a document in the trash
  DocRows,       \* rows of the document: its folder and its permissions
  Users,         \* what is known of the user: is_admin, member of the document's group
  Readers, Writers,  \* calls of the file system in flight: lookup and readdir, rename
  CacheTTL, InfoTTL, LoadMax,  \* CACHE_TTL, _USER_INFO_TTL, longest database query
  MaxTime, MaxChanges          \* bounds: clock ticks, states of the database

ASSUME DriveAssumption ==
  /\ Nowhere \notin Dirs
  /\ DocRows \subseteq [dir : Dirs \cup {Nowhere}, own : BOOLEAN, grouped : BOOLEAN,
                     group_read : BOOLEAN, others_read : BOOLEAN, download_prohibited : BOOLEAN]
  /\ Users \subseteq [admin : BOOLEAN, member : BOOLEAN]
  /\ CacheTTL \in Nat /\ InfoTTL \in Nat /\ LoadMax \in Nat /\ MaxTime \in Nat
  /\ MaxChanges \in Nat \ {0}

Ops == Readers \cup Writers

VARIABLES
  now,       \* time.monotonic()
  history,   \* states of the database, the current one last
  ended,     \* when a state of history was replaced
  listing,   \* MetadataCache: folder -> state it was read from and timestamp
  info,      \* _user_info_cache of the user, likewise
  op,        \* calls of the file system
  web,       \* the request of the web API in flight
  inbox,     \* invalidations sent and not handled
  own,       \* history: state made by the drive's last change of a folder
  raced      \* history: folders a load was under way for when the drive changed them

driveVars == <<now, history, ended, listing, info, op, web, inbox, own, raced>>

-----------------------------------------------------------------------------
(* Who may read (services/permissions.py, and the drive's own test)        *)

\* can_access_document without need_write: a member of the group is judged by its bit alone.
CanAccess(row, user) ==
  \/ user.admin
  \/ row.own
  \/ IF row.grouped /\ user.member THEN row.group_read ELSE row.others_read

\* build_visibility_filter: the conditions of the WHERE clause are alternatives.
Visible(row, user) ==
  user.admin \/ row.own \/ row.others_read \/ (row.grouped /\ user.member /\ row.group_read)

\* Mutant: the bits of the first class that fits decide, as for a Unix file.
SeeByClass(row, user) ==
  ~row.download_prohibited /\ CanAccess(row, user)

\* _can_see_entry of the drive.
CanSeeEntry(row, user) ==
  /\ ~row.download_prohibited
  /\ \/ user.admin
     \/ row.own
     \/ row.group_read /\ row.grouped /\ user.member
     \/ row.others_read

-----------------------------------------------------------------------------
Current == Len(history)
NoRequest == [pc |-> "idle", row |-> CHOOSE row \in DocRows : TRUE]
NoEntry == [state |-> 0, stamp |-> 0]
FreshEntry(entry, ttl) == entry.state # 0 /\ now - entry.stamp < ttl

CallIdle == [pc |-> "idle", dir |-> Nowhere, start |-> 0, began |-> 0, listed |-> 0,
             known |-> 0, row |-> 0]

\* A state of the database was the current one at a time not longer ago than age before t.
CurrentWithin(s, age, t) == s = Current \/ ended[s] + age >= t

CommitState(row, user) ==
  /\ Len(history) < MaxChanges
  /\ history' = Append(history, [row |-> row, user |-> user])
  /\ ended' = [ended EXCEPT ![Current] = now]

-----------------------------------------------------------------------------
(* lookup and readdir: _get_folder_cache, then _get_user_info_sync         *)

FolderHit(o, d) ==
  /\ op[o].pc = "idle"
  /\ FreshEntry(listing[d], CacheTTL)
  /\ op' = [op EXCEPT ![o] = [CallIdle EXCEPT !.pc = "info", !.dir = d, !.start = now,
                                          !.listed = listing[d].state]]
  /\ UNCHANGED <<now, history, ended, listing, info, web, inbox, own, raced>>

\* The timestamp of a listing is taken before the first query.
FolderMiss(o, d) ==
  /\ op[o].pc = "idle"
  /\ ~FreshEntry(listing[d], CacheTTL)
  /\ op' = [op EXCEPT ![o] = [CallIdle EXCEPT !.pc = "load", !.dir = d, !.start = now,
                                              !.began = now]]
  /\ UNCHANGED <<now, history, ended, listing, info, web, inbox, own, raced>>

LoadChildren(o) ==
  /\ op[o].pc = "load"
  /\ op' = [op EXCEPT ![o].pc = "put", ![o].listed = Current]
  /\ UNCHANGED <<now, history, ended, listing, info, web, inbox, own, raced>>

\* Mutant: the time of the entry is taken when it is put.
StampAfter(o) == now
\* Mutant: the time of the end of the entry.
StampExpiry(o) == op[o].began + CacheTTL
Stamp(o) == op[o].began

PutListing(o) ==
  /\ op[o].pc = "put"
  /\ listing' = [listing EXCEPT ![op[o].dir] = [state |-> op[o].listed, stamp |-> Stamp(o)]]
  /\ op' = [op EXCEPT ![o].pc = "info"]
  /\ UNCHANGED <<now, history, ended, info, web, inbox, own, raced>>

InfoHit(o) ==
  /\ op[o].pc = "info"
  /\ FreshEntry(info, InfoTTL)
  /\ op' = [op EXCEPT ![o].pc = "reply", ![o].known = info.state, ![o].began = now]
  /\ UNCHANGED <<now, history, ended, listing, info, web, inbox, own, raced>>

InfoMiss(o) ==
  /\ op[o].pc = "info"
  /\ ~FreshEntry(info, InfoTTL)
  /\ op' = [op EXCEPT ![o].pc = "learn", ![o].known = Current, ![o].began = now]
  /\ UNCHANGED <<now, history, ended, listing, info, web, inbox, own, raced>>

\* Here the timestamp is taken after the queries.
KeepInfo(o) ==
  /\ op[o].pc = "learn"
  /\ info' = [state |-> op[o].known, stamp |-> now]
  /\ op' = [op EXCEPT ![o].pc = "reply", ![o].began = now]
  /\ UNCHANGED <<now, history, ended, listing, web, inbox, own, raced>>

Shown(o) ==
  LET row == history[op[o].listed].row
  IN row.dir = op[o].dir /\ CanSeeEntry(row, history[op[o].known].user)

Reply(o) ==
  /\ op[o].pc = "reply"
  /\ op' = [op EXCEPT ![o] = CallIdle]
  /\ UNCHANGED <<now, history, ended, listing, info, web, inbox, own, raced>>

-----------------------------------------------------------------------------
(* rename of a document on the drive: commit, then invalidate both folders *)

RenameOnDrive(o, row) ==
  LET old == history[Current].row
  IN /\ op[o].pc = "idle"
     /\ old.dir \in Dirs /\ row.dir \in Dirs /\ row = [old EXCEPT !.dir = row.dir]
     /\ CommitState(row, history[Current].user)
     /\ op' = [op EXCEPT ![o] = [CallIdle EXCEPT !.pc = "invalidate", !.dir = old.dir,
                                                 !.row = Current + 1]]
     /\ UNCHANGED <<now, listing, info, web, inbox, own, raced>>

\* Mutant: only the folder the document is in now.
DroppedNew(o) == {history[op[o].row].row.dir}
Dropped(o) == {op[o].dir, history[op[o].row].row.dir}

DriveInvalidate(o) ==
  /\ op[o].pc = "invalidate"
  /\ listing' = [d \in Dirs |-> IF d \in Dropped(o) THEN NoEntry ELSE listing[d]]
  /\ own' = [d \in Dirs |-> IF d \in {op[o].dir, history[op[o].row].row.dir}
                            THEN IF own[d] > op[o].row THEN own[d] ELSE op[o].row ELSE own[d]]
  /\ raced' = raced \cup {d \in Dropped(o) :
                 \E p \in Ops : op[p].pc = "put" /\ op[p].dir = d /\ op[p].listed < op[o].row}
  /\ op' = [op EXCEPT ![o] = CallIdle]
  /\ UNCHANGED <<now, history, ended, info, web, inbox>>

-----------------------------------------------------------------------------
(* The web API: a handler publishes, the session commits when it has ended *)

\* PATCH and DELETE of a document name the folder it is in after the change or was in; bulk
\* moves, restores and permission changes by the bulk action name none, nor do groups.
WebPublish(row, named) ==
  /\ web.pc = "idle"
  /\ row # history[Current].row
  /\ named \subseteq (IF row.dir # Nowhere THEN {row.dir} ELSE {history[Current].row.dir})
  /\ named \subseteq Dirs
  /\ web' = [pc |-> "commit", row |-> row]
  /\ inbox' = inbox \cup named
  /\ UNCHANGED <<now, history, ended, listing, info, op, own, raced>>

WebCommit ==
  /\ web.pc = "commit"
  /\ CommitState(web.row, history[Current].user)
  /\ web' = NoRequest
  /\ UNCHANGED <<now, listing, info, op, inbox, own, raced>>

\* Membership and roles change in one transaction that tells the drive nothing.
UserChange(user) ==
  /\ user # history[Current].user
  /\ CommitState(history[Current].row, user)
  /\ UNCHANGED <<now, listing, info, op, web, inbox, own, raced>>

\* _redis_cache_subscriber
Invalidate(d) ==
  /\ d \in inbox
  /\ inbox' = inbox \ {d}
  /\ listing' = [listing EXCEPT ![d] = NoEntry]
  /\ UNCHANGED <<now, history, ended, info, op, web, own, raced>>

\* Publishing failed, or the subscriber was reconnecting: Redis keeps nothing for it.
LoseMessage(d) ==
  /\ d \in inbox
  /\ inbox' = inbox \ {d}
  /\ UNCHANGED <<now, history, ended, listing, info, op, web, own, raced>>

\* A query of the user's roles and groups takes at most LoadMax.
Tick ==
  /\ now < MaxTime
  /\ \A o \in Ops : op[o].pc = "learn" => now - op[o].began < LoadMax
  /\ now' = now + 1
  /\ UNCHANGED <<history, ended, listing, info, op, web, inbox, own, raced>>

-----------------------------------------------------------------------------
DriveInit ==
  /\ now = 0
  /\ history \in {<<[row |-> row, user |-> user]>> : row \in DocRows, user \in Users}
  /\ ended = [s \in 1..MaxChanges |-> 0]
  /\ listing = [d \in Dirs |-> NoEntry]
  /\ info = NoEntry
  /\ op = [o \in Ops |-> CallIdle]
  /\ web = NoRequest
  /\ inbox = {}
  /\ own = [d \in Dirs |-> 0]
  /\ raced = {}

DriveNext ==
  \/ \E o \in Readers :
       \/ \E d \in Dirs : FolderHit(o, d) \/ FolderMiss(o, d)
       \/ LoadChildren(o) \/ PutListing(o)
       \/ InfoHit(o) \/ InfoMiss(o) \/ KeepInfo(o) \/ Reply(o)
  \/ \E o \in Writers : DriveInvalidate(o) \/ \E row \in DocRows : RenameOnDrive(o, row)
  \/ \E d \in Dirs : Invalidate(d) \/ LoseMessage(d)
  \/ \E row \in DocRows, named \in SUBSET Dirs : WebPublish(row, named)
  \/ WebCommit
  \/ \E user \in Users : UserChange(user)
  \/ Tick

DriveSpec == DriveInit /\ [][DriveNext]_driveVars

-----------------------------------------------------------------------------
(* Properties                                                              *)

DriveTypeOK ==
  /\ now \in 0..MaxTime
  /\ Len(history) \in 1..MaxChanges
  /\ \A s \in 1..Len(history) : history[s] \in [row : DocRows, user : Users]
  /\ ended \in [1..MaxChanges -> 0..MaxTime]
  /\ listing \in [Dirs -> [state : 0..Current, stamp : 0..MaxTime]]
  /\ info \in [state : 0..Current, stamp : 0..MaxTime]
  /\ \A o \in Ops :
       /\ op[o].pc \in {"idle", "load", "put", "info", "learn", "reply", "invalidate"}
       /\ op[o].listed \in 0..Current /\ op[o].known \in 0..Current /\ op[o].row \in 0..Current
  /\ web.pc \in {"idle", "commit"} /\ web.row \in DocRows
  /\ inbox \subseteq Dirs /\ raced \subseteq Dirs
  /\ own \in [Dirs -> 0..Current]

\* What the drive shows was true a short time ago, even when every invalidation is lost or
\* overtaken by a load: the document was in the folder with these rights within CACHE_TTL of
\* the moment the listing was taken, and the user was who he is taken for within
\* _USER_INFO_TTL and one query of the moment the reply was decided.
ShownWasTrueLately ==
  \A o \in Ops :
    op[o].pc = "reply" /\ Shown(o) =>
      /\ \E s \in 1..Current :
           /\ CurrentWithin(s, CacheTTL, op[o].start)
           /\ history[s].row.dir = op[o].dir /\ ~history[s].row.download_prohibited
           /\ \E u \in 1..Current :
                /\ CurrentWithin(u, InfoTTL + LoadMax, op[o].began)
                /\ Visible(history[s].row, history[u].user)

\* When nothing has changed lately the drive shows exactly what the document list of the web
\* shows of that folder, less what may not be downloaded; so every document the web lets the
\* user open is there.
QuietDriveShowsTheList ==
  \A o \in Ops :
    LET now_ == history[Current]
    IN (/\ op[o].pc = "reply"
        /\ \A s \in 1..(Current - 1) : /\ ~CurrentWithin(s, CacheTTL, op[o].start)
                                         /\ ~CurrentWithin(s, InfoTTL + LoadMax, op[o].began)) =>
          /\ Shown(o) <=> /\ now_.row.dir = op[o].dir
                          /\ Visible(now_.row, now_.user) /\ ~now_.row.download_prohibited
          /\ (now_.row.dir = op[o].dir /\ CanAccess(now_.row, now_.user)
                /\ ~now_.row.download_prohibited) => Shown(o)

\* Who renames on the drive sees the result: after the call no older listing of either folder
\* is in the cache, unless a load that had read the old state was still to be put there.
OwnChangeIsSeen ==
  \A d \in Dirs : listing[d].state # 0 /\ listing[d].state < own[d] => d \in raced

\* The cached listings of the drive: never old by more than they may, right when nothing changes,
\* and right at once for one's own change.
DriveShowsTheTruth == ShownWasTrueLately /\ QuietDriveShowsTheList /\ OwnChangeIsSeen
=============================================================================
