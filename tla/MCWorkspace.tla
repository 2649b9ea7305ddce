------------------------------ MODULE MCWorkspace ------------------------------
(* Instances of FolderTree, NoteTree, DriveView, UnixIds, Sessions and SearchRun  *)
(* for TLC.  They share no variable and no property is about two of them: a       *)
(* behaviour runs one part and leaves the others at their initial values, so the  *)
(* states of the parts add up.                                                    *)
EXTENDS FolderTree, NoteTree, DriveView, UnixIds, Sessions, SearchRun, TLC

CONSTANTS f1, f2, f3, d1, d2, n1, n2, n3, u1, u2, u3, dirA, dirB, w1, w2

VARIABLE part

One(S) == CHOOSE x \in S : TRUE

workspaceVars ==
  <<part, folderVars, noteVars, driveVars, unixVars, sessionVars, searchVars>>

\* Folders: a folder in another, a document in it, one to be uploaded; a folder in another,
\* a free id, a document in it and one in the trash.
MCTitle == [d \in Docs |-> "t"]
FileIn(f, s) == [home |-> f, state |-> s, file |-> TRUE]
MCFolders ==
  /\ name = (f1 :> "a" @@ f2 :> "b" @@ f3 :> "b")
  /\ \/ /\ parent = (f1 :> Root @@ f2 :> Root @@ f3 :> f1)
        /\ doc = (d1 :> FileIn(f3, "live") @@ d2 :> FileIn(Root, "none"))
     \/ /\ parent = (f1 :> Root @@ f2 :> f1 @@ f3 :> Unused)
        /\ doc = (d1 :> FileIn(f2, "live") @@ d2 :> FileIn(f1, "trash"))
  /\ FolderInit

\* Notes: the first user reads all and may change two, the second does not see
\* the first and may change the third, the third user sees all and may change the third.
MCReads == (u1 :> {n1, n2, n3} @@ u2 :> {n2, n3} @@ u3 :> {n1, n2, n3})
MCWrites == (u1 :> {n1, n2} @@ u2 :> {n3} @@ u3 :> {n3})
MCTitleRank == (n1 :> 1 @@ n2 :> 2 @@ n3 :> 3)
MCLo == -1
Each(x, y, z) == (n1 :> x @@ n2 :> y @@ n3 :> z)
MCNotes ==
  /\ \/ /\ above = Each(Top, n1, n2) /\ order = Each(0, 0, 0)
        /\ isNote = Each(TRUE, TRUE, TRUE) /\ stands = Each("live", "live", "live")
     \/ /\ above = Each(Top, Top, Top) /\ order = Each(0, 0, 0)
        /\ isNote = Each(TRUE, FALSE, FALSE) /\ stands = Each("live", "live", "unused")
     \/ /\ above = Each(Top, Top, Top)
        /\ order \in {Each(0, 2, 1), Each(0, 1, 2), Each(1, 1, 0)}
        /\ isNote = Each(TRUE, TRUE, TRUE) /\ stands = Each("live", "live", "live")
     \/ /\ above = Each(n2, Top, n1) /\ order = Each(0, 0, 0)
        /\ isNote = Each(TRUE, TRUE, TRUE) /\ stands = Each("trash", "live", "live")
  /\ NoteInit

\* The drive: a document of the user's group that is moved, or closed to the group and opened
\* to all; the user leaves the group.
Row(d, groupRead, othersRead) ==
  [dir |-> d, own |-> FALSE, grouped |-> TRUE, group_read |-> groupRead,
   others_read |-> othersRead, download_prohibited |-> FALSE]
MCRows == {Row(dirA, TRUE, FALSE), Row(dirB, TRUE, FALSE), Row(dirA, FALSE, TRUE)}
MCUsers == {[admin |-> FALSE, member |-> TRUE], [admin |-> FALSE, member |-> FALSE]}
MCDrive ==
  /\ history = <<[row |-> Row(dirA, TRUE, FALSE), user |-> [admin |-> FALSE, member |-> TRUE]]>>
  /\ DriveInit

\* Numbers: one or two rows, or none yet, without a number.
IdleNumbers ==
  /\ account = [a \in Accounts |-> [state |-> "none", number |-> 0]]
  /\ UnixInit

\* Sessions without keys, with a change of a user or a fault of Redis; and keys, when the tokens
\* there were have expired, with both.
NoKeys == key = [k \in Keys |-> [state |-> "gone", on |-> TRUE, owner |-> One(Holders),
                                 expires |-> MaxTick]]
OldToken == [kind |-> "access", sub |-> One(Holders), exp |-> 0]
SessionsFrom(t) ==
  /\ tick = 0 /\ revoked = {} /\ made = IF t = NoToken THEN 0 ELSE LastToken
  /\ holder = [u \in Holders |-> "active"] /\ call = [c \in Calls |-> NoCall]
  /\ token = [x \in Tokens |-> t] /\ black = [x \in Tokens |-> 0]
IdleSessions == edits = 0 /\ redisFaults = 0 /\ SessionsFrom(NoToken) /\ NoKeys
MCSessions ==
  \/ /\ \/ edits = MaxUserEdits /\ redisFaults = 0
        \/ edits = 0 /\ redisFaults = MaxRedisFaults
     /\ SessionsFrom(NoToken) /\ NoKeys
  \/ /\ key = [k \in Keys |-> [state |-> "row", on |-> TRUE, owner |-> One(Holders),
                               expires |-> MaxTick]]
     /\ edits = 0 /\ redisFaults = 0 /\ SessionsFrom(OldToken)

\* Searches: two live documents of any title and memo, with a word of the text or none, that nothing
\* changes; or some that differ in what closes a document, with any query.
MCOrder == <<"title", "memo">>
DocRow(t, o, c, n, f, s, v) ==
  [title |-> t, other |-> o, content |-> c, near |-> n, fresh |-> f, state |-> s, readable |-> v]
QuietRows ==
  {r \in Rows : /\ r.state = "live" /\ r.readable /\ r.content \in {{}, {w2}}}
MixedRows ==
  {DocRow({w1}, {}, {}, FALSE, TRUE, "live", TRUE),
   DocRow({}, {}, {w1, w2}, TRUE, FALSE, "live", TRUE),
   DocRow({w1, w2}, {w2}, {w1}, FALSE, FALSE, "live", FALSE),
   DocRow({}, {}, {}, TRUE, FALSE, "trash", TRUE)}
MCSearches ==
  /\ \/ candidate \in [Candidates -> QuietRows] /\ query = {w1, w2} /\ docEdits = MaxEdits
     \/ candidate \in [Candidates -> MixedRows] /\ query \in SUBSET Words /\ docEdits = 0
  /\ edited = FALSE /\ SearchStart
IdleSearch ==
  /\ candidate = [d \in Candidates |-> DocRow({}, {}, {}, FALSE, FALSE, "live", TRUE)]
  /\ query = {} /\ docEdits = 0 /\ edited = FALSE /\ SearchStart

IdleFolders ==
  /\ name = [f \in FolderIds |-> "a"] /\ parent = [f \in FolderIds |-> Unused]
  /\ doc = [d \in Docs |-> FileIn(Root, "none")] /\ req = [r \in Slots |-> FolderIdle]
  /\ started = 0 /\ blind = FALSE /\ torn = {}
IdleNotes ==
  /\ above = [n \in NoteIds |-> Top] /\ isNote = [n \in NoteIds |-> FALSE]
  /\ stands = [n \in NoteIds |-> "unused"] /\ order = [n \in NoteIds |-> 0]
  /\ noteReq = [r \in NoteSlots |-> NoteIdle] /\ asked = 0 /\ crossed = FALSE /\ looped = FALSE

WorkspaceInit ==
  /\ MCDrive
  /\ \/ part = "folders" /\ MCFolders /\ IdleNotes /\ IdleNumbers /\ IdleSessions /\ IdleSearch
     \/ part = "notes" /\ IdleFolders /\ MCNotes /\ IdleNumbers /\ IdleSessions /\ IdleSearch
     \/ part = "drive" /\ IdleFolders /\ IdleNotes /\ IdleNumbers /\ IdleSessions /\ IdleSearch
     \/ part = "numbers" /\ IdleFolders /\ IdleNotes /\ UnixInit /\ IdleSessions /\ IdleSearch
     \/ part = "sessions" /\ IdleFolders /\ IdleNotes /\ IdleNumbers /\ MCSessions /\ IdleSearch
     \/ part = "search" /\ IdleFolders /\ IdleNotes /\ IdleNumbers /\ IdleSessions /\ MCSearches

NotFolders == <<part, noteVars, driveVars, unixVars, sessionVars, searchVars>>
NotNotes == <<part, folderVars, driveVars, unixVars, sessionVars, searchVars>>
NotDrive == <<part, folderVars, noteVars, unixVars, sessionVars, searchVars>>
NotNumbers == <<part, folderVars, noteVars, driveVars, sessionVars, searchVars>>
NotSessions == <<part, folderVars, noteVars, driveVars, unixVars, searchVars>>
NotSearch == <<part, folderVars, noteVars, driveVars, unixVars, sessionVars>>

WorkspaceNext ==
  \/ part = "folders" /\ FolderNext /\ UNCHANGED NotFolders
  \/ part = "notes" /\ NoteNext /\ UNCHANGED NotNotes
  \/ part = "drive" /\ DriveNext /\ UNCHANGED NotDrive
  \/ part = "numbers" /\ UnixNext /\ UNCHANGED NotNumbers
  \/ part = "sessions" /\ SessionNext /\ UNCHANGED NotSessions
  \/ part = "search" /\ SearchNext /\ UNCHANGED NotSearch

WorkspaceSpec == WorkspaceInit /\ [][WorkspaceNext]_workspaceVars

\* The part that runs is well typed; the others stay as they are.
WorkspaceTypeOK ==
  /\ part = "folders" => FolderTypeOK
  /\ part = "notes" => NoteTypeOK
  /\ part = "drive" => DriveTypeOK
  /\ part = "numbers" => UnixTypeOK
  /\ part = "sessions" => SessionTypeOK
  /\ part = "search" => SearchTypeOK

Symmetry == Permutations(Slots)
=============================================================================
