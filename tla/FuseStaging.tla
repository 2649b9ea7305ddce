---------------------------- MODULE FuseStaging ----------------------------
(***************************************************************************)
(* The write path of the network drive (backend/app/fuse_server.py): one   *)
(* folder, its files in staging, the documents they become, and the        *)
(* background sync that takes the ones to the others.                      *)
(*                                                                         *)
(* FUSE calls are steps of the event loop; the sync of one file runs in a  *)
(* thread, so calls come between its steps. The kernel (external) looks a  *)
(* name up before it opens, unlinks or renames it, and keeps no name       *)
(* (entry_timeout is 0). A text is a number, a write replaces the text.    *)
(* Left out: permissions, the metadata cache (a name is looked up in the   *)
(* database itself), directories, and documents made by the web API.       *)
(***************************************************************************)
EXTENDS Naturals, Sequences, SequencesExt, FiniteSets

CONSTANTS
    Name,       \* file names in the folder
    Temp,       \* the names that _is_temp_file holds for
    Handle,     \* open file handles
    Calls,      \* the calls that come: "reopen" a file in staging, "rename",
                \* "replace" (rename to a name in use), "hide" (rename to a
                \* temporary name), "unlink", "remove_user" (an administrator
                \* deletes the user that a file is written for)
    MaxFile,    \* bound: files created
    MaxDoc,     \* bound: documents, queued items and open handles, taken together
    MaxText     \* bound: texts written

ASSUME NameAssumption == Temp \subseteq Name /\ 0 \notin Name
ASSUME CallsAssumption ==
    Calls \subseteq {"reopen", "rename", "replace", "hide", "unlink", "remove_user"}
ASSUME BoundsAssumption ==
    MaxFile \in Nat /\ MaxDoc \in Nat /\ MaxText \in Nat /\ IsFiniteSet(Handle)

File == 1 .. MaxFile
Doc == 1 .. MaxDoc      \* a document, and its path in permanent storage
Text == 0 .. MaxText
Nil == 0                \* no file, no document, no path; the empty text

VARIABLES
    file,       \* file[f] is a PendingFile; moved is the permanent path of its staging_path
    pending,    \* pending[n] is the file in the pending map under n
    staging,    \* staging[n] is the inode at the staging path of n
    stored,     \* stored[d] is the inode at the permanent path of d
    data,       \* data[i] is the text of inode i, named by the file that created it
    handle,     \* handle[h] is an entry of _open_files
    queue,      \* _sync_queue
    round,      \* the items of this round still to do, the current one first
    step,       \* where the current item is in _commit_pending_sync
    doc,        \* doc[d] is the row of table documents, with its file and job; "path"
                \* and "gone" are a permanent path without a row
    saved,      \* history: saved[n] is the last text closed under the name n
    rough       \* history: the names that a call was made on which the sync does
                \* not expect, see Smooth

vars == <<file, pending, staging, stored, data, handle, queue, round, step, doc,
          saved, rough>>
disk == <<staging, stored, data>>
sync == <<round, step>>

NoFile == [name |-> Nil, moved |-> Nil, temp |-> FALSE, closed |-> FALSE, deleted |-> FALSE]
NewFile(n) == [name |-> n, moved |-> Nil, temp |-> n \in Temp, closed |-> FALSE, deleted |-> FALSE]
Closed == [kind |-> "free", of |-> Nil, inode |-> Nil, dirty |-> FALSE]
NoDoc == [state |-> "none", name |-> Nil, indexed |-> Nil]

Init ==
    /\ file = [f \in File |-> NoFile] /\ pending = [n \in Name |-> Nil]
    /\ staging = [n \in Name |-> Nil] /\ stored = [d \in Doc |-> Nil]
    /\ data = [i \in File |-> Nil]
    /\ handle = [h \in Handle |-> Closed]
    /\ queue = <<>> /\ round = <<>> /\ step = "look"
    /\ doc = [d \in Doc |-> NoDoc]
    /\ saved = [n \in Name |-> Nil] /\ rough = {}

-----------------------------------------------------------------------------
(* Names                                                                   *)

\* The inode at the staging_path of a file: in staging, or moved already.
Inode(f) == IF file[f].moved = Nil THEN staging[file[f].name] ELSE stored[file[f].moved]

\* os.unlink(pf.staging_path)
UnlinkPath(f) ==
    IF file[f].moved = Nil
    THEN staging' = [staging EXCEPT ![file[f].name] = Nil] /\ UNCHANGED <<stored, data>>
    ELSE stored' = [stored EXCEPT ![file[f].moved] = Nil] /\ UNCHANGED <<staging, data>>

SameName(n) == {d \in Doc : doc[d].state = "live" /\ doc[d].name = n}

\* lookup: the pending map first, without temporary files, then the database.
IsPending(n) == pending[n] # Nil /\ ~file[pending[n]].temp
Shown(n) == IsPending(n) \/ SameName(n) # {}

Opened == {h \in Handle : handle[h] # Closed}
Room ==
    LET made == Cardinality({d \in Doc : doc[d] # NoDoc})
        todo == Len(queue) + Len(round) - (IF step \in {"insert", "forget"} THEN 1 ELSE 0)
    IN  made + todo + Cardinality(Opened) < MaxDoc
InRound(f) == \E i \in 1 .. Len(round) : round[i] = <<"file", f>>

-----------------------------------------------------------------------------
(* FUSE calls                                                              *)

\* create: the kernel calls it for a name that lookup does not find. A temporary
\* file is not found: its path is truncated and its entry replaced.
Create(n, h) ==
    \E f \in File :
       /\ ~Shown(n) /\ handle[h] = Closed /\ Room
       /\ file[f] = NoFile /\ \A g \in File : g < f => file[g] # NoFile
       /\ file' = [file EXCEPT ![f] = NewFile(n)]
       /\ pending' = [pending EXCEPT ![n] = f]
       /\ IF staging[n] = Nil
          THEN staging' = [staging EXCEPT ![n] = f] /\ data' = data
          ELSE staging' = staging /\ data' = [data EXCEPT ![staging[n]] = Nil]
       /\ handle' = [handle EXCEPT ![h] =
              [kind |-> "staging", of |-> f, inode |-> staging'[n], dirty |-> FALSE]]
       /\ UNCHANGED <<stored, queue, sync, doc, saved, rough>>

\* open of a file in staging.
OpenPending(n, h) ==
    /\ "reopen" \in Calls /\ IsPending(n) /\ handle[h] = Closed /\ Room
    /\ Inode(pending[n]) # Nil
    /\ rough' = rough \cup {n}
    /\ handle' = [handle EXCEPT ![h] = [kind |-> "staging", of |-> pending[n],
                                        inode |-> Inode(pending[n]), dirty |-> FALSE]]
    /\ UNCHANGED <<file, pending, disk, queue, sync, doc, saved>>

\* open of a document, for writing.
OpenDoc(n, h) ==
    /\ ~IsPending(n) /\ handle[h] = Closed /\ Room
    /\ \E d \in SameName(n) :
          /\ stored[d] # Nil
          /\ handle' = [handle EXCEPT ![h] = [kind |-> "db", of |-> d, inode |-> stored[d],
                                              dirty |-> FALSE]]
    /\ UNCHANGED <<file, pending, disk, queue, sync, doc, saved, rough>>

LastText == LET texts == {data[i] : i \in File} \cup {saved[n] : n \in Name}
            IN  CHOOSE t \in texts : \A u \in texts : u <= t

WriteClean(h) ==   \* mutant: dirty is not set
    /\ handle[h] # Closed /\ LastText < MaxText
    /\ data' = [data EXCEPT ![handle[h].inode] = LastText + 1]
    /\ UNCHANGED <<file, pending, staging, stored, handle, queue, sync, doc, saved, rough>>

\* write, and setattr with a new size. (dirty is read for documents only.)
Write(h) ==
    /\ handle[h] # Closed /\ LastText < MaxText
    /\ data' = [data EXCEPT ![handle[h].inode] = LastText + 1]
    /\ handle' = [handle EXCEPT ![h].dirty = handle[h].kind = "db"]
    /\ UNCHANGED <<file, pending, staging, stored, queue, sync, doc, saved, rough>>

\* The names under which the user knows the file of a handle.
NamesOf(h) ==
    CASE handle[h].kind = "staging" -> {n \in Name : pending[n] = handle[h].of}
      [] handle[h].kind = "db" ->
            {n \in Name : doc[handle[h].of].state = "live" /\ doc[handle[h].of].name = n}

\* release
Release(h) ==
    LET o == handle[h].of
        f == IF handle[h].kind = "staging" THEN o ELSE Nil
    IN  /\ handle[h] # Closed
        /\ handle' = [handle EXCEPT ![h] = Closed]
        /\ IF f # Nil /\ ~file[f].temp /\ ~file[f].deleted
           THEN /\ file' = [file EXCEPT ![f].closed = TRUE]
                /\ queue' = Append(queue, <<"file", f>>)
           ELSE /\ file' = file
                /\ queue' = IF f = Nil /\ handle[h].dirty THEN Append(queue, <<"reindex", o>>)
                            ELSE queue
        /\ saved' = [n \in Name |-> IF n \in NamesOf(h) THEN data[handle[h].inode] ELSE saved[n]]
        /\ UNCHANGED <<pending, disk, sync, doc, rough>>

\* unlink
Unlink(n) ==
    /\ "unlink" \in Calls /\ Shown(n)
    /\ IF pending[n] # Nil
       THEN LET f == pending[n]
            IN  /\ file' = [file EXCEPT ![f].deleted = TRUE]
                /\ UnlinkPath(f)
                /\ pending' = [pending EXCEPT ![n] = Nil]
                /\ UNCHANGED doc
       ELSE /\ \E d \in SameName(n) : doc' = [doc EXCEPT ![d].state = "deleted"]
            /\ UNCHANGED <<file, pending, disk>>
    /\ saved' = [saved EXCEPT ![n] = Nil]
    /\ rough' = IF InRound(pending[n]) THEN rough \cup {n} ELSE rough
    /\ UNCHANGED <<handle, queue, sync>>

Renames(a, b) ==
    /\ a # b /\ Shown(a)
    /\ CASE Shown(b) -> "replace" \in Calls
         [] b \in Temp -> "hide" \in Calls
         [] OTHER -> "rename" \in Calls
    /\ rough' = IF \/ Shown(b) \/ b \in Temp \/ a \in rough
                   \/ InRound(pending[a])
                THEN rough \cup {a, b} ELSE rough

RenamePendingInPlace(a, b) ==   \* mutant: staging_path is not updated
    LET f == pending[a]
    IN  /\ Renames(a, b) /\ pending[a] # Nil
        /\ pending' = [pending EXCEPT ![a] = Nil, ![b] = f]
        /\ staging' = [staging EXCEPT ![b] = Inode(f)]
        /\ UNCHANGED <<file, stored>>
        /\ saved' = [saved EXCEPT ![a] = Nil, ![b] = saved[a]]
        /\ UNCHANGED <<data, handle, queue, sync, doc>>

\* rename of a file in staging: it moves, over what is there; is_temp stays.
RenamePending(a, b) ==
    LET f == pending[a]
        there == Inode(f) # Nil
    IN  /\ Renames(a, b) /\ pending[a] # Nil
        /\ file' = [file EXCEPT ![f].name = b, ![f].moved = Nil]
        /\ pending' = [pending EXCEPT ![a] = Nil, ![b] = f]
        /\ IF file[f].moved = Nil
           THEN /\ staging' = IF there THEN [staging EXCEPT ![a] = Nil, ![b] = Inode(f)]
                              ELSE staging
                /\ UNCHANGED stored
           ELSE /\ staging' = IF there THEN [staging EXCEPT ![b] = Inode(f)] ELSE staging
                /\ stored' = [stored EXCEPT ![file[f].moved] = Nil]
        /\ saved' = [saved EXCEPT ![a] = Nil, ![b] = saved[a]]
        /\ UNCHANGED <<data, handle, queue, sync, doc>>

\* rename of a document: its title changes, whatever has that title.
RenameDoc(a, b) ==
    /\ Renames(a, b) /\ pending[a] = Nil
    /\ \E d \in SameName(a) : doc' = [doc EXCEPT ![d].name = b]
    /\ saved' = [saved EXCEPT ![a] = Nil, ![b] = saved[a]]
    /\ UNCHANGED <<file, pending, disk, handle, queue, sync>>

-----------------------------------------------------------------------------
(* The background sync                                                     *)

\* A reindex, or a closed file that was not deleted; the rest stays queued.
Ready(item) == item[1] = "file" => file[item[2]].closed /\ ~file[item[2]].deleted
ReadyItems == {item \in Range(queue) : Ready(item)}

\* The items of a sequence that are in a set, in their order.
Picked(seq, items) ==
    LET picked[i \in 0 .. Len(seq)] ==
            IF i = 0 THEN <<>>
            ELSE IF seq[i] \in items THEN Append(picked[i - 1], seq[i]) ELSE picked[i - 1]
    IN  picked[Len(seq)]

StartRound ==
    /\ round = <<>> /\ ReadyItems # {}
    /\ round' = Picked(queue, ReadyItems)
    /\ queue' = Picked(queue, Range(queue) \ ReadyItems)
    /\ UNCHANGED <<file, pending, disk, handle, step, doc, saved, rough>>

Current(kind) == round # <<>> /\ Head(round)[1] = kind
Item == Head(round)[2]
Done == round' = Tail(round) /\ step' = "look"
Committing(s) == Current("file") /\ step = s

\* _reindex_sync: a job reads the file some time after this.
Reindex ==
    /\ Current("reindex")
    /\ doc' = [doc EXCEPT ![Item].indexed = IF stored[Item] = Nil THEN @ ELSE data[stored[Item]]]
    /\ Done
    /\ UNCHANGED <<file, pending, disk, handle, queue, saved, rough>>

\* _commit_pending_sync, from here on. There is no file to commit.
SkipMissing ==
    /\ Committing("look") /\ Inode(Item) = Nil
    /\ Done
    /\ UNCHANGED <<file, pending, disk, handle, queue, doc, saved, rough>>

DuplicateDeleted(f) ==   \* mutant: deleted_at is not looked at
    \E d \in Doc : doc[d].state \in {"live", "deleted"} /\ doc[d].name = file[f].name
Duplicate(f) == \E d \in Doc : doc[d].state = "live" /\ doc[d].name = file[f].name

\* The file is empty, or a document of its name is there: it is removed.
SkipRemoved ==
    /\ Committing("look") /\ Inode(Item) # Nil
    /\ data[Inode(Item)] = Nil \/ Duplicate(Item)
    /\ UnlinkPath(Item)
    /\ Done
    /\ UNCHANGED <<file, pending, handle, queue, doc, saved, rough>>

Look ==
    /\ Committing("look") /\ Inode(Item) # Nil
    /\ data[Inode(Item)] # Nil /\ ~Duplicate(Item)
    /\ step' = "move"
    /\ UNCHANGED <<file, pending, disk, handle, queue, round, doc, saved, rough>>

\* _final_storage_path: a path of its own. Final is the path of the current item.
NextDoc == CHOOSE d \in Doc : doc[d] = NoDoc /\ \A e \in Doc : doc[e] = NoDoc => d <= e
Final == CHOOSE d \in Doc : doc[d].state = "path"

\* shutil.move raises when the file has gone since.
MoveRaises ==
    /\ Committing("move") /\ Inode(Item) = Nil
    /\ Done
    /\ UNCHANGED <<file, pending, disk, handle, queue, doc, saved, rough>>

\* The file moves to permanent storage, and staging_path says so.
Move ==
    /\ Committing("move") /\ Inode(Item) # Nil
    /\ LET i == Inode(Item)
       IN  IF file[Item].moved = Nil
           THEN /\ staging' = [staging EXCEPT ![file[Item].name] = Nil]
                /\ stored' = [stored EXCEPT ![NextDoc] = i]
           ELSE /\ stored' = [stored EXCEPT ![file[Item].moved] = Nil, ![NextDoc] = i]
                /\ UNCHANGED staging
    /\ file' = [file EXCEPT ![Item].moved = NextDoc]
    /\ doc' = [doc EXCEPT ![NextDoc].state = "path"]
    /\ step' = "insert"
    /\ UNCHANGED <<pending, data, handle, queue, round, saved, rough>>

\* No user has the uid of the writer any more: nobody would own the document.
NoOwner ==
    /\ Committing("insert") /\ "remove_user" \in Calls
    /\ stored' = [stored EXCEPT ![Final] = Nil]
    /\ doc' = [doc EXCEPT ![Final].state = "gone"]
    /\ rough' = rough \cup {file[Item].name}
    /\ Done
    /\ UNCHANGED <<file, pending, staging, data, handle, queue, saved>>

\* Document, file and job are committed; the job reads what is there by then.
Insert ==
    /\ Committing("insert")
    /\ doc' = [doc EXCEPT ![Final] =
           [state |-> "live", name |-> file[Item].name,
            indexed |-> IF stored[Final] = Nil THEN Nil ELSE data[stored[Final]]]]
    /\ step' = "forget"
    /\ UNCHANGED <<file, pending, disk, handle, queue, round, saved, rough>>

ForgetNothing ==   \* mutant: the file stays in the pending map
    /\ Committing("forget")
    /\ Done
    /\ UNCHANGED <<file, pending, disk, handle, queue, doc, saved, rough>>
Forget ==
    /\ Committing("forget")
    /\ pending' = [n \in Name |-> IF n = file[Item].name /\ pending[n] = Item THEN Nil
                                  ELSE pending[n]]
    /\ Done
    /\ UNCHANGED <<file, disk, handle, queue, doc, saved, rough>>

SyncStep ==
    \/ StartRound
    \/ Reindex
    \/ SkipMissing
    \/ SkipRemoved
    \/ Look
    \/ MoveRaises
    \/ Move
    \/ NoOwner
    \/ Insert
    \/ Forget

Call ==
    \/ \E n \in Name, h \in Handle : Create(n, h) \/ OpenPending(n, h) \/ OpenDoc(n, h)
    \/ \E h \in Handle : Write(h) \/ Release(h)
    \/ \E n \in Name : Unlink(n)
    \/ \E a, b \in Name : RenamePending(a, b) \/ RenameDoc(a, b)

Next == Call \/ SyncStep

Spec == Init /\ [][Next]_vars

-----------------------------------------------------------------------------
(* Properties                                                              *)

TypeOK ==
    /\ file \in [File -> [name : Name \cup {Nil}, moved : Doc \cup {Nil}, temp : BOOLEAN,
                          closed : BOOLEAN, deleted : BOOLEAN]]
    /\ pending \in [Name -> File \cup {Nil}]
    /\ \A n \in Name : pending[n] # Nil =>
          file[pending[n]].name = n /\ ~file[pending[n]].deleted
    /\ staging \in [Name -> File \cup {Nil}] /\ stored \in [Doc -> File \cup {Nil}]
    /\ data \in [File -> Text]
    /\ handle \in [Handle -> [kind : {"free", "staging", "db"}, of : File \cup Doc \cup {Nil},
                              inode : File \cup {Nil}, dirty : BOOLEAN]]
    /\ Range(queue) \cup Range(round) \subseteq {"file", "reindex"} \X (File \cup Doc)
    /\ step \in {"look", "move", "insert", "forget"}
    /\ doc \in [Doc -> [state : {"none", "path", "gone", "live", "deleted"}, name : Name \cup {Nil},
                        indexed : Text]]
    /\ saved \in [Name -> Text] /\ rough \subseteq Name

\* A text at least as new as t is there under the name n: in the document, or in
\* staging and on its way.
Catalogued(n, t) == \E d \in SameName(n) : stored[d] # Nil /\ data[stored[d]] >= t
Staged(n, t) == IsPending(n) /\ Inode(pending[n]) # Nil /\ data[Inode(pending[n])] >= t
Kept(n) == saved[n] # Nil => Staged(n, saved[n]) \/ Catalogued(n, saved[n])

\* A text that was written and closed under a name is there under that name, or a
\* newer one. (README: staging-based writes, compatible with any editor's save
\* pattern)
SavedTextIsKept == \A n \in Name \ Temp : Kept(n)

\* The names that the sync's assumptions hold for: a file in staging is not opened
\* again, nothing is renamed to a name in use or to a temporary one, a file of the
\* current round is neither renamed nor removed, its user is there.
Smooth == Name \ (Temp \cup rough)

\* A text that was closed under such a name is there under it, however saves,
\* renames and removals come between the steps of the sync. (release,
\* _commit_pending_sync)
SmoothTextIsKept == \A n \in Smooth : Kept(n)

\* A document that is not deleted has its file. (_commit_pending_sync, unlink)
LiveDocHasFile == \A d \in Doc : doc[d].state = "live" /\ doc[d].name \in Smooth => stored[d] # Nil

\* The sync has nothing to do.
Idle == round = <<>> /\ ReadyItems = {}

\* When the sync has nothing to do, what was saved is a document: nothing stays
\* in staging, where a restart would remove it. (_background_sync, release)
NothingStaysStaged ==
    Idle => \A n \in Smooth : saved[n] # Nil => Catalogued(n, saved[n])

\* When the sync has nothing to do and every file is closed, the last job of a
\* document was created after the last write to it. (release, _reindex_sync)
SearchSeesLastText ==
    Idle /\ Opened = {} =>
        \A d \in Doc : doc[d].state = "live" /\ doc[d].name \in Smooth =>
            doc[d].indexed = data[stored[d]]
=============================================================================
