----------------------------- MODULE FolderTree -----------------------------
(***************************************************************************)
(* Folders and the documents in them (routers/folders.py, the moves and    *)
(* the trash of routers/documents.py, mkdir, rmdir and rename of the       *)
(* network drive in fuse_server.py).                                       *)
(*                                                                         *)
(* A request is one database session: it reads row by row, other requests  *)
(* commit between its reads, and what it writes becomes visible in one     *)
(* step at its commit.  Whether the caller may do what he asks is an input *)
(* (Refused): a refused request ends without a write.                      *)
(***************************************************************************)
EXTENDS Naturals, FiniteSets, Sequences

CONSTANTS
  FolderIds,     \* ids of folder rows, those not used yet included
  Docs,          \* document rows
  Names,         \* names of folders
  Slots,         \* requests in flight at a time
  Title,         \* documents.title
  Root,          \* parent_id IS NULL, folder_id IS NULL
  Unused, Gone,  \* an id of which there is no row yet, no row any more (ids are not used again)
  Same,          \* a field that a request does not change: the ORM leaves its column out
  MaxRequests    \* bound: requests started in a behaviour

ASSUME FolderAssumption ==
  /\ FolderIds \cap {Root, Unused, Gone, Same} = {}
  /\ Root \notin {Unused, Gone, Same} /\ Unused \notin {Gone, Same} /\ Gone # Same
  /\ Same \notin Names
  /\ Names # {}
  /\ MaxRequests \in Nat

VARIABLES
  parent,     \* folders.parent_id, Unused or Gone for an id without a row
  name,       \* folders.name
  doc,        \* documents: folder_id, where the row stands, whether its file is on disk
  req,        \* what each request has read and is about to write
  started,    \* requests started so far
  blind,      \* history: a move was committed over a tree that other moves had changed
  torn        \* history: documents whose purge failed after it had unlinked the file

folderVars == <<parent, name, doc, req, started, blind, torn>>

-----------------------------------------------------------------------------
Folders == {f \in FolderIds : parent[f] \notin {Unused, Gone}}
\* Mutant: the foreign key holds for rows deleted meanwhile.
ExistedOnce(p) == p = Root \/ (p \in FolderIds /\ parent[p] # Unused)
Exists(p) == p = Root \/ p \in Folders
LiveDocs == {d \in Docs : doc[d].state = "live"}
TrashedDocs == {d \in Docs : doc[d].state = "trash"}
In(F) == {d \in LiveDocs : doc[d].home \in F}

\* The folder and all it lies in: the smallest set with it that is closed under parent.
Above(f) == {a \in FolderIds :
              \A S \in SUBSET FolderIds :
                 (f \in S /\ \A g \in S : parent[g] \in FolderIds => parent[g] \in S) => a \in S}
Below(f) == {g \in FolderIds : f \in Above(g)}

\* Every nonempty set of folders has one whose parent is outside it: no cycle.
Acyclic == \A S \in SUBSET FolderIds : S # {} => \E f \in S : parent[f] \notin S

\* uq_folder_parent_name: a NULL parent_id is never equal to another.
NameFree(f, p, n) == p = Root \/ \A g \in FolderIds \ {f} : ~(parent[g] = p /\ name[g] = n)

\* Documents a folder deletion has trashed and not committed: their rows are locked.
Locked(r) == UNION {req[s].held : s \in Slots \ {r}}

FolderIdle == [op |-> "none", pc |-> "idle", f |-> Root, p |-> Root,
               n |-> CHOOSE n \in Names : TRUE, at |-> Root, edges |-> {}, todo |-> {}, ids |-> {},
               held |-> {}, ds |-> {}, over |-> {}, parts |-> <<>>, made |-> <<>>, inside |-> {}]

MayStart(r) == req[r].pc = "idle" /\ started < MaxRequests

Start(r, fields) ==
  /\ MayStart(r)
  /\ started' = started + 1
  /\ req' = [req EXCEPT ![r] = fields]

End(r) == req' = [req EXCEPT ![r] = FolderIdle]

\* The folders of changed are moved or removed, the documents of touched are written: what
\* a deletion in flight found inside does not bind it any more where they were concerned.
EndTouching(r, changed, touched) ==
  req' = [s \in Slots |->
            IF s = r THEN FolderIdle
            ELSE [req[s] EXCEPT !.inside =
                    IF changed \cap req[s].ids # {} \/ changed \cap Below(req[s].f) # {}
                    THEN {} ELSE @ \ touched]]

FolderRows == <<parent, name, doc>>
FolderHistory == <<blind, torn>>

-----------------------------------------------------------------------------
(* POST /folders and mkdir of the drive                                    *)

CreateFolder(r, p, n) ==
  /\ Exists(p)
  /\ Start(r, [FolderIdle EXCEPT !.op = "create", !.pc = "commit", !.p = p, !.n = n])
  /\ UNCHANGED <<FolderRows, FolderHistory>>

\* The constraints of the table decide: the parent must still be there, its name free.
CreateCommit(r) ==
  /\ req[r].op = "create" /\ req[r].pc = "commit"
  /\ \/ /\ Exists(req[r].p)
        /\ NameFree(Root, req[r].p, req[r].n)
        /\ \E f \in FolderIds :
             /\ parent[f] = Unused
             /\ parent' = [parent EXCEPT ![f] = req[r].p]
             /\ name' = [name EXCEPT ![f] = req[r].n]
     \/ /\ ~(Exists(req[r].p) /\ NameFree(Root, req[r].p, req[r].n))
        /\ UNCHANGED <<parent, name>>
  /\ End(r)
  /\ UNCHANGED <<doc, started, FolderHistory>>

-----------------------------------------------------------------------------
(* POST /folders/bulk: the parts of one path, each looked up under the one *)
(* before; a part that is not there is made in the transaction.            *)

BulkStart(r, p, path) ==
  /\ Exists(p)
  /\ Start(r, [FolderIdle EXCEPT !.op = "bulk", !.pc = "part", !.p = p, !.at = p, !.parts = path])
  /\ UNCHANGED <<FolderRows, FolderHistory>>

\* at is the folder of the last part, Gone when it is one that this request makes.
BulkPart(r) ==
  LET q == req[r]
      found == {f \in Folders : parent[f] = q.at /\ name[f] = Head(q.parts)}
  IN /\ q.pc = "part"
     /\ \/ /\ Cardinality(found) > 1            \* scalar_one_or_none raises
           /\ End(r)
        \/ \E f \in found :
             /\ found = {f}
             /\ req' = [req EXCEPT ![r].at = f, ![r].parts = Tail(@),
                                   ![r].pc = IF Len(q.parts) = 1 THEN "commit" ELSE "part"]
        \/ /\ found = {}
           /\ req' = [req EXCEPT ![r].made = q.parts, ![r].parts = <<>>, ![r].pc = "commit"]
     /\ UNCHANGED <<FolderRows, started, FolderHistory>>

\* The new folders are a chain below at: nothing can lie under a folder that is not committed.
BulkCommit(r) ==
  LET q == req[r]
      fits == q.made # <<>> => Exists(q.at) /\ NameFree(Root, q.at, Head(q.made))
  IN /\ q.op = "bulk" /\ q.pc = "commit"
     /\ \/ /\ fits
           /\ \E c \in [1..Len(q.made) -> {f \in FolderIds : parent[f] = Unused}] :
                /\ \A i, j \in 1..Len(q.made) : c[i] = c[j] => i = j
                /\ parent' = [f \in FolderIds |->
                     IF \E i \in 1..Len(q.made) : c[i] = f
                     THEN LET i == CHOOSE i \in 1..Len(q.made) : c[i] = f
                          IN IF i = 1 THEN q.at ELSE c[i - 1]
                     ELSE parent[f]]
                /\ name' = [f \in FolderIds |->
                     IF \E i \in 1..Len(q.made) : c[i] = f
                     THEN q.made[CHOOSE i \in 1..Len(q.made) : c[i] = f] ELSE name[f]]
        \/ /\ ~fits
           /\ UNCHANGED <<parent, name>>
     /\ End(r)
     /\ UNCHANGED <<doc, started, FolderHistory>>

-----------------------------------------------------------------------------
(* PATCH /folders/{id}: a new name and a new parent; the ancestors of the  *)
(* new parent are read one by one (_check_no_cycle).                       *)

MoveStart(r, f, p, n) ==
  /\ f \in Folders /\ p # parent[f] /\ n # name[f]
  /\ p \in FolderIds => parent[p] # Unused
  /\ Start(r, [FolderIdle EXCEPT !.op = "move", !.f = f, !.p = p, !.n = n, !.at = p,
                                 !.pc = IF p \in {Root, Same} THEN "commit" ELSE "walk"])
  /\ UNCHANGED <<FolderRows, FolderHistory>>

Visited(q) == {e[1] : e \in q.edges}
\* Mutant: only a walk that comes back to where it was is refused.
CircleAbove(q) == q.at \in Visited(q)
Circle(q) == q.at = q.f \/ q.at \in Visited(q)

MoveWalk(r) ==
  LET q == req[r]
  IN /\ q.pc = "walk"
     /\ \/ /\ Circle(q)                                \* 400
           /\ End(r)
        \/ /\ ~Circle(q) /\ q.at \in Folders
           /\ req' = [req EXCEPT ![r].edges = @ \cup {<<q.at, parent[q.at]>>},
                                 ![r].at = parent[q.at],
                                 ![r].pc = IF parent[q.at] = Root THEN "commit" ELSE "walk"]
        \/ /\ ~Circle(q) /\ q.at \notin Folders         \* no such row: the walk ends, all is well
           /\ req' = [req EXCEPT ![r].pc = "commit"]
     /\ UNCHANGED <<FolderRows, started, FolderHistory>>

\* The kernel, which looked up the paths at some earlier time, refuses to move a directory
\* below itself; the server moves without a check.
DriveRename(r, f, p, n) ==
  /\ f \in Folders /\ p \in Folders \ {parent[f]} /\ f \notin Above(p)
  /\ Start(r, [FolderIdle EXCEPT !.op = "move", !.pc = "commit", !.f = f, !.p = p, !.n = n,
                           !.edges = {<<a, parent[a]>> : a \in Above(p)}])
  /\ UNCHANGED <<FolderRows, FolderHistory>>

\* Some folder on the way up has been moved elsewhere since it was read.
Outdated(q) == \E e \in q.edges : parent[e[1]] \in FolderIds /\ parent[e[1]] # e[2]

\* Mutant: a name that was not sent is written too.
AsSent(q) == q.n
\* model_dump(exclude_unset=True)
NewName(q) == IF q.n = Same THEN name[q.f] ELSE q.n
NewParent(q) == IF q.p = Same THEN parent[q.f] ELSE q.p

MoveCommit(r) ==
  LET q == req[r]
      p == NewParent(q)
      n == NewName(q)
      fits == q.f \in Folders /\ Exists(p) /\ NameFree(q.f, p, n)
  IN /\ q.op = "move" /\ q.pc = "commit"
     /\ \/ /\ fits
           /\ parent' = [parent EXCEPT ![q.f] = p]
           /\ name' = [name EXCEPT ![q.f] = n]
           /\ blind' = (blind \/ Outdated(q))
           /\ EndTouching(r, {q.f}, {})
        \/ /\ ~fits
           /\ End(r)
           /\ UNCHANGED <<parent, name, blind>>
     /\ UNCHANGED <<doc, started, torn>>

-----------------------------------------------------------------------------
(* DELETE /folders/{id}: the folders below are collected by reads, their   *)
(* documents are trashed by one UPDATE per folder, and the rows go at the  *)
(* commit.  rmdir of the drive is the same with an empty folder.           *)

DeleteStart(r, f) ==
  /\ f \in Folders
  /\ Start(r, [FolderIdle EXCEPT !.op = "delete", !.pc = "collect", !.f = f, !.todo = {f},
                           !.inside = In(Below(f))])
  /\ UNCHANGED <<FolderRows, FolderHistory>>

\* A folder found a second time is one that was moved meanwhile, or the way is a circle and
\* the recursion ends in an error.
DeleteCollect(r) ==
  LET q == req[r]
  IN /\ q.pc = "collect"
     /\ \E g \in q.todo :
          LET children == {c \in Folders : parent[c] = g}
              ids == q.ids \cup {g}
          IN \/ req' = [req EXCEPT ![r].ids = ids,
                          ![r].todo = IF (@ \ {g}) \cup (children \ ids) = {}
                                      THEN ids ELSE (@ \ {g}) \cup (children \ ids),
                          ![r].pc = IF (q.todo \ {g}) \cup (children \ ids) = {}
                                    THEN "trash" ELSE "collect"]
             \/ /\ children \cap ids # {}
                /\ End(r)
     /\ UNCHANGED <<FolderRows, started, FolderHistory>>

\* Mutant: only the documents of the folder itself go to the trash.
DeleteTrashTop(r) ==
  /\ req[r].pc = "trash"
  /\ In({req[r].f}) \cap Locked(r) = {}
  /\ req' = [req EXCEPT ![r].held = In({req[r].f}), ![r].todo = {}, ![r].pc = "commit"]
  /\ UNCHANGED <<FolderRows, started, FolderHistory>>

DeleteTrash(r) ==
  LET q == req[r]
  IN /\ q.pc = "trash"
     /\ \E g \in q.todo :
          /\ In({g}) \cap Locked(r) = {}
          /\ req' = [req EXCEPT ![r].held = @ \cup In({g}), ![r].todo = @ \ {g},
                                ![r].pc = IF q.todo = {g} THEN "commit" ELSE "trash"]
     /\ UNCHANGED <<FolderRows, started, FolderHistory>>

RmdirStart(r, f) ==
  /\ f \in Folders
  /\ \A g \in Folders : parent[g] # f
  /\ In({f}) = {}
  /\ Start(r, [FolderIdle EXCEPT !.op = "delete", !.pc = "commit", !.f = f, !.ids = {f}])
  /\ UNCHANGED <<FolderRows, FolderHistory>>

\* A folder that was put under them meanwhile becomes a root folder (the session sees it and
\* clears its parent_id) or goes with them (ON DELETE CASCADE); a document that came too
\* late keeps its state and loses its folder.
DeleteCommit(r) ==
  LET q == req[r]
      late == {c \in Folders \ q.ids : parent[c] \in q.ids}
  IN /\ q.op = "delete" /\ q.pc = "commit"
     /\ \E cascade \in SUBSET late :
          LET removed == (q.ids \cup UNION {Below(c) : c \in cascade}) \ (late \ cascade)
              homeless == {d \in Docs : doc[d].home \in removed}
          IN /\ homeless \cap Locked(r) = {}
             /\ parent' = [f \in FolderIds |->
                  IF f \in removed THEN Gone ELSE IF parent[f] \in removed THEN Root ELSE parent[f]]
             /\ doc' = [d \in Docs |->
                  [doc[d] EXCEPT !.state = IF d \in q.held THEN "trash" ELSE @,
                                 !.home = IF d \in homeless \cup q.held THEN Root ELSE @]]
             /\ EndTouching(r, removed \cup late, homeless \cup q.held)
     /\ UNCHANGED <<name, started, FolderHistory>>

-----------------------------------------------------------------------------
(* Documents: a new one in a folder, moves, the trash                      *)

Upload(r, d, p) ==
  /\ doc[d].state = "none"
  /\ \A s \in Slots : d \notin req[s].ds
  /\ Exists(p)
  /\ Start(r, [FolderIdle EXCEPT !.op = "upload", !.pc = "commit", !.p = p, !.ds = {d}])
  /\ UNCHANGED <<FolderRows, FolderHistory>>

\* DELETE /documents/{id} and the bulk action delete.
TrashDocs(r, ds) ==
  /\ ds \subseteq LiveDocs
  /\ Start(r, [FolderIdle EXCEPT !.op = "trash", !.pc = "commit", !.ds = ds])
  /\ UNCHANGED <<FolderRows, FolderHistory>>

RestoreDocs(r, ds) ==
  /\ ds \subseteq TrashedDocs
  /\ Start(r, [FolderIdle EXCEPT !.op = "restore", !.pc = "commit", !.ds = ds])
  /\ UNCHANGED <<FolderRows, FolderHistory>>

\* Bulk action move_to_folder: with overwrite, a document of the same title is trashed.
MoveDocs(r, ds, p, overwrite) ==
  /\ ds \subseteq LiveDocs \cup TrashedDocs
  /\ \A d \in ds : doc[d].home # p
  /\ Start(r, [FolderIdle EXCEPT !.op = "refile", !.pc = "commit", !.ds = ds, !.p = p,
        !.over = IF overwrite
                 THEN {v \in In({p}) \ ds : \E d \in ds : Title[v] = Title[d]} ELSE {}])
  /\ UNCHANGED <<FolderRows, FolderHistory>>

\* The writes of these four; a row that is gone by then fails the whole transaction.
WrittenDoc(q, d) ==
  CASE q.op = "upload"  -> [home |-> q.p, state |-> "live", file |-> TRUE]
    [] q.op = "trash"   -> [doc[d] EXCEPT !.state = "trash"]
    [] q.op = "restore" -> [doc[d] EXCEPT !.state = "live"]
    [] q.op = "refile"  -> IF d \in q.over THEN [doc[d] EXCEPT !.state = "trash"]
                           ELSE [doc[d] EXCEPT !.home = q.p]

DocsCommit(r) ==
  LET q == req[r]
      ds == q.ds \cup q.over
      fits == /\ q.op # "upload" => ds \subseteq LiveDocs \cup TrashedDocs
              /\ q.op \in {"upload", "refile"} => Exists(q.p)
  IN /\ q.op \in {"upload", "trash", "restore", "refile"} /\ q.pc = "commit"
     /\ ds \cap Locked(r) = {}
     /\ \/ /\ fits
           /\ doc' = [d \in Docs |-> IF d \in ds THEN WrittenDoc(q, d) ELSE doc[d]]
           /\ EndTouching(r, {}, ds)
        \/ /\ ~fits
           /\ End(r)
           /\ UNCHANGED doc
     /\ UNCHANGED <<parent, name, started, FolderHistory>>

PurgeStart(r, ds) ==
  /\ ds \subseteq TrashedDocs
  /\ Start(r, [FolderIdle EXCEPT !.op = "purge", !.pc = "unlink", !.ds = ds])
  /\ UNCHANGED <<FolderRows, FolderHistory>>

\* A file that cannot be removed is left where it is.
PurgeUnlink(r) ==
  LET q == req[r]
  IN /\ q.pc = "unlink"
     /\ \E left \in SUBSET q.ds :
          doc' = [d \in Docs |-> [doc[d] EXCEPT !.file = @ /\ d \notin q.ds \ left]]
     /\ req' = [req EXCEPT ![r].pc = "commit"]
     /\ UNCHANGED <<parent, name, started, FolderHistory>>

\* Mutant: a row restored meanwhile is left, though its file is unlinked.
PurgedIfTrashed(q, d) ==
  IF d \in q.ds /\ doc[d].state = "trash" THEN [doc[d] EXCEPT !.state = "gone"] ELSE doc[d]
PurgedRow(q, d) == IF d \in q.ds THEN [doc[d] EXCEPT !.state = "gone"] ELSE doc[d]

PurgeCommit(r) ==
  LET q == req[r]
  IN /\ q.op = "purge" /\ q.pc = "commit"
     /\ q.ds \cap Locked(r) = {}
     /\ doc' = [d \in Docs |-> PurgedRow(q, d)]
     /\ EndTouching(r, {}, q.ds)
     /\ UNCHANGED <<parent, name, started, FolderHistory>>

\* The backend stops, or the database refuses the audit rows or the commit: the rows come
\* back, the files do not.
PurgeFails(r) ==
  /\ req[r].op = "purge" /\ req[r].pc = "commit"
  /\ torn' = torn \cup req[r].ds
  /\ End(r)
  /\ UNCHANGED <<FolderRows, started, blind>>

\* 403, or a request that was about to commit and is rolled back.
Refused(r) ==
  /\ req[r].pc # "idle" /\ req[r].op # "purge"
  /\ End(r)
  /\ UNCHANGED <<FolderRows, started, FolderHistory>>

-----------------------------------------------------------------------------
FolderStart(r) ==
  \/ \E p \in FolderIds \cup {Root}, n \in Names : CreateFolder(r, p, n)
  \/ \E p \in FolderIds \cup {Root}, n, m \in Names :
       BulkStart(r, p, <<n>>) \/ BulkStart(r, p, <<n, m>>)
  \/ \E f \in FolderIds, p \in FolderIds \cup {Root} : MoveStart(r, f, p, Same)
  \/ \E f \in FolderIds, n \in Names : MoveStart(r, f, Same, n)
  \/ \E f, p \in FolderIds : DriveRename(r, f, p, Same)
  \/ \E f \in FolderIds : DeleteStart(r, f) \/ RmdirStart(r, f)
  \/ \E d \in Docs, p \in FolderIds \cup {Root} : Upload(r, d, p)
  \/ \E ds \in SUBSET Docs \ {{}} :
       \/ TrashDocs(r, ds) \/ RestoreDocs(r, ds) \/ PurgeStart(r, ds)
       \/ \E p \in FolderIds \cup {Root}, overwrite \in BOOLEAN : MoveDocs(r, ds, p, overwrite)

FolderStep(r) ==
  \/ CreateCommit(r)
  \/ BulkPart(r) \/ BulkCommit(r)
  \/ MoveWalk(r) \/ MoveCommit(r)
  \/ DeleteCollect(r) \/ DeleteTrash(r) \/ DeleteCommit(r)
  \/ DocsCommit(r)
  \/ PurgeUnlink(r) \/ PurgeCommit(r) \/ PurgeFails(r)
  \/ Refused(r)

FolderNext == \E r \in Slots : (MayStart(r) /\ FolderStart(r)) \/ FolderStep(r)

FolderInit ==
  /\ parent \in [FolderIds -> FolderIds \cup {Root, Unused}]
  /\ Acyclic
  /\ \A f \in FolderIds : parent[f] \in FolderIds => parent[f] \in Folders
  /\ name \in [FolderIds -> Names]
  /\ \A f \in Folders : NameFree(f, parent[f], name[f])
  /\ doc \in [Docs -> [home : Folders \cup {Root}, state : {"none", "live", "trash"},
                       file : {TRUE}]]
  /\ req = [r \in Slots |-> FolderIdle]
  /\ started = 0
  /\ blind = FALSE
  /\ torn = {}

FolderSpec == FolderInit /\ [][FolderNext]_folderVars

-----------------------------------------------------------------------------
(* Properties                                                              *)

\* The state of folders, documents and requests has its type.
FolderTypeOK ==
  /\ parent \in [FolderIds -> FolderIds \cup {Root, Unused, Gone}]
  /\ name \in [FolderIds -> Names]
  /\ doc \in [Docs -> [home : FolderIds \cup {Root}, state : {"none", "live", "trash", "gone"},
                       file : BOOLEAN]]
  /\ \A r \in Slots :
       /\ req[r].pc \in {"idle", "part", "walk", "collect", "trash", "unlink", "commit"}
       /\ req[r].ids \cup req[r].todo \subseteq FolderIds
       /\ req[r].held \cup req[r].ds \cup req[r].over \cup req[r].inside \subseteq Docs
       /\ req[r].edges \subseteq FolderIds \X (FolderIds \cup {Root})
  /\ started \in 0..MaxRequests
  /\ blind \in BOOLEAN
  /\ torn \subseteq Docs

\* Moves keep the folders a tree: as long as no move was committed over ancestors that
\* another request had moved since they were read (_check_no_cycle takes no lock, and the
\* drive relies on the kernel's older view), there is no circle.
MovesKeepATree == blind \/ Acyclic

\* Every live document, and every folder, can be found from the root, whatever is created,
\* moved or deleted around it; again as long as no move was committed blind.
NothingIsUnreachable ==
  blind \/ \A d \in LiveDocs :
             doc[d].home # Root =>
               /\ doc[d].home \in Folders
               /\ \E a \in Above(doc[d].home) : parent[a] = Root

\* A deletion takes the whole subtree to the trash: a document that lay in the folder or
\* below it when the request began, and that no other request has touched since, is in the
\* trash when it ends (delete_folder promises that nothing inside stays or is lost).
DeleteTakesTheSubtree ==
  [][\A r \in Slots :
       (req[r].op = "delete" /\ req[r].pc = "commit" /\ req'[r].pc = "idle" /\ parent' # parent) =>
         \A d \in req[r].inside : doc'[d].state = "trash"]_folderVars

\* A live document has its file.  The exception is a document restored after a purge
\* had read it in the trash: as long as that purge is under way, or when it has failed.
LiveMeansOnDisk ==
  \A d \in LiveDocs \ torn :
     doc[d].file \/ \E r \in Slots : req[r].op = "purge" /\ d \in req[r].ds

\* Whatever requests do at the same time, what is live can be found and read: the folders are a
\* tree, every live document hangs on it, and has its file.
LiveIsFoundAndRead == MovesKeepATree /\ NothingIsUnreachable /\ LiveMeansOnDisk
=============================================================================
