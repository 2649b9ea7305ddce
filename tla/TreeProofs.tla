------------------------------ MODULE TreeProofs ------------------------------
(***************************************************************************)
(* Proofs about the two trees, which share nothing.  FolderTree: the       *)
(* folders stay a tree, what is live can be found and read, and a deletion *)
(* takes its subtree.  NoteTree: every list shows all its notes, a walk up *)
(* does not turn back, and siblings are numbered as it was wanted.         *)
(* All for any number of rows and requests at the same time, and for paths *)
(* and rows of any length.                                                 *)
(***************************************************************************)
EXTENDS FolderTree, NoteTree, FiniteSetTheorems, SequenceTheorems, WellFoundedInduction, TLAPS

Absent == {Unused, Gone}
Places == FolderIds \cup {Root}
RequestSteps == {"idle", "part", "walk", "collect", "trash", "unlink", "commit"}
RequestKinds ==
  {"none", "create", "bulk", "move", "delete", "upload", "trash", "restore", "refile", "purge"}
FolderRequests ==
  [op : RequestKinds, pc : RequestSteps, f : Places, p : Places \cup {Same},
   n : Names \cup {Same}, at : Places \cup {Same} \cup Absent,
   edges : SUBSET (FolderIds \X Places), todo : SUBSET FolderIds, ids : SUBSET FolderIds,
   held : SUBSET Docs, ds : SUBSET Docs, over : SUBSET Docs, parts : Seq(Names),
   made : Seq(Names), inside : SUBSET Docs]
DocStates == [home : Places, state : {"none", "live", "trash", "gone"}, file : BOOLEAN]

FolderShape ==
  /\ parent \in [FolderIds -> Places \cup Absent]
  /\ name \in [FolderIds -> Names]
  /\ doc \in [Docs -> DocStates]
  /\ started \in 0..MaxRequests
  /\ blind \in BOOLEAN /\ torn \subseteq Docs
  /\ \A f \in Folders : Exists(parent[f])
  /\ \A d \in Docs : Exists(doc[d].home)

\* A move below a folder has read the way up from it and not come by the folder that it moves.
\* The way ends at the root, at a folder that is gone, or it turns back.
WayFits(q) ==
  /\ q.f \notin Visited(q) /\ q.p \in Visited(q) \cup {q.at}
  /\ \A e \in q.edges : e[2] \in Visited(q) \cup {Root, q.at}
  /\ q.pc = "walk" => q.at \in FolderIds /\ parent[q.at] # Unused
  /\ q.pc = "commit" => \/ q.at \in Visited(q) \cup {Root}
                        \/ q.at \in FolderIds /\ parent[q.at] = Gone

RequestFits(q) ==
  /\ q.pc = "idle" => q.op = "none"
  /\ q.pc = "walk" => q.op = "move" /\ q.p \in FolderIds
  /\ q.op = "move" => q.f \in FolderIds /\ q.pc \in {"walk", "commit"}
  /\ q.op = "move" /\ q.p \in FolderIds => WayFits(q)
  /\ q.pc = "unlink" => q.op = "purge"
  /\ q.op \in {"upload", "refile"} => q.p # Same
  /\ q.op = "create" => q.p \in Places /\ q.n \in Names
  /\ q.op = "bulk" => q.at \in Places
  /\ q.pc = "part" => q.op = "bulk" /\ q.parts # <<>>
  /\ q.pc \in {"collect", "trash"} => q.op = "delete"
  /\ \A d \in q.held : q.op = "delete" /\ doc[d].state # "gone"

\* Whose row is not gone has its file, unless its purge is under way or has failed.
FilesFit ==
  \A d \in Docs \ torn :
     doc[d].state # "gone" =>
       doc[d].file \/ \E r \in Slots : req[r].op = "purge" /\ d \in req[r].ds

TreeInv ==
  /\ FolderShape
  /\ req \in [Slots -> FolderRequests]
  /\ \A r \in Slots : RequestFits(req[r])
  /\ MovesKeepATree
  /\ FilesFit

-----------------------------------------------------------------------------
(* Requests                                                                *)

LEMMA IdleFits == FolderIdle \in FolderRequests /\ RequestFits(FolderIdle)
<1>1. (CHOOSE n \in Names : TRUE) \in Names
  BY FolderAssumption
<1>2. FolderIdle \in FolderRequests
  BY <1>1 DEF FolderIdle, FolderRequests, RequestKinds, RequestSteps, Places
<1>3. /\ FolderIdle.op = "none" /\ FolderIdle.pc = "idle" /\ FolderIdle.held = {}
  BY DEF FolderIdle
<1> QED  BY <1>2, <1>3 DEF RequestFits

\* A request begins or reads; no row changes.
LEMMA RequestReads ==
    ASSUME TreeInv, NEW r \in Slots, NEW q \in FolderRequests, RequestFits(q),
           req' = [req EXCEPT ![r] = q], UNCHANGED <<FolderRows, FolderHistory>>,
           started' \in 0..MaxRequests,
           req[r].op = "purge" => q.op = "purge" /\ q.ds = req[r].ds
    PROVE  TreeInv'
<1> USE DEF FolderRows, FolderHistory
<1>1. FolderShape' /\ MovesKeepATree'
  BY DEF TreeInv, FolderShape, Folders, Exists, MovesKeepATree, Acyclic
<1>2. req' \in [Slots -> FolderRequests] /\ req'[r] = q /\ \A s \in Slots \ {r} : req'[s] = req[s]
  BY DEF TreeInv
<1>3. ASSUME NEW s \in Slots PROVE RequestFits(req[s])' 
  <2>1. RequestFits(req'[s])
    BY <1>2 DEF TreeInv
  <2> QED  BY <2>1 DEF RequestFits, WayFits, Visited
<1>4. FilesFit'
  BY <1>2 DEF TreeInv, FilesFit
<1> QED  BY <1>1, <1>2, <1>3, <1>4 DEF TreeInv

\* How a request starts.
LEMMA RequestStarts ==
    ASSUME TreeInv, NEW r \in Slots, NEW q \in FolderRequests, RequestFits(q), Start(r, q),
           UNCHANGED <<FolderRows, FolderHistory>>
    PROVE  TreeInv'
<1>1. req' = [req EXCEPT ![r] = q] /\ started' = started + 1 /\ started < MaxRequests
  BY DEF Start, MayStart
<1>2. started' \in 0..MaxRequests
  BY <1>1, FolderAssumption DEF TreeInv, FolderShape
<1>3. req[r].op = "none"
  BY DEF TreeInv, RequestFits, Start, MayStart
<1> QED  BY <1>1, <1>2, <1>3, RequestReads

-----------------------------------------------------------------------------
(* Ways up                                                                 *)

\* The folders above one that is there are there.
LEMMA AboveIsThere ==
    ASSUME FolderShape, NEW f \in Folders
    PROVE  /\ Above(f) \subseteq Folders /\ f \in Above(f)
           /\ \A a \in Above(f) : parent[a] \in Places
           /\ \A a \in Above(f) : parent[a] \in FolderIds => parent[a] \in Above(f)
<1>1. /\ Folders \in SUBSET FolderIds
      /\ \A g \in Folders : parent[g] \in FolderIds => parent[g] \in Folders
  BY FolderAssumption DEF FolderShape, Folders, Exists
<1>2. Above(f) \subseteq Folders
  BY <1>1 DEF Above
<1>3. f \in Above(f)
  BY DEF Above, Folders
<1>4. \A a \in Above(f) : parent[a] \in FolderIds => parent[a] \in Above(f)
  BY DEF Above
<1> QED  BY <1>2, <1>3, <1>4 DEF FolderShape, Folders, Absent

-----------------------------------------------------------------------------
(* Requests begin                                                          *)

LEMMA CreateFolderFits ==
    ASSUME TreeInv, NEW r \in Slots, NEW p \in Places, NEW n \in Names, CreateFolder(r, p, n)
    PROVE  TreeInv'
<1> DEFINE q == [FolderIdle EXCEPT !.op = "create", !.pc = "commit", !.p = p, !.n = n]
<1>1. q \in FolderRequests
  BY IdleFits DEF FolderRequests, RequestKinds, RequestSteps
<1>2. q.op = "create" /\ q.pc = "commit" /\ q.p = p /\ q.n = n /\ q.held = {}
  BY DEF FolderIdle
<1> HIDE DEF q
<1>3. RequestFits(q)
  BY <1>2 DEF RequestFits
<1>4. Start(r, q) /\ UNCHANGED <<FolderRows, FolderHistory>>
  BY DEF CreateFolder, q
<1> QED  BY <1>1, <1>3, <1>4, RequestStarts

LEMMA BulkStartFits ==
    ASSUME TreeInv, NEW r \in Slots, NEW p \in Places, NEW path \in Seq(Names), path # <<>>,
           BulkStart(r, p, path)
    PROVE  TreeInv'
<1> DEFINE q == [FolderIdle EXCEPT !.op = "bulk", !.pc = "part", !.p = p, !.at = p,
                                   !.parts = path]
<1>1. q \in FolderRequests
  BY IdleFits DEF FolderRequests, RequestKinds, RequestSteps
<1>2. q.op = "bulk" /\ q.pc = "part" /\ q.at = p /\ q.parts = path /\ q.held = {}
  BY DEF FolderIdle
<1> HIDE DEF q
<1>3. RequestFits(q)
  BY <1>2 DEF RequestFits
<1>4. Start(r, q) /\ UNCHANGED <<FolderRows, FolderHistory>>
  BY DEF BulkStart, q
<1> QED  BY <1>1, <1>3, <1>4, RequestStarts

LEMMA MoveStartFits ==
    ASSUME TreeInv, NEW r \in Slots, NEW f \in FolderIds, NEW p \in Places \cup {Same},
           NEW n \in Names \cup {Same}, MoveStart(r, f, p, n)
    PROVE  TreeInv'
<1> DEFINE q == [FolderIdle EXCEPT !.op = "move", !.f = f, !.p = p, !.n = n, !.at = p,
                                   !.pc = IF p \in {Root, Same} THEN "commit" ELSE "walk"]
<1>1. q \in FolderRequests
  <2> DEFINE step == IF p \in {Root, Same} THEN "commit" ELSE "walk"
  <2>1. step \in RequestSteps /\ "move" \in RequestKinds /\ f \in Places
    BY DEF RequestSteps, RequestKinds, Places
  <2>2. p \in Places \cup {Same} \cup Absent
    OBVIOUS
  <2> HIDE DEF step
  <2>3. [FolderIdle EXCEPT !.op = "move", !.f = f, !.p = p, !.n = n, !.at = p, !.pc = step]
          \in FolderRequests
    BY <2>1, <2>2, IdleFits DEF FolderRequests
  <2> QED  BY <2>3 DEF step
<1>2. /\ q.op = "move" /\ q.pc = IF p \in {Root, Same} THEN "commit" ELSE "walk"
      /\ q.f = f /\ q.p = p /\ q.at = p /\ q.held = {} /\ q.edges = {}
  BY DEF FolderIdle
<1> HIDE DEF q
<1>3. p \in FolderIds => q.pc = "walk" /\ parent[p] # Unused
  BY <1>2, FolderAssumption DEF MoveStart
<1>4. RequestFits(q)
  BY <1>2, <1>3 DEF RequestFits, WayFits, Visited, Places
<1>5. Start(r, q) /\ UNCHANGED <<FolderRows, FolderHistory>>
  BY DEF MoveStart, q
<1> QED  BY <1>1, <1>4, <1>5, RequestStarts

LEMMA DriveRenameFits ==
    ASSUME TreeInv, NEW r \in Slots, NEW f \in FolderIds, NEW p \in FolderIds,
           NEW n \in Names \cup {Same}, DriveRename(r, f, p, n)
    PROVE  TreeInv'
<1> DEFINE way == {<<a, parent[a]>> : a \in Above(p)}
           q == [FolderIdle EXCEPT !.op = "move", !.pc = "commit", !.f = f, !.p = p, !.n = n,
                                   !.edges = way]
<1>1. p \in Folders /\ f \notin Above(p) /\ FolderShape
  BY DEF DriveRename, TreeInv
<1>2. /\ Above(p) \subseteq FolderIds /\ p \in Above(p)
      /\ \A a \in Above(p) : parent[a] \in Places
      /\ \A a \in Above(p) : parent[a] \in FolderIds => parent[a] \in Above(p)
  BY <1>1, AboveIsThere DEF Folders
<1>3. way \subseteq FolderIds \X Places
  BY <1>2
<1>4. /\ \A x : x \in {e[1] : e \in way} <=> x \in Above(p)
      /\ \A e \in way : e[2] \in Above(p) \cup {Root}
  <2>1. \A e \in way : e[1] \in Above(p) /\ e[2] = parent[e[1]]
    OBVIOUS
  <2>2. ASSUME NEW a \in Above(p) PROVE \E e \in way : e[1] = a
    <3>1. <<a, parent[a]>> \in way
      OBVIOUS
    <3> QED  BY <3>1
  <2> HIDE DEF way
  <2> QED  BY <1>2, <2>1, <2>2 DEF Places
<1> HIDE DEF way
<1>5. q \in FolderRequests
  <2>1. "commit" \in RequestSteps /\ "move" \in RequestKinds /\ f \in Places /\ p \in Places
    BY DEF RequestSteps, RequestKinds, Places
  <2>2. way \in SUBSET (FolderIds \X Places)
    BY <1>3
  <2> QED  BY <2>1, <2>2, IdleFits DEF FolderRequests
<1>6. /\ q.op = "move" /\ q.pc = "commit" /\ q.f = f /\ q.p = p /\ q.at = Root /\ q.held = {}
      /\ q.edges = way
  BY DEF FolderIdle
<1>7. Start(r, q) /\ UNCHANGED <<FolderRows, FolderHistory>>
  BY DEF DriveRename, way
<1> HIDE DEF q
<1>8. WayFits(q)
  BY <1>1, <1>2, <1>4, <1>6 DEF WayFits, Visited
<1>9. RequestFits(q)
  BY <1>6, <1>8 DEF RequestFits
<1> QED  BY <1>5, <1>7, <1>9, RequestStarts

LEMMA DeleteStartFits ==
    ASSUME TreeInv, NEW r \in Slots, NEW f \in FolderIds, DeleteStart(r, f)
    PROVE  TreeInv'
<1> DEFINE q == [FolderIdle EXCEPT !.op = "delete", !.pc = "collect", !.f = f, !.todo = {f},
                                   !.inside = In(Below(f))]
<1>1. In(Below(f)) \subseteq Docs
  BY DEF In, LiveDocs
<1>2. q \in FolderRequests
  BY <1>1, IdleFits DEF FolderRequests, RequestKinds, RequestSteps, Places
<1>3. q.op = "delete" /\ q.pc = "collect" /\ q.held = {}
  BY DEF FolderIdle
<1>4. Start(r, q) /\ UNCHANGED <<FolderRows, FolderHistory>>
  BY DEF DeleteStart
<1> HIDE DEF q
<1>5. RequestFits(q)
  BY <1>3 DEF RequestFits
<1> QED  BY <1>2, <1>4, <1>5, RequestStarts

LEMMA RmdirStartFits ==
    ASSUME TreeInv, NEW r \in Slots, NEW f \in FolderIds, RmdirStart(r, f)
    PROVE  TreeInv'
<1> DEFINE q == [FolderIdle EXCEPT !.op = "delete", !.pc = "commit", !.f = f, !.ids = {f}]
<1>1. q \in FolderRequests
  BY IdleFits DEF FolderRequests, RequestKinds, RequestSteps, Places
<1>2. q.op = "delete" /\ q.pc = "commit" /\ q.held = {}
  BY DEF FolderIdle
<1>3. Start(r, q) /\ UNCHANGED <<FolderRows, FolderHistory>>
  BY DEF RmdirStart
<1> HIDE DEF q
<1>4. RequestFits(q)
  BY <1>2 DEF RequestFits
<1> QED  BY <1>1, <1>3, <1>4, RequestStarts

\* The requests about documents.
LEMMA DocsStartFits ==
    ASSUME TreeInv, NEW r \in Slots, NEW q \in FolderRequests,
           q.op \in {"upload", "trash", "restore", "refile", "purge"},
           q.pc = "commit" \/ (q.pc = "unlink" /\ q.op = "purge"), q.held = {}, q.p \in Places,
           Start(r, q), UNCHANGED <<FolderRows, FolderHistory>>
    PROVE  TreeInv'
<1>1. RequestFits(q)
  BY FolderAssumption DEF RequestFits, Places
<1> QED  BY <1>1, RequestStarts

LEMMA FolderStartFits ==
    ASSUME TreeInv, NEW r \in Slots, FolderStart(r)
    PROVE  TreeInv'
<1>1. /\ "commit" \in RequestSteps /\ "unlink" \in RequestSteps
      /\ {"upload", "trash", "restore", "refile", "purge"} \subseteq RequestKinds
      /\ Root \in Places /\ FolderIdle.p = Root /\ FolderIdle.held = {}
  BY DEF RequestSteps, RequestKinds, Places, FolderIdle
<1>2. ASSUME NEW p \in FolderIds \cup {Root}, NEW n \in Names, CreateFolder(r, p, n) PROVE TreeInv'
  BY <1>2, CreateFolderFits DEF Places
<1>3. ASSUME NEW p \in FolderIds \cup {Root}, NEW n \in Names, NEW m \in Names,
             BulkStart(r, p, <<n>>) \/ BulkStart(r, p, <<n, m>>)
      PROVE  TreeInv'
  <2>1. <<n>> \in Seq(Names) /\ <<n>> # <<>> /\ <<n, m>> \in Seq(Names) /\ <<n, m>> # <<>>
    OBVIOUS
  <2> QED  BY <1>3, <2>1, BulkStartFits DEF Places
<1>4. ASSUME NEW f \in FolderIds,
             \/ \E p \in FolderIds \cup {Root} : MoveStart(r, f, p, Same)
             \/ \E n \in Names : MoveStart(r, f, Same, n)
             \/ \E p \in FolderIds : DriveRename(r, f, p, Same)
      PROVE  TreeInv'
  BY <1>4, MoveStartFits, DriveRenameFits DEF Places
<1>5. ASSUME NEW f \in FolderIds, DeleteStart(r, f) \/ RmdirStart(r, f) PROVE TreeInv'
  BY <1>5, DeleteStartFits, RmdirStartFits
<1>6. ASSUME NEW d \in Docs, NEW p \in FolderIds \cup {Root}, Upload(r, d, p) PROVE TreeInv'
  <2> DEFINE q == [FolderIdle EXCEPT !.op = "upload", !.pc = "commit", !.p = p, !.ds = {d}]
  <2>1. q \in FolderRequests
    BY <1>1, IdleFits DEF FolderRequests, Places
  <2>2. q.op = "upload" /\ q.pc = "commit" /\ q.held = {} /\ q.p \in Places
    BY <1>1 DEF FolderIdle, Places
  <2>3. Start(r, q) /\ UNCHANGED <<FolderRows, FolderHistory>>
    BY <1>6 DEF Upload
  <2> HIDE DEF q
  <2> QED  BY <2>1, <2>2, <2>3, DocsStartFits
<1>7. ASSUME NEW ds \in SUBSET Docs, TrashDocs(r, ds) PROVE TreeInv'
  <2> DEFINE q == [FolderIdle EXCEPT !.op = "trash", !.pc = "commit", !.ds = ds]
  <2>1. q \in FolderRequests
    BY <1>1, IdleFits DEF FolderRequests
  <2>2. q.op = "trash" /\ q.pc = "commit" /\ q.held = {} /\ q.p \in Places
    BY <1>1 DEF FolderIdle
  <2>3. Start(r, q) /\ UNCHANGED <<FolderRows, FolderHistory>>
    BY <1>7 DEF TrashDocs
  <2> HIDE DEF q
  <2> QED  BY <2>1, <2>2, <2>3, DocsStartFits
<1>8. ASSUME NEW ds \in SUBSET Docs, RestoreDocs(r, ds) PROVE TreeInv'
  <2> DEFINE q == [FolderIdle EXCEPT !.op = "restore", !.pc = "commit", !.ds = ds]
  <2>1. q \in FolderRequests
    BY <1>1, IdleFits DEF FolderRequests
  <2>2. q.op = "restore" /\ q.pc = "commit" /\ q.held = {} /\ q.p \in Places
    BY <1>1 DEF FolderIdle
  <2>3. Start(r, q) /\ UNCHANGED <<FolderRows, FolderHistory>>
    BY <1>8 DEF RestoreDocs
  <2> HIDE DEF q
  <2> QED  BY <2>1, <2>2, <2>3, DocsStartFits
<1>9. ASSUME NEW ds \in SUBSET Docs, PurgeStart(r, ds) PROVE TreeInv'
  <2> DEFINE q == [FolderIdle EXCEPT !.op = "purge", !.pc = "unlink", !.ds = ds]
  <2>1. q \in FolderRequests
    BY <1>1, IdleFits DEF FolderRequests
  <2>2. q.op = "purge" /\ q.pc = "unlink" /\ q.held = {} /\ q.p \in Places
    BY <1>1 DEF FolderIdle
  <2>3. Start(r, q) /\ UNCHANGED <<FolderRows, FolderHistory>>
    BY <1>9 DEF PurgeStart
  <2> HIDE DEF q
  <2> QED  BY <2>1, <2>2, <2>3, DocsStartFits
<1>10. ASSUME NEW ds \in SUBSET Docs, NEW p \in FolderIds \cup {Root}, NEW overwrite \in BOOLEAN,
              MoveDocs(r, ds, p, overwrite)
       PROVE  TreeInv'
  <2> DEFINE over == IF overwrite
                     THEN {v \in In({p}) \ ds : \E d \in ds : Title[v] = Title[d]} ELSE {}
             q == [FolderIdle EXCEPT !.op = "refile", !.pc = "commit", !.ds = ds, !.p = p,
                                     !.over = over]
  <2>1. over \in SUBSET Docs
    BY DEF In, LiveDocs
  <2> HIDE DEF over
  <2>2. q \in FolderRequests
    BY <1>1, <2>1, IdleFits DEF FolderRequests, Places
  <2>3. q.op = "refile" /\ q.pc = "commit" /\ q.held = {} /\ q.p \in Places
    BY <1>1 DEF FolderIdle, Places
  <2>4. Start(r, q) /\ UNCHANGED <<FolderRows, FolderHistory>>
    BY <1>10 DEF MoveDocs, over
  <2> HIDE DEF q
  <2> QED  BY <2>2, <2>3, <2>4, DocsStartFits
<1> QED  BY <1>2, <1>3, <1>4, <1>5, <1>6, <1>7, <1>8, <1>9, <1>10 DEF FolderStart

-----------------------------------------------------------------------------
(* Requests read                                                           *)

LEMMA RefusedFits ==
    ASSUME TreeInv, NEW r \in Slots, req[r].op # "purge", End(r),
           UNCHANGED <<FolderRows, started, FolderHistory>>
    PROVE  TreeInv'
<1>1. started' \in 0..MaxRequests
  BY DEF TreeInv, FolderShape
<1> QED  BY <1>1, IdleFits, RequestReads DEF End

LEMMA EmptyIs ==
    ASSUME NEW S, NEW s \in Seq(S)
    PROVE  s = <<>> <=> Len(s) = 0
OBVIOUS

LEMMA BulkPartFits ==
    ASSUME TreeInv, NEW r \in Slots, BulkPart(r)
    PROVE  TreeInv'
<1> DEFINE q == req[r]
           found == {f \in Folders : parent[f] = q.at /\ name[f] = Head(q.parts)}
<1>1. q.pc = "part" /\ UNCHANGED <<FolderRows, started, FolderHistory>>
  BY DEF BulkPart
<1>2. q \in FolderRequests /\ RequestFits(q) /\ started' \in 0..MaxRequests
  BY <1>1 DEF TreeInv, FolderShape
<1>3. q.op = "bulk" /\ q.parts \in Seq(Names) /\ q.parts # <<>>
  BY <1>1, <1>2 DEF RequestFits, FolderRequests
<1>4. CASE End(r)
  BY <1>1, <1>3, <1>4, RefusedFits
<1>5. ASSUME NEW f \in found,
             req' = [req EXCEPT ![r].at = f, ![r].parts = Tail(@),
                                ![r].pc = IF Len(q.parts) = 1 THEN "commit" ELSE "part"]
      PROVE  TreeInv'
  <2> DEFINE step == IF Len(q.parts) = 1 THEN "commit" ELSE "part"
             t == [q EXCEPT !.at = f, !.parts = Tail(@), !.pc = step]
  <2>1. step \in RequestSteps /\ Tail(q.parts) \in Seq(Names) /\ f \in Places
    BY <1>3, <1>5 DEF RequestSteps, Folders, Places
  <2>2. step = "part" => Tail(q.parts) # <<>>
    <3>1. Len(q.parts) \in Nat /\ Len(q.parts) # 0 /\ Len(Tail(q.parts)) = Len(q.parts) - 1
      BY <1>3
    <3>2. ASSUME Tail(q.parts) = <<>> PROVE Len(q.parts) = 1
      <4>1. Len(Tail(q.parts)) = 0
        BY <2>1, <3>2, EmptyIs
      <4> QED  BY <3>1, <4>1
    <3> QED  BY <3>2
  <2>3. step \in {"part", "commit"}
    OBVIOUS
  <2>4. req' = [req EXCEPT ![r] = t]
    BY <1>5 DEF TreeInv
  <2> HIDE DEF step
  <2>5. t \in FolderRequests
    BY <1>2, <2>1 DEF FolderRequests
  <2>6. t.op = "bulk" /\ t.pc = step /\ t.at = f /\ t.parts = Tail(q.parts) /\ t.held = q.held
    BY <1>2, <1>3 DEF FolderRequests
  <2> HIDE DEF t
  <2>7. RequestFits(t)
    BY <1>2, <1>3, <2>1, <2>2, <2>3, <2>6 DEF RequestFits
  <2> QED  BY <1>1, <1>2, <1>3, <2>4, <2>5, <2>7, RequestReads
<1>6. CASE req' = [req EXCEPT ![r].made = q.parts, ![r].parts = <<>>, ![r].pc = "commit"]
  <2> DEFINE t == [q EXCEPT !.made = q.parts, !.parts = <<>>, !.pc = "commit"]
  <2>1. req' = [req EXCEPT ![r] = t]
    BY <1>6 DEF TreeInv
  <2>2. t \in FolderRequests
    <3>1. <<>> \in Seq(Names) /\ "commit" \in RequestSteps
      BY DEF RequestSteps
    <3> QED  BY <1>2, <1>3, <3>1 DEF FolderRequests
  <2>3. t.op = "bulk" /\ t.pc = "commit" /\ t.at = q.at /\ t.held = q.held
    BY <1>2, <1>3 DEF FolderRequests
  <2> HIDE DEF t
  <2>4. RequestFits(t)
    BY <1>2, <1>3, <2>3 DEF RequestFits
  <2> QED  BY <1>1, <1>2, <1>3, <2>1, <2>2, <2>4, RequestReads
<1> QED  BY <1>4, <1>5, <1>6 DEF BulkPart

LEMMA MoveWalkFits ==
    ASSUME TreeInv, NEW r \in Slots, MoveWalk(r)
    PROVE  TreeInv'
<1> DEFINE q == req[r]
<1>1. q.pc = "walk" /\ UNCHANGED <<FolderRows, started, FolderHistory>>
  BY DEF MoveWalk
<1>2. q \in FolderRequests /\ RequestFits(q) /\ started' \in 0..MaxRequests /\ FolderShape
  BY <1>1 DEF TreeInv, FolderShape
<1>3. /\ q.op = "move" /\ q.p \in FolderIds /\ WayFits(q) /\ q.f \in FolderIds
      /\ q.at \in FolderIds /\ parent[q.at] # Unused /\ q.held = {}
  BY <1>1, <1>2 DEF RequestFits, WayFits
<1>4. CASE End(r)
  BY <1>1, <1>3, <1>4, RefusedFits
<1>5. CASE /\ ~Circle(q) /\ q.at \in Folders
           /\ req' = [req EXCEPT ![r].edges = @ \cup {<<q.at, parent[q.at]>>},
                                 ![r].at = parent[q.at],
                                 ![r].pc = IF parent[q.at] = Root THEN "commit" ELSE "walk"]
  <2> DEFINE step == IF parent[q.at] = Root THEN "commit" ELSE "walk"
             last == <<q.at, parent[q.at]>>
             t == [q EXCEPT !.edges = @ \cup {last}, !.at = parent[q.at], !.pc = step]
  <2>1. /\ parent[q.at] \in Places /\ last \in FolderIds \X Places
        /\ last[1] = q.at /\ last[2] = parent[q.at]
        /\ parent[q.at] # Root => parent[q.at] \in FolderIds /\ parent[parent[q.at]] # Unused
    BY <1>2, <1>3, <1>5 DEF FolderShape, Folders, Exists, Places
  <2>2. step \in RequestSteps /\ step = IF parent[q.at] = Root THEN "commit" ELSE "walk"
    BY DEF RequestSteps
  <2>3. req' = [req EXCEPT ![r] = t]
    BY <1>5 DEF TreeInv
  <2> HIDE DEF step, last
  <2>4. t \in FolderRequests
    <3>1. q.edges \cup {last} \in SUBSET (FolderIds \X Places)
      BY <1>2, <2>1 DEF FolderRequests
    <3>2. parent[q.at] \in Places \cup {Same} \cup Absent
      BY <2>1
    <3> QED  BY <1>2, <2>2, <3>1, <3>2 DEF FolderRequests
  <2>5. /\ t.op = "move" /\ t.f = q.f /\ t.p = q.p /\ t.held = {} /\ t.pc = step
        /\ t.at = parent[q.at] /\ t.edges = q.edges \cup {last}
    BY <1>2, <1>3 DEF FolderRequests
  <2> HIDE DEF t
  <2>6. \A x : x \in Visited(t) <=> x \in Visited(q) \/ x = q.at
    <3>1. \A x : x \in Visited(t) <=> \E e \in t.edges : e[1] = x
      BY DEF Visited
    <3>2. \A x : x \in Visited(q) <=> \E e \in q.edges : e[1] = x
      BY DEF Visited
    <3> QED  BY <2>1, <2>5, <3>1, <3>2
  <2>7. \A e \in t.edges : e[2] \in Visited(t) \cup {Root, t.at}
    BY <1>3, <2>1, <2>5, <2>6 DEF WayFits
  <2>8. WayFits(t)
    BY <1>3, <1>5, <2>1, <2>2, <2>5, <2>6, <2>7 DEF WayFits, Circle
  <2>9. RequestFits(t)
    BY <1>3, <2>2, <2>5, <2>8 DEF RequestFits
  <2> QED  BY <1>1, <1>2, <1>3, <2>3, <2>4, <2>9, RequestReads
<1>6. CASE ~Circle(q) /\ q.at \notin Folders /\ req' = [req EXCEPT ![r].pc = "commit"]
  <2> DEFINE t == [q EXCEPT !.pc = "commit"]
  <2>1. req' = [req EXCEPT ![r] = t] /\ parent[q.at] = Gone
    BY <1>3, <1>6 DEF TreeInv, Folders
  <2>2. t \in FolderRequests
    BY <1>2 DEF FolderRequests, RequestSteps
  <2>3. /\ t.op = "move" /\ t.f = q.f /\ t.p = q.p /\ t.held = {} /\ t.pc = "commit"
        /\ t.at = q.at /\ t.edges = q.edges
    BY <1>2, <1>3 DEF FolderRequests
  <2> HIDE DEF t
  <2>4. RequestFits(t)
    BY <1>3, <2>1, <2>3 DEF RequestFits, WayFits, Visited
  <2> QED  BY <1>1, <1>2, <1>3, <2>1, <2>2, <2>4, RequestReads
<1> QED  BY <1>4, <1>5, <1>6 DEF MoveWalk

LEMMA DeleteCollectFits ==
    ASSUME TreeInv, NEW r \in Slots, DeleteCollect(r)
    PROVE  TreeInv'
<1> DEFINE q == req[r]
<1>1. q.pc = "collect" /\ UNCHANGED <<FolderRows, started, FolderHistory>>
  BY DEF DeleteCollect
<1>2. /\ q \in FolderRequests /\ RequestFits(q) /\ started' \in 0..MaxRequests
      /\ q.op = "delete"
  BY <1>1 DEF TreeInv, FolderShape, RequestFits
<1>3. CASE End(r)
  BY <1>1, <1>2, <1>3, RefusedFits
<1>4. ASSUME NEW ids \in SUBSET FolderIds, NEW todo \in SUBSET FolderIds,
             NEW step \in {"trash", "collect"},
             req' = [req EXCEPT ![r].ids = ids, ![r].todo = todo, ![r].pc = step]
      PROVE  TreeInv'
  <2> DEFINE t == [q EXCEPT !.ids = ids, !.todo = todo, !.pc = step]
  <2>1. req' = [req EXCEPT ![r] = t] /\ step \in RequestSteps
    BY <1>4 DEF TreeInv, RequestSteps
  <2>2. t \in FolderRequests
    BY <1>2, <2>1 DEF FolderRequests
  <2>3. t.op = "delete" /\ t.held = q.held /\ t.pc = step
    BY <1>2 DEF FolderRequests
  <2> HIDE DEF t
  <2>4. RequestFits(t)
    BY <1>2, <2>3 DEF RequestFits
  <2> QED  BY <1>1, <1>2, <2>1, <2>2, <2>4, RequestReads
<1>5. ASSUME ~End(r) PROVE TreeInv'
  <2>1. PICK g \in q.todo :
          LET children == {c \in Folders : parent[c] = g}
              ids == q.ids \cup {g}
          IN req' = [req EXCEPT ![r].ids = ids,
                       ![r].todo = IF (@ \ {g}) \cup (children \ ids) = {}
                                   THEN ids ELSE (@ \ {g}) \cup (children \ ids),
                       ![r].pc = IF (q.todo \ {g}) \cup (children \ ids) = {}
                                 THEN "trash" ELSE "collect"]
    BY <1>5 DEF DeleteCollect
  <2> DEFINE children == {c \in Folders : parent[c] = g}
             ids == q.ids \cup {g}
             rest == (q.todo \ {g}) \cup (children \ ids)
             todo == IF rest = {} THEN ids ELSE rest
             step == IF rest = {} THEN "trash" ELSE "collect"
  <2>2. req' = [req EXCEPT ![r].ids = ids, ![r].todo = todo, ![r].pc = step]
    BY <2>1
  <2>3. ids \in SUBSET FolderIds /\ rest \in SUBSET FolderIds
    BY <1>2 DEF FolderRequests, Folders
  <2>4. todo \in SUBSET FolderIds /\ step \in {"trash", "collect"}
    BY <2>3
  <2> HIDE DEF ids, todo, step
  <2> QED  BY <1>4, <2>2, <2>3, <2>4
<1> QED  BY <1>3, <1>5

LEMMA DeleteTrashFits ==
    ASSUME TreeInv, NEW r \in Slots, DeleteTrash(r)
    PROVE  TreeInv'
<1> DEFINE q == req[r]
<1>1. q.pc = "trash" /\ UNCHANGED <<FolderRows, started, FolderHistory>>
  BY DEF DeleteTrash
<1>2. /\ q \in FolderRequests /\ RequestFits(q) /\ started' \in 0..MaxRequests
      /\ q.op = "delete"
  BY <1>1 DEF TreeInv, FolderShape, RequestFits
<1>3. PICK g \in q.todo :
        req' = [req EXCEPT ![r].held = @ \cup In({g}), ![r].todo = @ \ {g},
                           ![r].pc = IF q.todo = {g} THEN "commit" ELSE "trash"]
  BY DEF DeleteTrash
<1> DEFINE step == IF q.todo = {g} THEN "commit" ELSE "trash"
           t == [q EXCEPT !.held = @ \cup In({g}), !.todo = @ \ {g}, !.pc = step]
<1>4. step \in {"commit", "trash"} /\ step \in RequestSteps
  BY DEF RequestSteps
<1>5. req' = [req EXCEPT ![r] = t]
  BY <1>3 DEF TreeInv
<1>6. In({g}) \subseteq Docs /\ \A d \in In({g}) : doc[d].state # "gone"
  BY DEF In, LiveDocs
<1> HIDE DEF step
<1>7. t \in FolderRequests
  BY <1>2, <1>4, <1>6 DEF FolderRequests
<1>8. t.op = "delete" /\ t.held = q.held \cup In({g}) /\ t.pc = step
  BY <1>2 DEF FolderRequests
<1> HIDE DEF t
<1>9. RequestFits(t)
  BY <1>2, <1>4, <1>6, <1>8 DEF RequestFits
<1> QED  BY <1>1, <1>2, <1>5, <1>7, <1>9, RequestReads

-----------------------------------------------------------------------------
(* Requests end                                                            *)

\* All that matters of a request but what a deletion has seen inside.
SameRequest(q, t) ==
  /\ q.op = t.op /\ q.pc = t.pc /\ q.f = t.f /\ q.p = t.p /\ q.n = t.n /\ q.at = t.at
  /\ q.edges = t.edges /\ q.todo = t.todo /\ q.ids = t.ids /\ q.held = t.held /\ q.ds = t.ds
  /\ q.over = t.over /\ q.parts = t.parts /\ q.made = t.made

Ends(r) ==
  /\ req' \in [Slots -> FolderRequests] /\ req'[r] = FolderIdle
  /\ \A s \in Slots \ {r} : SameRequest(req'[s], req[s])

LEMMA EndIs ==
    ASSUME TreeInv, NEW r \in Slots, End(r)
    PROVE  Ends(r)
BY IdleFits DEF TreeInv, End, Ends, SameRequest

LEMMA EndTouchingIs ==
    ASSUME TreeInv, NEW r \in Slots, NEW changed, NEW touched, EndTouching(r, changed, touched)
    PROVE  Ends(r)
<1>1. ASSUME NEW s \in Slots \ {r}
      PROVE  req'[s] \in FolderRequests /\ SameRequest(req'[s], req[s])
  <2> DEFINE x == IF changed \cap req[s].ids # {} \/ changed \cap Below(req[s].f) # {}
                  THEN {} ELSE req[s].inside \ touched
  <2>1. req'[s] = [req[s] EXCEPT !.inside = x]
    BY DEF EndTouching
  <2>2. req[s] \in FolderRequests
    BY DEF TreeInv
  <2>3. x \in SUBSET Docs
    BY <2>2 DEF FolderRequests
  <2> HIDE DEF x
  <2> QED  BY <2>1, <2>2, <2>3 DEF FolderRequests, SameRequest
<1>2. req'[r] = FolderIdle /\ req' = [s \in Slots |-> req'[s]]
  BY DEF EndTouching
<1> QED  BY <1>1, <1>2, IdleFits DEF Ends

\* What a commit must leave in order.
LEMMA Commits ==
    ASSUME TreeInv, NEW r \in Slots, Ends(r), FolderShape', MovesKeepATree', FilesFit',
           \A f \in FolderIds : /\ parent[f] = Gone => parent'[f] = Gone
                                /\ parent[f] # Unused => parent'[f] # Unused,
           \A s \in Slots \ {r} : \A d \in req[s].held : doc'[d].state # "gone"
    PROVE  TreeInv'
<1>1. ASSUME NEW s \in Slots PROVE RequestFits(req[s])'
  <2>1. CASE s = r
    <3>1. req'[s].op = "none" /\ req'[s].pc = "idle" /\ req'[s].held = {}
      BY <2>1 DEF Ends, FolderIdle
    <3> QED  BY <3>1 DEF RequestFits
  <2>2. CASE s # r
    <3>1. SameRequest(req'[s], req[s]) /\ RequestFits(req[s])
      BY <2>2 DEF Ends, TreeInv
    <3>2. req[s].op = "move" /\ req[s].p \in FolderIds => WayFits(req[s])'
      BY <3>1 DEF RequestFits, WayFits, SameRequest, Visited
    <3> QED  BY <2>2, <3>1, <3>2 DEF RequestFits, SameRequest
  <2> QED  BY <2>1, <2>2
<1> QED  BY <1>1 DEF TreeInv, Ends

\* A request other than a purge leaves the files.
LEMMA FilesStay ==
    ASSUME TreeInv, NEW r \in Slots, Ends(r), req[r].op # "purge", torn' = torn,
           \A d \in Docs : doc'[d].state # "gone" =>
              doc'[d].file \/ (doc[d].state # "gone" /\ doc'[d].file = doc[d].file)
    PROVE  FilesFit'
<1> SUFFICES ASSUME NEW d \in Docs \ torn, doc'[d].state # "gone", ~doc'[d].file
             PROVE  \E s \in Slots : req'[s].op = "purge" /\ d \in req'[s].ds
  BY DEF FilesFit
<1>1. doc[d].state # "gone" /\ ~doc[d].file
  OBVIOUS
<1>2. PICK s \in Slots : req[s].op = "purge" /\ d \in req[s].ds
  BY <1>1 DEF TreeInv, FilesFit
<1> QED  BY <1>2 DEF Ends, SameRequest

-----------------------------------------------------------------------------
(* Circles of folders                                                      *)

\* Folders that are removed or come to the root make no circle.
LEMMA ThinnedTree ==
    ASSUME Acyclic, \A f \in FolderIds : parent'[f] \in FolderIds => parent'[f] = parent[f]
    PROVE  Acyclic'
<1> SUFFICES ASSUME NEW S \in SUBSET FolderIds, S # {}, \A f \in S : parent'[f] \in S
             PROVE  FALSE
  BY DEF Acyclic
<1>1. \A f \in S : parent[f] \in S
  OBVIOUS
<1> QED  BY <1>1 DEF Acyclic

\* New folders make no circle when every set of them has one whose parent is not in it.
LEMMA GrownTree ==
    ASSUME FolderShape, Acyclic, NEW C \in SUBSET FolderIds, \A c \in C : parent[c] = Unused,
           \A f \in FolderIds \ C : parent'[f] = parent[f],
           \A T \in SUBSET C : T # {} => \E c \in T : parent'[c] \notin T
    PROVE  Acyclic'
<1> SUFFICES ASSUME NEW S \in SUBSET FolderIds, S # {}, \A f \in S : parent'[f] \in S
             PROVE  FALSE
  BY DEF Acyclic
<1>1. PICK f \in S : f \notin C
  OBVIOUS
<1>2. ASSUME NEW g \in S \ C PROVE parent[g] \in S \ C
  <2>1. parent[g] \in S /\ parent[g] \in FolderIds
    OBVIOUS
  <2>2. g \in Folders
    BY <2>1, FolderAssumption DEF Folders
  <2>3. parent[g] \in Folders
    BY <2>1, <2>2, FolderAssumption DEF FolderShape, Exists
  <2> QED  BY <2>1, <2>3 DEF Folders
<1>3. S \ C # {} /\ S \ C \in SUBSET FolderIds
  BY <1>1
<1> QED  BY <1>2, <1>3 DEF Acyclic

\* The parents of new folders are there.
LEMMA GrownShape ==
    ASSUME FolderShape, NEW C \in SUBSET FolderIds, \A c \in C : parent[c] = Unused,
           parent' \in [FolderIds -> Places \cup Absent],
           name' \in [FolderIds -> Names], UNCHANGED <<doc, started, FolderHistory>>,
           \A f \in FolderIds \ C : parent'[f] = parent[f],
           \A c \in C : Exists(parent'[c]) \/ parent'[c] \in C
    PROVE  FolderShape'
<1>1. \A f \in Folders : f \in Folders'
  BY DEF Folders
<1>2. \A f \in C : f \in Folders'
  BY FolderAssumption DEF Folders, Exists
<1>3. \A p : Exists(p) => Exists(p)'
  BY <1>1 DEF Exists
<1>4. ASSUME NEW f \in Folders' PROVE parent'[f] = Root \/ parent'[f] \in Folders'
  <2>1. CASE f \in C
    BY <1>1, <1>2, <2>1 DEF Exists
  <2>2. CASE f \notin C
    <3>1. f \in Folders
      BY <2>2 DEF Folders
    <3> QED  BY <1>1, <2>2, <3>1 DEF FolderShape, Exists, Folders
  <2> QED  BY <2>1, <2>2
<1>5. \A f \in Folders' : Exists(parent[f])'
  BY <1>4 DEF Exists
<1> QED  BY <1>3, <1>5 DEF FolderShape, FolderHistory

-----------------------------------------------------------------------------
(* Commits                                                                 *)

\* What an end without a write leaves is in order.
LEMMA CommitRefused ==
    ASSUME TreeInv, NEW r \in Slots, req[r].op # "purge", End(r),
           UNCHANGED <<parent, name, doc, started, blind, torn>>
    PROVE  TreeInv'
BY RefusedFits DEF FolderRows, FolderHistory

LEMMA CreateCommitFits ==
    ASSUME TreeInv, NEW r \in Slots, CreateCommit(r)
    PROVE  TreeInv'
<1> DEFINE q == req[r]
<1>1. /\ q.op = "create" /\ End(r) /\ Ends(r) /\ FolderShape
      /\ UNCHANGED <<doc, started, FolderHistory>>
  BY EndIs DEF CreateCommit, TreeInv
<1>2. CASE UNCHANGED <<parent, name>>
  BY <1>1, <1>2, CommitRefused DEF FolderHistory
<1>3. ASSUME NEW f \in FolderIds, Exists(q.p), parent[f] = Unused,
             parent' = [parent EXCEPT ![f] = q.p], name' = [name EXCEPT ![f] = q.n]
      PROVE  TreeInv'
  <2>1. q.p \in Places /\ q.n \in Names /\ q.p # f
    <3>1. q.p \in Places /\ q.n \in Names
      BY <1>1 DEF TreeInv, RequestFits
    <3>2. f \notin Folders /\ f # Root
      BY <1>3, FolderAssumption DEF Folders
    <3> QED  BY <1>3, <3>1, <3>2 DEF Exists
  <2> DEFINE C == {f}
  <2>2. /\ C \in SUBSET FolderIds /\ \A c \in C : parent[c] = Unused
        /\ \A g \in FolderIds \ C : parent'[g] = parent[g]
        /\ \A c \in C : parent'[c] = q.p
    BY <1>1, <1>3 DEF FolderShape
  <2>3. \A T \in SUBSET C : T # {} => \E c \in T : parent'[c] \notin T
    BY <2>1, <2>2
  <2>4. parent' \in [FolderIds -> Places \cup Absent] /\ name' \in [FolderIds -> Names]
    BY <1>1, <1>3, <2>1 DEF FolderShape
  <2> HIDE DEF C
  <2>5. FolderShape'
    BY <1>1, <1>3, <2>2, <2>4, GrownShape
  <2>6. MovesKeepATree'
    BY <1>1, <2>2, <2>3, GrownTree DEF TreeInv, MovesKeepATree, FolderHistory
  <2>7. FilesFit'
    BY <1>1, FilesStay DEF FolderHistory
  <2>8. \A g \in FolderIds : /\ parent[g] = Gone => parent'[g] = Gone
                             /\ parent[g] # Unused => parent'[g] # Unused
    BY <2>2, FolderAssumption
  <2>9. \A s \in Slots \ {r} : \A d \in req[s].held : doc'[d].state # "gone"
    BY <1>1 DEF TreeInv, RequestFits
  <2> QED  BY <1>1, <2>5, <2>6, <2>7, <2>8, <2>9, Commits
<1> QED  BY <1>2, <1>3 DEF CreateCommit

\* A set of numbers that is not empty has a smallest one.
LEMMA SmallestExists ==
    ASSUME NEW S \in SUBSET Nat, S # {}
    PROVE  \E m \in S : \A k \in S : m <= k
<1>1. \E x \in S : \A y \in S : ~(<<y, x>> \in OpToRel(<, Nat))
  BY NatLessThanWellFounded, WFMin, Zenon
<1>2. PICK m \in S : \A k \in S : ~(<<k, m>> \in OpToRel(<, Nat))
  BY <1>1
<1>3. ASSUME NEW k \in S PROVE m <= k
  <2>1. ~(k < m)
    BY <1>2 DEF OpToRel
  <2> QED  BY <2>1
<1> QED  BY <1>3

\* The new folders of a path are a chain below the folder in which it begins.
LEMMA BulkCommitFits ==
    ASSUME TreeInv, NEW r \in Slots, BulkCommit(r)
    PROVE  TreeInv'
<1> DEFINE q == req[r]
           N == Len(q.made)
<1>1. /\ q.op = "bulk" /\ End(r) /\ Ends(r) /\ FolderShape
      /\ UNCHANGED <<doc, started, FolderHistory>>
  BY EndIs DEF BulkCommit, TreeInv
<1>2. /\ q.at \in Places /\ q.made \in Seq(Names) /\ N \in Nat
      /\ \A i \in 1..N : q.made[i] \in Names
  <2>1. q \in FolderRequests
    BY DEF TreeInv
  <2>2. q.made \in Seq(Names)
    BY <2>1 DEF FolderRequests
  <2> QED  BY <1>1, <2>2 DEF TreeInv, RequestFits
<1>3. CASE UNCHANGED <<parent, name>>
  BY <1>1, <1>3, CommitRefused DEF FolderHistory
<1>4. ASSUME q.made # <<>> => Exists(q.at),
             NEW c \in [1..N -> {f \in FolderIds : parent[f] = Unused}],
             \A i, j \in 1..N : c[i] = c[j] => i = j,
             parent' = [f \in FolderIds |->
               IF \E i \in 1..N : c[i] = f
               THEN LET i == CHOOSE i \in 1..N : c[i] = f
                    IN IF i = 1 THEN q.at ELSE c[i - 1]
               ELSE parent[f]],
             name' = [f \in FolderIds |->
               IF \E i \in 1..N : c[i] = f
               THEN q.made[CHOOSE i \in 1..N : c[i] = f] ELSE name[f]]
      PROVE  TreeInv'
  <2> DEFINE C == {c[i] : i \in 1..N}
  <2>1. \A i \in 1..N : c[i] \in FolderIds /\ parent[c[i]] = Unused
    BY <1>4
  <2>2. C \in SUBSET FolderIds /\ \A x \in C : parent[x] = Unused
    BY <2>1
  <2>3. ASSUME NEW i \in 1..N
        PROVE  /\ parent'[c[i]] = IF i = 1 THEN q.at ELSE c[i - 1]
               /\ name'[c[i]] = q.made[i]
    <3>1. (CHOOSE k \in 1..N : c[k] = c[i]) = i
      BY <1>4
    <3> QED  BY <1>4, <2>1, <3>1
  <2>4. ASSUME NEW f \in FolderIds \ C PROVE parent'[f] = parent[f] /\ name'[f] = name[f]
    BY <1>4
  <2>5. ASSUME NEW i \in 1..N PROVE Exists(q.at) /\ q.at \notin C
    <3>1. Len(q.made) # 0
      BY <1>2
    <3>2. Exists(q.at)
      BY <1>2, <1>4, <3>1, EmptyIs
    <3> QED  BY <2>2, <3>2, FolderAssumption DEF Exists, Folders
  <2>6. ASSUME NEW i \in 1..N, i # 1 PROVE i - 1 \in 1..N /\ c[i - 1] \in C
    <3>1. i - 1 \in 1..N
      BY <1>2, <2>6
    <3> QED  BY <3>1
  <2>7. ASSUME NEW T \in SUBSET C, T # {} PROVE \E x \in T : parent'[x] \notin T
    <3> DEFINE I == {i \in 1..N : c[i] \in T}
    <3>1. I \in SUBSET Nat /\ I # {}
      BY <1>2, <2>7
    <3>2. PICK i \in I : \A k \in I : i <= k
      BY <3>1, SmallestExists
    <3>3. CASE i = 1
      BY <2>3, <2>5, <3>2, <3>3
    <3>4. CASE i # 1
      <4>1. i - 1 \in 1..N /\ i - 1 \notin I
        BY <1>2, <2>6, <3>2, <3>4
      <4>2. c[i - 1] \notin T
        BY <4>1
      <4> QED  BY <2>3, <3>2, <3>4, <4>2
    <3> QED  BY <3>3, <3>4
  <2>8. ASSUME NEW x \in C PROVE Exists(parent'[x]) \/ parent'[x] \in C
    <3>1. PICK i \in 1..N : c[i] = x
      OBVIOUS
    <3>2. CASE i = 1
      BY <2>3, <2>5, <3>1, <3>2
    <3>3. CASE i # 1
      BY <2>3, <2>6, <3>1, <3>3
    <3> QED  BY <3>2, <3>3
  <2>9. ASSUME NEW x \in C PROVE name'[x] \in Names
    <3>1. PICK i \in 1..N : c[i] = x
      OBVIOUS
    <3> QED  BY <1>2, <2>3, <3>1
  <2> HIDE DEF C, N
  <2>10. parent' \in [FolderIds -> Places \cup Absent]
    <3>1. ASSUME NEW f \in FolderIds PROVE parent'[f] \in Places \cup Absent
      <4>1. CASE f \in C
        BY <2>2, <2>8, <4>1 DEF Exists, Folders, Places
      <4>2. CASE f \notin C
        BY <1>1, <2>4, <4>2 DEF FolderShape
      <4> QED  BY <4>1, <4>2
    <3>2. parent' = [f \in FolderIds |-> parent'[f]]
      BY <1>4
    <3> QED  BY <3>1, <3>2
  <2>11. name' \in [FolderIds -> Names]
    <3>1. ASSUME NEW f \in FolderIds PROVE name'[f] \in Names
      BY <1>1, <2>4, <2>9 DEF FolderShape
    <3>2. name' = [f \in FolderIds |-> name'[f]]
      BY <1>4
    <3> QED  BY <3>1, <3>2
  <2>12. FolderShape'
    BY <1>1, <2>2, <2>4, <2>8, <2>10, <2>11, GrownShape
  <2>13. MovesKeepATree'
    BY <1>1, <2>2, <2>4, <2>7, GrownTree DEF TreeInv, MovesKeepATree, FolderHistory
  <2>14. FilesFit'
    BY <1>1, FilesStay DEF FolderHistory
  <2>15. \A g \in FolderIds : /\ parent[g] = Gone => parent'[g] = Gone
                              /\ parent[g] # Unused => parent'[g] # Unused
    BY <2>2, <2>4, FolderAssumption
  <2>16. \A s \in Slots \ {r} : \A d \in req[s].held : doc'[d].state # "gone"
    BY <1>1 DEF TreeInv, RequestFits
  <2> QED  BY <1>1, <2>12, <2>13, <2>14, <2>15, <2>16, Commits
<1> QED  BY <1>3, <1>4 DEF BulkCommit

\* A folder that is put under another makes no circle when the way up from there does not come
\* by it: U holds that way.
LEMMA HungFolder ==
    ASSUME FolderShape, Acyclic, NEW f \in FolderIds, NEW p \in FolderIds,
           parent' = [parent EXCEPT ![f] = p],
           NEW U \in SUBSET FolderIds, f \notin U, p \in U,
           \A a \in U : parent[a] \in FolderIds => parent[a] \in U
    PROVE  Acyclic'
<1> SUFFICES ASSUME NEW S \in SUBSET FolderIds, S # {}, \A g \in S : parent'[g] \in S
             PROVE  FALSE
  BY DEF Acyclic
<1>1. \A g \in FolderIds : parent'[g] = IF g = f THEN p ELSE parent[g]
  BY DEF FolderShape
<1>2. CASE f \notin S
  <2>1. \A g \in S : parent[g] \in S
    BY <1>1, <1>2
  <2> QED  BY <2>1 DEF Acyclic
<1>3. CASE f \in S
  <2>1. p \in S
    BY <1>1, <1>3
  <2>2. S \cap U # {} /\ S \cap U \in SUBSET FolderIds
    BY <2>1
  <2>3. ASSUME NEW g \in S \cap U PROVE parent[g] \in S \cap U
    BY <1>1
  <2> QED  BY <2>2, <2>3 DEF Acyclic
<1> QED  BY <1>2, <1>3

LEMMA MoveCommitFits ==
    ASSUME TreeInv, NEW r \in Slots, MoveCommit(r)
    PROVE  TreeInv'
<1> DEFINE q == req[r]
           p == NewParent(q)
           n == NewName(q)
<1>1. /\ q.op = "move" /\ q.pc = "commit" /\ FolderShape
      /\ UNCHANGED <<doc, started, torn>>
  BY DEF MoveCommit, TreeInv
<1>2. /\ q \in FolderRequests /\ RequestFits(q) /\ q.f \in FolderIds
      /\ q.p \in FolderIds => WayFits(q)
  BY <1>1 DEF TreeInv, RequestFits
<1>3. CASE End(r) /\ UNCHANGED <<parent, name, blind>>
  BY <1>1, <1>3, CommitRefused
<1>4. CASE /\ q.f \in Folders /\ Exists(p)
           /\ parent' = [parent EXCEPT ![q.f] = p] /\ name' = [name EXCEPT ![q.f] = n]
           /\ blind' = (blind \/ Outdated(q)) /\ EndTouching(r, {q.f}, {})
  <2>1. Ends(r)
    BY <1>4, EndTouchingIs
  <2>2. p \in Places /\ n \in Names
    <3>1. q.n \in Names \cup {Same}
      BY <1>2 DEF FolderRequests
    <3> QED  BY <1>1, <1>2, <1>4, <3>1 DEF Exists, Folders, Places, NewName, FolderShape
  <2>3. \A g \in FolderIds : parent'[g] = IF g = q.f THEN p ELSE parent[g]
    BY <1>1, <1>4 DEF FolderShape
  <2>4. Folders' = Folders
    BY <1>4, <2>2, <2>3, FolderAssumption DEF Folders, Places
  <2>5. FolderShape'
    <3>1. /\ parent' \in [FolderIds -> Places \cup Absent] /\ name' \in [FolderIds -> Names]
          /\ blind' \in BOOLEAN
      BY <1>1, <1>2, <1>4, <2>2 DEF FolderShape, Outdated
    <3>2. \A g \in Folders' : Exists(parent[g])'
      BY <1>1, <1>4, <2>3, <2>4 DEF FolderShape, Exists, Folders
    <3>3. \A d \in Docs : Exists(doc[d].home)'
      BY <1>1, <2>4 DEF FolderShape, Exists
    <3> QED  BY <1>1, <3>1, <3>2, <3>3 DEF FolderShape
  <2>6. ASSUME ~blind' PROVE Acyclic'
    <3>1. Acyclic /\ ~Outdated(q)
      BY <1>4, <2>6 DEF TreeInv, MovesKeepATree
    <3>2. CASE q.p \notin FolderIds
      <4>1. p = parent[q.f] \/ p = Root
        BY <1>2, <3>2 DEF NewParent, FolderRequests, Places
      <4>2. \A g \in FolderIds : parent'[g] \in FolderIds => parent'[g] = parent[g]
        BY <2>3, <4>1, FolderAssumption
      <4> QED  BY <3>1, <4>2, ThinnedTree
    <3>3. CASE q.p \in FolderIds
      <4> DEFINE U == Visited(q) \cup {a \in FolderIds : parent[a] = Gone}
      <4>1. p = q.p /\ p \in Folders /\ WayFits(q)
        BY <1>2, <1>4, <3>3, FolderAssumption DEF NewParent, Exists
      <4>2. \A e \in q.edges : e[1] \in FolderIds /\ e[2] \in Places
        BY <1>2 DEF FolderRequests
      <4>3. U \in SUBSET FolderIds
        BY <4>2 DEF Visited
      <4>4. q.f \notin U
        BY <1>4, <4>1, FolderAssumption DEF WayFits, Folders
      <4>5. p \in U
        BY <1>1, <3>3, <4>1, FolderAssumption DEF WayFits
      <4>6. ASSUME NEW a \in U, parent[a] \in FolderIds PROVE parent[a] \in U
        <5>1. PICK e \in q.edges : e[1] = a
          BY <4>6, FolderAssumption DEF Visited
        <5>2. parent[a] = e[2]
          BY <3>1, <4>6, <5>1 DEF Outdated
        <5>3. e[2] \in Visited(q) \cup {Root, q.at}
          BY <4>1 DEF WayFits
        <5>4. q.at \in Visited(q) \cup {Root} \/ (q.at \in FolderIds /\ parent[q.at] = Gone)
          BY <1>1, <4>1 DEF WayFits
        <5> QED  BY <4>6, <5>2, <5>3, <5>4, FolderAssumption
      <4> HIDE DEF U
      <4> QED  BY <1>1, <1>2, <1>4, <3>1, <3>3, <4>1, <4>3, <4>4, <4>5, <4>6, HungFolder
    <3> QED  BY <3>2, <3>3
  <2>7. MovesKeepATree'
    BY <2>6 DEF MovesKeepATree
  <2>8. FilesFit'
    BY <1>1, <2>1, FilesStay
  <2>9. \A g \in FolderIds : /\ parent[g] = Gone => parent'[g] = Gone
                             /\ parent[g] # Unused => parent'[g] # Unused
    BY <1>4, <2>2, <2>3, FolderAssumption DEF Folders, Places
  <2>10. \A s \in Slots \ {r} : \A d \in req[s].held : doc'[d].state # "gone"
    BY <1>1 DEF TreeInv, RequestFits
  <2> QED  BY <2>1, <2>5, <2>7, <2>8, <2>9, <2>10, Commits
<1> QED  BY <1>3, <1>4 DEF MoveCommit

LEMMA DeleteCommitFits ==
    ASSUME TreeInv, NEW r \in Slots, DeleteCommit(r)
    PROVE  TreeInv'
<1> DEFINE q == req[r]
           late == {c \in Folders \ q.ids : parent[c] \in q.ids}
<1>1. PICK cascade \in SUBSET late :
        LET removed == (q.ids \cup UNION {Below(c) : c \in cascade}) \ (late \ cascade)
            homeless == {d \in Docs : doc[d].home \in removed}
        IN /\ homeless \cap Locked(r) = {}
           /\ parent' = [f \in FolderIds |->
                IF f \in removed THEN Gone ELSE IF parent[f] \in removed THEN Root ELSE parent[f]]
           /\ doc' = [d \in Docs |->
                [doc[d] EXCEPT !.state = IF d \in q.held THEN "trash" ELSE @,
                               !.home = IF d \in homeless \cup q.held THEN Root ELSE @]]
           /\ EndTouching(r, removed \cup late, homeless \cup q.held)
  BY DEF DeleteCommit
<1> DEFINE removed == (q.ids \cup UNION {Below(c) : c \in cascade}) \ (late \ cascade)
           homeless == {d \in Docs : doc[d].home \in removed}
<1>2. /\ parent' = [f \in FolderIds |->
           IF f \in removed THEN Gone ELSE IF parent[f] \in removed THEN Root ELSE parent[f]]
      /\ doc' = [d \in Docs |->
           [doc[d] EXCEPT !.state = IF d \in q.held THEN "trash" ELSE @,
                          !.home = IF d \in homeless \cup q.held THEN Root ELSE @]]
      /\ EndTouching(r, removed \cup late, homeless \cup q.held)
  BY <1>1
<1>3. /\ q.op = "delete" /\ q.pc = "commit" /\ FolderShape /\ q \in FolderRequests
      /\ RequestFits(q) /\ UNCHANGED <<name, started, blind, torn>>
  BY DEF DeleteCommit, TreeInv, FolderHistory
<1>4. removed \subseteq FolderIds /\ Ends(r)
  BY <1>2, <1>3, EndTouchingIs DEF FolderRequests, Below
<1> HIDE DEF removed
<1>5. \A f \in FolderIds :
        parent'[f] = IF f \in removed THEN Gone
                     ELSE IF parent[f] \in removed THEN Root ELSE parent[f]
  BY <1>2
<1>6. ASSUME NEW d \in Docs
      PROVE  /\ doc'[d].state = IF d \in q.held THEN "trash" ELSE doc[d].state
             /\ doc'[d].home = IF d \in homeless \cup q.held THEN Root ELSE doc[d].home
             /\ doc'[d].file = doc[d].file
             /\ doc'[d] \in DocStates
  <2>1. doc[d] \in DocStates
    BY <1>3 DEF FolderShape
  <2>2. doc'[d] = [doc[d] EXCEPT !.state = IF d \in q.held THEN "trash" ELSE @,
                                 !.home = IF d \in homeless \cup q.held THEN Root ELSE @]
    BY <1>2
  <2> DEFINE s == IF d \in q.held THEN "trash" ELSE doc[d].state
             h == IF d \in homeless \cup q.held THEN Root ELSE doc[d].home
  <2>3. s \in {"none", "live", "trash", "gone"} /\ h \in Places
    BY <2>1 DEF DocStates, Places
  <2>4. doc'[d] = [doc[d] EXCEPT !.state = s, !.home = h]
    BY <2>2
  <2> HIDE DEF s, h, homeless
  <2>5. /\ doc'[d] \in DocStates /\ doc'[d].state = s /\ doc'[d].home = h
        /\ doc'[d].file = doc[d].file
    BY <2>1, <2>3, <2>4 DEF DocStates
  <2> QED  BY <2>5 DEF s, h
<1>7. \A f \in FolderIds : f \in Folders' <=> f \in Folders /\ f \notin removed
  BY <1>4, <1>5, FolderAssumption DEF Folders
<1>8. FolderShape'
  <2>1. parent' \in [FolderIds -> Places \cup Absent] /\ doc' \in [Docs -> DocStates]
    BY <1>2, <1>3, <1>6 DEF FolderShape, Places, Absent
  <2>2. ASSUME NEW f \in Folders' PROVE Exists(parent[f])'
    <3>1. f \in Folders /\ f \notin removed /\ Exists(parent[f])
      BY <1>3, <1>7 DEF FolderShape, Folders
    <3> QED  BY <1>5, <1>7, <3>1 DEF Exists, Folders
  <2>3. ASSUME NEW d \in Docs PROVE Exists(doc[d].home)'
    <3>1. Exists(doc[d].home)
      BY <1>3 DEF FolderShape
    <3> QED  BY <1>6, <1>7, <3>1 DEF Exists, Folders
  <2> QED  BY <1>3, <2>1, <2>2, <2>3 DEF FolderShape
<1>9. MovesKeepATree'
  <2>1. \A g \in FolderIds : parent'[g] \in FolderIds => parent'[g] = parent[g]
    BY <1>5, FolderAssumption
  <2> QED  BY <1>3, <2>1, ThinnedTree DEF TreeInv, MovesKeepATree
<1>10. FilesFit'
  <2>1. \A d \in Docs : doc'[d].state # "gone" => doc[d].state # "gone" /\ doc'[d].file = doc[d].file
    BY <1>3, <1>6 DEF RequestFits
  <2> QED  BY <1>3, <1>4, <2>1, FilesStay
<1>11. \A g \in FolderIds : /\ parent[g] = Gone => parent'[g] = Gone
                            /\ parent[g] # Unused => parent'[g] # Unused
  BY <1>4, <1>5, FolderAssumption
<1>12. ASSUME NEW s \in Slots \ {r}, NEW d \in req[s].held PROVE doc'[d].state # "gone"
  <2>1. doc[d].state # "gone" /\ d \in Docs
    BY DEF TreeInv, RequestFits, FolderRequests
  <2> QED  BY <1>6, <2>1
<1> QED  BY <1>4, <1>8, <1>9, <1>10, <1>11, <1>12, Commits

LEMMA DocsCommitFits ==
    ASSUME TreeInv, NEW r \in Slots, DocsCommit(r)
    PROVE  TreeInv'
<1> DEFINE q == req[r]
           ds == q.ds \cup q.over
<1>1. /\ q.op \in {"upload", "trash", "restore", "refile"} /\ q.pc = "commit" /\ FolderShape
      /\ UNCHANGED <<parent, name, started, blind, torn>>
  BY DEF DocsCommit, TreeInv, FolderHistory
<1>2. CASE End(r) /\ UNCHANGED doc
  BY <1>1, <1>2, CommitRefused
<1>3. CASE /\ q.op # "upload" => ds \subseteq LiveDocs \cup TrashedDocs
           /\ q.op \in {"upload", "refile"} => Exists(q.p)
           /\ doc' = [d \in Docs |-> IF d \in ds THEN WrittenDoc(q, d) ELSE doc[d]]
           /\ EndTouching(r, {}, ds)
  <2>1. Ends(r)
    BY <1>3, EndTouchingIs
  <2>2. ASSUME NEW d \in Docs
        PROVE  /\ doc'[d] \in DocStates
               /\ doc'[d].home = doc[d].home \/ (doc'[d].home = q.p /\ Exists(q.p))
               /\ doc[d].state # "gone" => doc'[d].state # "gone"
               /\ doc'[d].state # "gone" =>
                    doc'[d].file \/ (doc[d].state # "gone" /\ doc'[d].file = doc[d].file)
    <3>1. doc[d] \in DocStates
      BY <1>1 DEF FolderShape
    <3>2. CASE d \notin ds
      <4>1. doc'[d] = doc[d]
        BY <1>3, <3>2
      <4> QED  BY <3>1, <4>1
    <3>3. CASE d \in ds /\ q.op = "upload"
      <4>1. doc'[d] = [home |-> q.p, state |-> "live", file |-> TRUE]
        BY <1>3, <3>3 DEF WrittenDoc
      <4>2. q.p \in Places /\ Exists(q.p)
        BY <1>3, <3>3 DEF Exists, Folders, Places
      <4> QED  BY <4>1, <4>2 DEF DocStates
    <3>4. CASE d \in ds /\ q.op # "upload"
      <4>1. doc[d].state \in {"live", "trash"}
        BY <1>3, <3>4 DEF LiveDocs, TrashedDocs
      <4>2. CASE doc'[d] = [doc[d] EXCEPT !.state = "trash"]
        BY <3>1, <4>1, <4>2 DEF DocStates
      <4>3. CASE doc'[d] = [doc[d] EXCEPT !.state = "live"]
        BY <3>1, <4>1, <4>3 DEF DocStates
      <4>4. CASE q.op = "refile" /\ doc'[d] = [doc[d] EXCEPT !.home = q.p]
        <5>1. q.p \in Places /\ Exists(q.p)
          BY <1>3, <4>4 DEF Exists, Folders, Places
        <5> QED  BY <3>1, <4>1, <4>4, <5>1 DEF DocStates
      <4>5. doc'[d] = WrittenDoc(q, d)
        BY <1>3, <3>4
      <4>6. CASE q.op = "trash"
        BY <4>2, <4>5, <4>6 DEF WrittenDoc
      <4>7. CASE q.op = "restore"
        BY <4>3, <4>5, <4>7 DEF WrittenDoc
      <4>8. CASE q.op = "refile"
        BY <4>2, <4>4, <4>5, <4>8 DEF WrittenDoc
      <4> QED  BY <1>1, <3>4, <4>6, <4>7, <4>8
    <3> QED  BY <3>2, <3>3, <3>4
  <2>3. FolderShape'
    <3>1. doc' \in [Docs -> DocStates]
      BY <1>3, <2>2
    <3>2. ASSUME NEW d \in Docs PROVE Exists(doc[d].home)'
      <4>1. Exists(doc'[d].home)
        BY <1>1, <2>2 DEF FolderShape
      <4> QED  BY <1>1, <4>1 DEF Exists, Folders
    <3>3. \A g \in Folders' : Exists(parent[g])'
      BY <1>1 DEF FolderShape, Exists, Folders
    <3> QED  BY <1>1, <3>1, <3>2, <3>3 DEF FolderShape
  <2>4. MovesKeepATree'
    BY <1>1 DEF TreeInv, MovesKeepATree, Acyclic
  <2>5. FilesFit'
    <3>1. q.op # "purge" /\ torn' = torn
      BY <1>1
    <3> QED  BY <2>1, <2>2, <3>1, FilesStay
  <2>6. ASSUME NEW s \in Slots \ {r}, NEW d \in req[s].held PROVE doc'[d].state # "gone"
    <3>1. doc[d].state # "gone" /\ d \in Docs
      BY DEF TreeInv, RequestFits, FolderRequests
    <3> QED  BY <2>2, <3>1
  <2> QED  BY <1>1, <2>1, <2>3, <2>4, <2>5, <2>6, Commits
<1> QED  BY <1>2, <1>3 DEF DocsCommit

\* The purge takes the files first.
LEMMA PurgeUnlinkFits ==
    ASSUME TreeInv, NEW r \in Slots, PurgeUnlink(r)
    PROVE  TreeInv'
<1> DEFINE q == req[r]
           t == [q EXCEPT !.pc = "commit"]
<1>1. /\ q.pc = "unlink" /\ q.op = "purge" /\ q \in FolderRequests /\ RequestFits(q)
      /\ UNCHANGED <<parent, name, started, blind, torn>> /\ FolderShape
  BY DEF PurgeUnlink, TreeInv, RequestFits, FolderHistory
<1>2. PICK left \in SUBSET q.ds :
        doc' = [d \in Docs |-> [doc[d] EXCEPT !.file = @ /\ d \notin q.ds \ left]]
  BY DEF PurgeUnlink
<1>3. ASSUME NEW d \in Docs
      PROVE  /\ doc'[d] \in DocStates /\ doc'[d].home = doc[d].home
             /\ doc'[d].state = doc[d].state /\ (d \notin q.ds => doc'[d].file = doc[d].file)
  <2>1. doc[d] \in DocStates
    BY <1>1 DEF FolderShape
  <2> DEFINE x == doc[d].file /\ d \notin q.ds \ left
  <2>2. doc'[d] = [doc[d] EXCEPT !.file = x]
    BY <1>2
  <2>3. x \in BOOLEAN /\ (d \notin q.ds => x = doc[d].file)
    BY <2>1 DEF DocStates
  <2> HIDE DEF x
  <2> QED  BY <2>1, <2>2, <2>3 DEF DocStates
<1>4. req' = [req EXCEPT ![r] = t]
  BY DEF PurgeUnlink, TreeInv
<1>5. /\ t \in FolderRequests /\ t.op = "purge" /\ t.pc = "commit" /\ t.held = q.held
      /\ t.ds = q.ds
  BY <1>1 DEF FolderRequests, RequestSteps
<1> HIDE DEF t
<1>6. RequestFits(t)
  BY <1>1, <1>5 DEF RequestFits
<1>7. req' \in [Slots -> FolderRequests] /\ req'[r] = t /\ \A s \in Slots \ {r} : req'[s] = req[s]
  BY <1>4, <1>5 DEF TreeInv
<1>8. ASSUME NEW s \in Slots PROVE RequestFits(req[s])'
  <2>1. RequestFits(req'[s]) /\ req'[s] \in FolderRequests
    BY <1>6, <1>7 DEF TreeInv
  <2>2. req'[s].held \subseteq Docs
    BY <2>1 DEF FolderRequests
  <2> QED  BY <1>1, <1>3, <2>1, <2>2 DEF RequestFits, WayFits, Visited
<1>9. FolderShape'
  <2>1. doc' \in [Docs -> DocStates]
    BY <1>2, <1>3
  <2>2. \A d \in Docs : Exists(doc[d].home)'
    BY <1>1, <1>3 DEF FolderShape, Exists, Folders
  <2>3. \A g \in Folders' : Exists(parent[g])'
    BY <1>1 DEF FolderShape, Exists, Folders
  <2> QED  BY <1>1, <2>1, <2>2, <2>3 DEF FolderShape
<1>10. FilesFit'
  <2> SUFFICES ASSUME NEW d \in Docs \ torn, doc'[d].state # "gone", ~doc'[d].file
               PROVE  \E s \in Slots : req'[s].op = "purge" /\ d \in req'[s].ds
    BY <1>1 DEF FilesFit
  <2>1. CASE d \in q.ds
    BY <1>5, <1>7, <2>1
  <2>2. CASE d \notin q.ds
    <3>1. PICK s \in Slots : req[s].op = "purge" /\ d \in req[s].ds
      BY <1>3, <2>2 DEF TreeInv, FilesFit
    <3> QED  BY <1>7, <2>2, <3>1
  <2> QED  BY <2>1, <2>2
<1>11. MovesKeepATree'
  BY <1>1 DEF TreeInv, MovesKeepATree, Acyclic
<1> QED  BY <1>7, <1>8, <1>9, <1>10, <1>11 DEF TreeInv

LEMMA PurgeCommitFits ==
    ASSUME TreeInv, NEW r \in Slots, PurgeCommit(r)
    PROVE  TreeInv'
<1> DEFINE q == req[r]
<1>1. /\ q.op = "purge" /\ q.pc = "commit" /\ FolderShape
      /\ UNCHANGED <<parent, name, started, blind, torn>>
      /\ doc' = [d \in Docs |-> PurgedRow(q, d)] /\ q.ds \cap Locked(r) = {}
  BY DEF PurgeCommit, TreeInv, FolderHistory
<1>2. Ends(r)
  BY EndTouchingIs DEF PurgeCommit
<1>3. ASSUME NEW d \in Docs
      PROVE  /\ doc'[d] \in DocStates /\ doc'[d].home = doc[d].home
             /\ IF d \in q.ds THEN doc'[d].state = "gone" ELSE doc'[d] = doc[d]
  <2>1. doc[d] \in DocStates
    BY <1>1 DEF FolderShape
  <2>2. doc'[d] = IF d \in q.ds THEN [doc[d] EXCEPT !.state = "gone"] ELSE doc[d]
    BY <1>1 DEF PurgedRow
  <2> QED  BY <2>1, <2>2 DEF DocStates
<1>4. FolderShape'
  <2>1. doc' \in [Docs -> DocStates]
    BY <1>1, <1>3
  <2>2. \A d \in Docs : Exists(doc[d].home)'
    BY <1>1, <1>3 DEF FolderShape, Exists, Folders
  <2>3. \A g \in Folders' : Exists(parent[g])'
    BY <1>1 DEF FolderShape, Exists, Folders
  <2> QED  BY <1>1, <2>1, <2>2, <2>3 DEF FolderShape
<1>5. FilesFit'
  <2> SUFFICES ASSUME NEW d \in Docs \ torn, doc'[d].state # "gone", ~doc'[d].file
               PROVE  \E s \in Slots : req'[s].op = "purge" /\ d \in req'[s].ds
    BY <1>1 DEF FilesFit
  <2>1. d \notin q.ds /\ doc'[d] = doc[d]
    BY <1>3
  <2>2. PICK s \in Slots : req[s].op = "purge" /\ d \in req[s].ds
    BY <2>1 DEF TreeInv, FilesFit
  <2> QED  BY <1>2, <2>1, <2>2 DEF Ends, SameRequest
<1>6. MovesKeepATree'
  BY <1>1 DEF TreeInv, MovesKeepATree, Acyclic
<1>7. ASSUME NEW s \in Slots \ {r}, NEW d \in req[s].held PROVE doc'[d].state # "gone"
  <2>1. doc[d].state # "gone" /\ d \in Docs /\ d \in Locked(r)
    BY DEF TreeInv, RequestFits, FolderRequests, Locked
  <2> QED  BY <1>1, <1>3, <2>1
<1> QED  BY <1>1, <1>2, <1>4, <1>5, <1>6, <1>7, Commits

LEMMA PurgeFailsFits ==
    ASSUME TreeInv, NEW r \in Slots, PurgeFails(r)
    PROVE  TreeInv'
<1>1. /\ FolderShape /\ UNCHANGED <<parent, name, doc, started, blind>>
      /\ torn' = torn \cup req[r].ds /\ Ends(r)
  BY EndIs DEF PurgeFails, TreeInv, FolderRows
<1>2. FolderShape'
  <2>1. torn' \subseteq Docs
    BY <1>1 DEF FolderShape, TreeInv, FolderRequests
  <2> QED  BY <1>1, <2>1 DEF FolderShape, Exists, Folders
<1>3. FilesFit'
  <2> SUFFICES ASSUME NEW d \in Docs \ torn', doc[d].state # "gone", ~doc[d].file
               PROVE  \E s \in Slots : req'[s].op = "purge" /\ d \in req'[s].ds
    BY <1>1 DEF FilesFit
  <2>1. PICK s \in Slots : req[s].op = "purge" /\ d \in req[s].ds
    BY <1>1 DEF TreeInv, FilesFit
  <2>2. d \notin req[r].ds
    BY <1>1
  <2> QED  BY <1>1, <2>1, <2>2 DEF Ends, SameRequest
<1>4. MovesKeepATree'
  BY <1>1 DEF TreeInv, MovesKeepATree, Acyclic
<1>5. \A s \in Slots \ {r} : \A d \in req[s].held : doc'[d].state # "gone"
  BY <1>1 DEF TreeInv, RequestFits
<1> QED  BY <1>1, <1>2, <1>3, <1>4, <1>5, Commits

LEMMA TreeInvKept == TreeInv /\ [FolderNext]_folderVars => TreeInv'
<1> SUFFICES ASSUME TreeInv, [FolderNext]_folderVars PROVE TreeInv'
  OBVIOUS
<1>1. ASSUME NEW r \in Slots, FolderStep(r) PROVE TreeInv'
  <2>1. CASE Refused(r)
    <3>1. req[r].op # "purge" /\ End(r) /\ UNCHANGED <<FolderRows, started, FolderHistory>>
      BY <2>1 DEF Refused
    <3> QED  BY <3>1, RefusedFits
  <2> QED  BY <1>1, <2>1, CreateCommitFits, BulkPartFits, BulkCommitFits, MoveWalkFits,
              MoveCommitFits, DeleteCollectFits, DeleteTrashFits, DeleteCommitFits,
              DocsCommitFits, PurgeUnlinkFits, PurgeCommitFits, PurgeFailsFits DEF FolderStep
<1>2. CASE UNCHANGED folderVars
  <2>1. FolderShape' /\ FilesFit' /\ MovesKeepATree'
    BY <1>2 DEF folderVars, TreeInv, FolderShape, FilesFit, MovesKeepATree, Acyclic, Exists, Folders
  <2>2. \A r \in Slots : RequestFits(req[r])'
    BY <1>2 DEF folderVars, TreeInv, RequestFits, WayFits, Visited
  <2> QED  BY <1>2, <2>1, <2>2 DEF folderVars, TreeInv
<1> QED  BY <1>1, <1>2, FolderStartFits DEF FolderNext

LEMMA FoldersStartFit == FolderInit => TreeInv
<1> SUFFICES ASSUME FolderInit PROVE TreeInv
  OBVIOUS
<1>1. /\ parent \in [FolderIds -> Places \cup Absent] /\ name \in [FolderIds -> Names]
      /\ doc \in [Docs -> DocStates]
  BY DEF FolderInit, Places, Absent, DocStates, Folders
<1>2. started \in 0..MaxRequests /\ blind \in BOOLEAN /\ torn \subseteq Docs
  <2>1. started = 0 /\ blind = FALSE /\ torn = {}
    BY DEF FolderInit
  <2>2. 0 \in 0..MaxRequests
    BY FolderAssumption
  <2>3. blind \in BOOLEAN /\ torn \subseteq Docs
    BY <2>1
  <2> QED  BY <2>1, <2>2, <2>3
<1>3. \A f \in Folders : Exists(parent[f])
  BY DEF FolderInit, Folders, Exists
<1>4. \A d \in Docs : Exists(doc[d].home) /\ doc[d].file
  BY DEF FolderInit, Exists
<1>5. req \in [Slots -> FolderRequests] /\ \A r \in Slots : RequestFits(req[r])
  BY IdleFits DEF FolderInit
<1>6. MovesKeepATree
  BY DEF FolderInit, MovesKeepATree
<1> QED  BY <1>1, <1>2, <1>3, <1>4, <1>5, <1>6 DEF TreeInv, FolderShape, FilesFit

-----------------------------------------------------------------------------
(* What a deletion has seen inside                                         *)

\* The folders on the way up from h to f, both with them.
UpTo(h, f) ==
  {a \in FolderIds :
     \A S \in SUBSET FolderIds :
        (h \in S /\ \A x \in S \ {f} : parent[x] \in FolderIds => parent[x] \in S) => a \in S}

\* A document that a deletion has seen inside and nobody has touched since is live and in a folder
\* below the one that is deleted.  A folder on the way there is found when its parent has been read;
\* then the document's folder is in the list, and at last the document is held.
InsideFits(q) ==
  \A d \in q.inside :
    /\ q.op = "delete" /\ doc[d].state = "live"
    /\ q.pc = "collect" =>
         /\ doc[d].home \in FolderIds /\ q.f \in FolderIds
         /\ q.f \in UpTo(doc[d].home, q.f)
         /\ q.f \in q.ids \cup q.todo
         /\ \A c \in UpTo(doc[d].home, q.f) \ {q.f} : parent[c] \in q.ids => c \in q.ids \cup q.todo
    /\ q.pc = "trash" => d \in q.held \/ doc[d].home \in q.todo
    /\ q.pc = "commit" => d \in q.held

InsideInv == \A r \in Slots : InsideFits(req[r])

\* From below a folder there is a way to it, and all on that way lie below it.
LEMMA WayToIt ==
    ASSUME NEW h \in FolderIds, NEW f \in FolderIds
    PROVE  /\ f \in Above(h) => f \in UpTo(h, f)
           /\ h \in UpTo(h, f) /\ UpTo(h, f) \subseteq FolderIds
           /\ UpTo(h, f) \subseteq Above(h)
           /\ \A x \in UpTo(h, f) \ {f} : parent[x] \in FolderIds => parent[x] \in UpTo(h, f)
<1>1. h \in UpTo(h, f) /\ UpTo(h, f) \subseteq FolderIds
  BY DEF UpTo
<1>2. \A x \in UpTo(h, f) \ {f} : parent[x] \in FolderIds => parent[x] \in UpTo(h, f)
  BY DEF UpTo
<1>3. ASSUME f \in Above(h) PROVE f \in UpTo(h, f)
  <2> SUFFICES ASSUME f \notin UpTo(h, f) PROVE FALSE
    OBVIOUS
  <2>1. \A x \in UpTo(h, f) : parent[x] \in FolderIds => parent[x] \in UpTo(h, f)
    BY <1>2
  <2>2. f \in UpTo(h, f)
    BY <1>1, <1>3, <2>1 DEF Above
  <2> QED  BY <2>2
<1>4. UpTo(h, f) \subseteq Above(h)
  BY DEF UpTo, Above
<1> QED  BY <1>1, <1>2, <1>3, <1>4

LEMMA WayIsBelow ==
    ASSUME NEW h \in FolderIds, NEW f \in FolderIds, f \in UpTo(h, f)
    PROVE  UpTo(h, f) \subseteq Below(f)
<1> DEFINE S == {a \in UpTo(h, f) : f \in Above(a)}
<1>1. h \in S
  BY WayToIt DEF UpTo, Above
<1>2. ASSUME NEW x \in S, x # f, parent[x] \in FolderIds PROVE parent[x] \in S
  <2>1. parent[x] \in UpTo(h, f)
    BY <1>2, WayToIt
  <2>2. ASSUME NEW W \in SUBSET FolderIds, parent[x] \in W,
               \A g \in W : parent[g] \in FolderIds => parent[g] \in W
        PROVE  f \in W
    <3> DEFINE V == W \cup {x}
    <3>1. V \in SUBSET FolderIds /\ x \in V
      BY WayToIt
    <3>2. \A g \in V : parent[g] \in FolderIds => parent[g] \in V
      BY <2>2
    <3> HIDE DEF V
    <3>3. f \in V
      BY <3>1, <3>2 DEF Above
    <3> QED  BY <1>2, <3>3 DEF V
  <2> QED  BY <2>1, <2>2 DEF Above
<1>3. S \in SUBSET FolderIds
  BY WayToIt
<1> HIDE DEF S
<1>4. UpTo(h, f) \subseteq S
  BY <1>1, <1>2, <1>3 DEF UpTo
<1> QED  BY <1>4, WayToIt DEF Below, S

\* The way stays as long as no folder on it gets another parent.
LEMMA WayStays ==
    ASSUME NEW h \in FolderIds, NEW f \in FolderIds,
           \A a \in UpTo(h, f) : parent'[a] = parent[a]
    PROVE  {a \in FolderIds :
              \A S \in SUBSET FolderIds :
                (h \in S /\ \A x \in S \ {f} : parent'[x] \in FolderIds => parent'[x] \in S)
                  => a \in S} = UpTo(h, f)
<1> DEFINE U == UpTo(h, f)
           V == {a \in FolderIds :
                   \A S \in SUBSET FolderIds :
                     (h \in S /\ \A x \in S \ {f} : parent'[x] \in FolderIds => parent'[x] \in S)
                       => a \in S}
<1>1. U \in SUBSET FolderIds /\ h \in U
      /\ \A x \in U \ {f} : parent[x] \in FolderIds => parent[x] \in U
  BY WayToIt
<1>2. /\ V \in SUBSET FolderIds /\ h \in V
      /\ \A x \in V \ {f} : parent'[x] \in FolderIds => parent'[x] \in V
  OBVIOUS
<1>3. V \subseteq U
  <2>1. \A x \in U \ {f} : parent'[x] \in FolderIds => parent'[x] \in U
    BY <1>1
  <2> HIDE DEF U
  <2> QED  BY <1>1, <2>1
<1>4. U \subseteq V
  <2>1. \A x \in V \ {f} : parent[x] \in FolderIds => parent[x] \in V
    BY <1>2, <1>3
  <2> HIDE DEF V
  <2> QED  BY <1>2, <2>1 DEF UpTo
<1> QED  BY <1>3, <1>4

\* What others do that does not concern what is inside.
LEMMA InsideStays ==
    ASSUME TreeInv, NEW s \in Slots, InsideFits(req[s]), SameRequest(req'[s], req[s]),
           req'[s].inside \subseteq req[s].inside,
           \A d \in req'[s].inside : doc'[d].state = doc[d].state /\ doc'[d].home = doc[d].home,
           req'[s].inside # {} =>
             \A a \in Folders \cap Below(req[s].f) : parent'[a] = parent[a]
    PROVE  InsideFits(req[s])'
<1> SUFFICES ASSUME NEW d \in req'[s].inside
             PROVE  (/\ req[s].op = "delete" /\ doc[d].state = "live"
                     /\ req[s].pc = "collect" =>
                          /\ doc[d].home \in FolderIds /\ req[s].f \in FolderIds
                          /\ req[s].f \in UpTo(doc[d].home, req[s].f)
                          /\ req[s].f \in req[s].ids \cup req[s].todo
                          /\ \A c \in UpTo(doc[d].home, req[s].f) \ {req[s].f} :
                               parent[c] \in req[s].ids => c \in req[s].ids \cup req[s].todo
                     /\ req[s].pc = "trash" => d \in req[s].held \/ doc[d].home \in req[s].todo
                     /\ req[s].pc = "commit" => d \in req[s].held)'
  BY DEF InsideFits
<1> DEFINE q == req[s]
           h == doc[d].home
<1>1. /\ d \in q.inside /\ doc'[d].state = doc[d].state /\ doc'[d].home = h
      /\ \A a \in Folders \cap Below(q.f) : parent'[a] = parent[a]
  OBVIOUS
<1>2. CASE q.pc = "collect"
  <2>1. /\ h \in FolderIds /\ q.f \in FolderIds /\ q.f \in UpTo(h, q.f)
        /\ q.f \in q.ids \cup q.todo
        /\ \A c \in UpTo(h, q.f) \ {q.f} : parent[c] \in q.ids => c \in q.ids \cup q.todo
    BY <1>1, <1>2 DEF InsideFits
  <2>2. d \in Docs /\ FolderShape
    BY <1>1 DEF TreeInv, FolderRequests
  <2>3. h \in Folders
    BY <2>1, <2>2, FolderAssumption DEF FolderShape, Exists
  <2>4. UpTo(h, q.f) \subseteq Folders \cap Below(q.f)
    BY <2>1, <2>2, <2>3, WayToIt, WayIsBelow, AboveIsThere
  <2>5. \A a \in UpTo(h, q.f) : parent'[a] = parent[a]
    BY <1>1, <2>4
  <2>6. {a \in FolderIds :
           \A S \in SUBSET FolderIds :
             (h \in S /\ \A x \in S \ {q.f} : parent'[x] \in FolderIds => parent'[x] \in S)
               => a \in S} = UpTo(h, q.f)
    BY <2>1, <2>5, WayStays
  <2>7. UpTo(doc[d].home, req[s].f)' = UpTo(h, q.f)
    <3>1. req'[s].f = q.f
      BY DEF SameRequest
    <3> QED  BY <1>1, <2>6, <3>1 DEF UpTo
  <2> QED  BY <1>1, <1>2, <2>1, <2>5, <2>7 DEF InsideFits, SameRequest
<1>3. CASE q.pc # "collect"
  BY <1>1, <1>3 DEF InsideFits, SameRequest
<1> QED  BY <1>2, <1>3

\* A request ends; what others have seen inside is where it was.
LEMMA InsideOthersStay ==
    ASSUME TreeInv, InsideInv, NEW r \in Slots, Ends(r),
           \A s \in Slots \ {r} :
              /\ req'[s].inside \subseteq req[s].inside
              /\ \A d \in req'[s].inside : doc'[d].state = doc[d].state /\ doc'[d].home = doc[d].home
              /\ req'[s].inside # {} =>
                   \A a \in Folders \cap Below(req[s].f) : parent'[a] = parent[a]
    PROVE  InsideInv'
<1>1. ASSUME NEW s \in Slots PROVE InsideFits(req[s])'
  <2>1. CASE s = r
    <3>1. req'[s].inside = {}
      BY <2>1 DEF Ends, FolderIdle
    <3> QED  BY <3>1 DEF InsideFits
  <2>2. CASE s # r
    BY <2>2, InsideStays DEF Ends, InsideInv
  <2> QED  BY <2>1, <2>2
<1> QED  BY <1>1 DEF InsideInv

LEMMA EndInside ==
    ASSUME TreeInv, InsideInv, NEW r \in Slots, End(r), doc' = doc,
           \A a \in Folders : parent'[a] = parent[a]
    PROVE  InsideInv'
<1>1. Ends(r) /\ \A s \in Slots \ {r} : req'[s] = req[s]
  BY EndIs DEF End, TreeInv
<1> QED  BY <1>1, InsideOthersStay

LEMMA EndTouchingInside ==
    ASSUME TreeInv, InsideInv, NEW r \in Slots, NEW changed, NEW touched,
           EndTouching(r, changed, touched),
           \A a \in Folders \ changed : parent'[a] = parent[a],
           \A d \in Docs \ touched : doc'[d].state = doc[d].state /\ doc'[d].home = doc[d].home
    PROVE  InsideInv'
<1>1. Ends(r)
  BY EndTouchingIs
<1>2. ASSUME NEW s \in Slots \ {r}
      PROVE  /\ req'[s].inside \subseteq req[s].inside \ touched
             /\ req'[s].inside # {} => changed \cap Below(req[s].f) = {}
  <2> DEFINE x == IF changed \cap req[s].ids # {} \/ changed \cap Below(req[s].f) # {}
                  THEN {} ELSE req[s].inside \ touched
  <2>1. req'[s] = [req[s] EXCEPT !.inside = x]
    BY DEF EndTouching
  <2>2. req[s] \in FolderRequests
    BY DEF TreeInv
  <2>3. req'[s].inside = x
    BY <2>1, <2>2 DEF FolderRequests
  <2> QED  BY <2>3
<1>3. ASSUME NEW s \in Slots \ {r}
      PROVE  /\ \A d \in req'[s].inside : doc'[d].state = doc[d].state /\ doc'[d].home = doc[d].home
             /\ req'[s].inside # {} =>
                  \A a \in Folders \cap Below(req[s].f) : parent'[a] = parent[a]
  <2>1. req[s].inside \subseteq Docs
    BY DEF TreeInv, FolderRequests
  <2> QED  BY <1>2, <2>1
<1> QED  BY <1>1, <1>2, <1>3, InsideOthersStay

\* A request begins or reads.
LEMMA ReadsInside ==
    ASSUME TreeInv, InsideInv, NEW r \in Slots, InsideFits(req'[r]), req'[r].inside \subseteq Docs,
           \A s \in Slots \ {r} : req'[s] = req[s], parent' = parent,
           \A d \in Docs : doc'[d].state = doc[d].state /\ doc'[d].home = doc[d].home
    PROVE  InsideInv'
<1>1. ASSUME NEW s \in Slots, NEW t, req'[s] = t, InsideFits(t), t.inside \subseteq Docs
      PROVE  InsideFits(req[s])'
  BY <1>1 DEF InsideFits, UpTo
<1>2. ASSUME NEW s \in Slots \ {r} PROVE InsideFits(req[s])'
  <2>1. req'[s] = req[s] /\ InsideFits(req[s]) /\ req[s].inside \subseteq Docs
    BY DEF TreeInv, FolderRequests, InsideInv
  <2> QED  BY <1>1, <2>1
<1>3. InsideFits(req[r])'
  BY <1>1
<1> QED  BY <1>2, <1>3 DEF InsideInv

LEMMA NothingInside ==
    ASSUME TreeInv, InsideInv, NEW r \in Slots, req'[r].inside = {},
           \A s \in Slots \ {r} : req'[s] = req[s], parent' = parent,
           \A d \in Docs : doc'[d].state = doc[d].state /\ doc'[d].home = doc[d].home
    PROVE  InsideInv'
<1>1. InsideFits(req'[r]) /\ req'[r].inside \subseteq Docs
  BY DEF InsideFits
<1> QED  BY <1>1, ReadsInside

LEMMA StartInside ==
    ASSUME TreeInv, InsideInv, NEW r \in Slots, NEW q, q.inside = {}, Start(r, q),
           UNCHANGED <<FolderRows, FolderHistory>>
    PROVE  InsideInv'
<1>1. req'[r].inside = {} /\ (\A s \in Slots \ {r} : req'[s] = req[s])
  BY DEF Start, TreeInv
<1>2. parent' = parent /\ doc' = doc
  BY DEF FolderRows
<1> QED  BY <1>1, <1>2, NothingInside

LEMMA DeleteStartInside ==
    ASSUME TreeInv, InsideInv, NEW r \in Slots, NEW f \in FolderIds, DeleteStart(r, f)
    PROVE  InsideInv'
<1> DEFINE q == [FolderIdle EXCEPT !.op = "delete", !.pc = "collect", !.f = f, !.todo = {f},
                                   !.inside = In(Below(f))]
<1>1. /\ q.op = "delete" /\ q.pc = "collect" /\ q.f = f /\ q.todo = {f} /\ q.ids = {}
      /\ q.inside = In(Below(f))
  BY DEF FolderIdle
<1>2. req'[r] = q /\ (\A s \in Slots \ {r} : req'[s] = req[s]) /\ parent' = parent /\ doc' = doc
  BY DEF DeleteStart, Start, TreeInv, FolderRows
<1> HIDE DEF q
<1>3. ASSUME NEW d \in q.inside
      PROVE  /\ d \in Docs /\ doc[d].state = "live" /\ doc[d].home \in FolderIds
             /\ f \in UpTo(doc[d].home, f)
  <2>1. d \in Docs /\ doc[d].state = "live" /\ doc[d].home \in Below(f)
    BY <1>1, <1>3 DEF In, LiveDocs
  <2>2. doc[d].home \in FolderIds /\ f \in Above(doc[d].home)
    BY <2>1 DEF Below
  <2> QED  BY <2>1, <2>2, WayToIt
<1>4. InsideFits(q) /\ q.inside \subseteq Docs
  BY <1>1, <1>3 DEF InsideFits
<1> QED  BY <1>2, <1>4, ReadsInside

LEMMA FolderStartInside ==
    ASSUME TreeInv, InsideInv, NEW r \in Slots, FolderStart(r)
    PROVE  InsideInv'
<1>1. ASSUME NEW q, Start(r, q), UNCHANGED <<FolderRows, FolderHistory>>, q.inside = {}
      PROVE  InsideInv'
  BY <1>1, StartInside
<1> USE DEF FolderIdle
<1>2. ASSUME NEW p \in FolderIds \cup {Root}, NEW n \in Names, CreateFolder(r, p, n) PROVE InsideInv'
  BY <1>1, <1>2 DEF CreateFolder
<1>3. ASSUME NEW p, NEW path, BulkStart(r, p, path) PROVE InsideInv'
  BY <1>1, <1>3 DEF BulkStart
<1>4. ASSUME NEW f, NEW p, NEW n, MoveStart(r, f, p, n) PROVE InsideInv'
  BY <1>1, <1>4 DEF MoveStart
<1>5. ASSUME NEW f, NEW p, NEW n, DriveRename(r, f, p, n) PROVE InsideInv'
  BY <1>1, <1>5 DEF DriveRename
<1>6. ASSUME NEW f \in FolderIds, DeleteStart(r, f) PROVE InsideInv'
  BY <1>6, DeleteStartInside
<1>7. ASSUME NEW f, RmdirStart(r, f) PROVE InsideInv'
  BY <1>1, <1>7 DEF RmdirStart
<1>8. ASSUME NEW d, NEW p, Upload(r, d, p) PROVE InsideInv'
  BY <1>1, <1>8 DEF Upload
<1>9. ASSUME NEW ds, TrashDocs(r, ds) \/ RestoreDocs(r, ds) \/ PurgeStart(r, ds) PROVE InsideInv'
  BY <1>1, <1>9 DEF TrashDocs, RestoreDocs, PurgeStart
<1>10. ASSUME NEW ds, NEW p, NEW overwrite, MoveDocs(r, ds, p, overwrite) PROVE InsideInv'
  BY <1>1, <1>10 DEF MoveDocs
<1> QED  BY <1>2, <1>3, <1>4, <1>5, <1>6, <1>7, <1>8, <1>9, <1>10 DEF FolderStart

LEMMA OthersReadInside ==
    ASSUME TreeInv, InsideInv, NEW r \in Slots,
           BulkPart(r) \/ MoveWalk(r) \/ PurgeUnlink(r)
    PROVE  InsideInv'
<1> DEFINE q == req[r]
<1>1. q \in FolderRequests /\ RequestFits(q) /\ InsideFits(q)
  BY DEF TreeInv, InsideInv
<1>2. q.pc \in {"part", "walk", "unlink"}
  BY DEF BulkPart, MoveWalk, PurgeUnlink
<1>3. q.inside = {}
  BY <1>1, <1>2 DEF RequestFits, InsideFits
<1>4. CASE BulkPart(r) \/ MoveWalk(r)
  <2>1. parent' = parent /\ doc' = doc
    BY <1>4 DEF BulkPart, MoveWalk, FolderRows
  <2>2. CASE End(r)
    BY <2>1, <2>2, EndInside
  <2>3. ASSUME ~End(r)
        PROVE  req'[r].inside = q.inside /\ \A s \in Slots \ {r} : req'[s] = req[s]
    <3>1. CASE BulkPart(r)
      <4>1. CASE req' = [req EXCEPT ![r].made = q.parts, ![r].parts = <<>>, ![r].pc = "commit"]
        BY <1>1, <4>1 DEF TreeInv, FolderRequests
      <4>2. ASSUME NEW f,
                   req' = [req EXCEPT ![r].at = f, ![r].parts = Tail(@),
                                      ![r].pc = IF Len(q.parts) = 1 THEN "commit" ELSE "part"]
            PROVE  req'[r].inside = q.inside /\ \A s \in Slots \ {r} : req'[s] = req[s]
        BY <1>1, <4>2 DEF TreeInv, FolderRequests
      <4> QED  BY <2>3, <3>1, <4>1, <4>2 DEF BulkPart
    <3>2. CASE MoveWalk(r)
      BY <1>1, <2>3, <3>2 DEF MoveWalk, TreeInv, FolderRequests
    <3> QED  BY <1>4, <3>1, <3>2
  <2> QED  BY <1>3, <2>1, <2>2, <2>3, NothingInside
<1>5. CASE PurgeUnlink(r)
  <2>1. parent' = parent /\ req' = [req EXCEPT ![r].pc = "commit"]
    BY <1>5 DEF PurgeUnlink
  <2>2. req'[r].inside = {} /\ \A s \in Slots \ {r} : req'[s] = req[s]
    BY <1>1, <1>3, <2>1 DEF TreeInv, FolderRequests
  <2>3. ASSUME NEW d \in Docs
        PROVE  doc'[d].state = doc[d].state /\ doc'[d].home = doc[d].home
    <3>1. PICK left \in SUBSET q.ds :
            doc' = [e \in Docs |-> [doc[e] EXCEPT !.file = @ /\ e \notin q.ds \ left]]
      BY <1>5 DEF PurgeUnlink
    <3> DEFINE file == doc[d].file /\ d \notin q.ds \ left
    <3>2. doc'[d] = [doc[d] EXCEPT !.file = file]
      BY <3>1
    <3>3. doc[d] \in DocStates
      BY DEF TreeInv, FolderShape
    <3> HIDE DEF file
    <3> QED  BY <3>2, <3>3 DEF DocStates
  <2> QED  BY <2>1, <2>2, <2>3, NothingInside
<1> QED  BY <1>4, <1>5

\* A folder on the way is in the list when its parent has been read.  When nothing is left to
\* read, the whole way is in it: else the folder that is deleted would not be.
LEMMA DeleteCollectInside ==
    ASSUME TreeInv, InsideInv, NEW r \in Slots, DeleteCollect(r)
    PROVE  InsideInv'
<1> DEFINE q == req[r]
<1>1. /\ q.pc = "collect" /\ parent' = parent /\ doc' = doc
      /\ q \in FolderRequests /\ InsideFits(q)
  BY DEF DeleteCollect, FolderRows, TreeInv, InsideInv
<1>2. CASE End(r)
  BY <1>1, <1>2, EndInside
<1>3. ASSUME ~End(r) PROVE InsideInv'
  <2>1. PICK g \in q.todo :
          LET children == {c \in Folders : parent[c] = g}
              ids == q.ids \cup {g}
          IN req' = [req EXCEPT ![r].ids = ids,
                       ![r].todo = IF (@ \ {g}) \cup (children \ ids) = {}
                                   THEN ids ELSE (@ \ {g}) \cup (children \ ids),
                       ![r].pc = IF (q.todo \ {g}) \cup (children \ ids) = {}
                                 THEN "trash" ELSE "collect"]
    BY <1>3 DEF DeleteCollect
  <2> DEFINE children == {c \in Folders : parent[c] = g}
             ids == q.ids \cup {g}
             rest == (q.todo \ {g}) \cup (children \ ids)
             todo == IF rest = {} THEN ids ELSE rest
             step == IF rest = {} THEN "trash" ELSE "collect"
             t == [q EXCEPT !.ids = ids, !.todo = todo, !.pc = step]
  <2>2. req' = [req EXCEPT ![r] = t]
    BY <2>1 DEF TreeInv
  <2>3. /\ t.op = q.op /\ t.f = q.f /\ t.inside = q.inside /\ t.held = q.held
        /\ t.ids = ids /\ t.todo = todo /\ t.pc = step
    <3> HIDE DEF ids, todo, step
    <3> QED  BY <1>1 DEF FolderRequests
  <2>4. req'[r] = t /\ (\A s \in Slots \ {r} : req'[s] = req[s]) /\ q.inside \subseteq Docs
    BY <1>1, <2>2 DEF TreeInv, FolderRequests
  <2> HIDE DEF t
  <2>5. ASSUME NEW d \in q.inside
        PROVE  /\ q.op = "delete" /\ doc[d].state = "live"
               /\ doc[d].home \in FolderIds /\ q.f \in FolderIds
               /\ q.f \in UpTo(doc[d].home, q.f)
               /\ q.f \in ids \cup rest
               /\ \A c \in UpTo(doc[d].home, q.f) \ {q.f} : parent[c] \in ids => c \in ids \cup rest
    <3>1. /\ q.op = "delete" /\ doc[d].state = "live"
          /\ doc[d].home \in FolderIds /\ q.f \in FolderIds
          /\ q.f \in UpTo(doc[d].home, q.f)
          /\ q.f \in q.ids \cup q.todo
          /\ \A c \in UpTo(doc[d].home, q.f) \ {q.f} : parent[c] \in q.ids => c \in q.ids \cup q.todo
      BY <1>1 DEF InsideFits
    <3>2. ASSUME NEW c \in UpTo(doc[d].home, q.f) \ {q.f}, parent[c] \in ids
          PROVE  c \in ids \cup rest
      <4>1. CASE parent[c] \in q.ids
        BY <3>1, <4>1
      <4>2. CASE parent[c] = g
        <5>1. c \in FolderIds /\ g \in FolderIds
          BY <1>1, <3>1, WayToIt DEF FolderRequests
        <5>2. c \in Folders
          BY <4>2, <5>1, FolderAssumption DEF Folders
        <5> QED  BY <4>2, <5>2
      <4> QED  BY <3>2, <4>1, <4>2
    <3> QED  BY <3>1, <3>2
  <2>6. ASSUME NEW d \in q.inside, rest = {} PROVE doc[d].home \in ids
    <3> DEFINE h == doc[d].home
               S == {x \in UpTo(h, q.f) : x \notin ids}
    <3>1. /\ S \in SUBSET FolderIds
          /\ \A x \in UpTo(h, q.f) \ {q.f} : parent[x] \in FolderIds => parent[x] \in UpTo(h, q.f)
          /\ h \in UpTo(h, q.f)
      BY <2>5, WayToIt
    <3>2. \A x \in S \ {q.f} : parent[x] \in FolderIds => parent[x] \in S
      BY <2>5, <2>6, <3>1
    <3>3. q.f \notin S
      BY <2>5, <2>6
    <3>4. q.f \in UpTo(h, q.f)
      BY <2>5
    <3> HIDE DEF S
    <3>5. h \notin S
      BY <3>1, <3>2, <3>3, <3>4 DEF UpTo
    <3> QED  BY <3>1, <3>5 DEF S
  <2>7. InsideFits(t)
    <3> SUFFICES ASSUME NEW d \in q.inside
                 PROVE  /\ t.op = "delete" /\ doc[d].state = "live"
                        /\ t.pc = "collect" =>
                             /\ doc[d].home \in FolderIds /\ t.f \in FolderIds
                             /\ t.f \in UpTo(doc[d].home, t.f)
                             /\ t.f \in t.ids \cup t.todo
                             /\ \A c \in UpTo(doc[d].home, t.f) \ {t.f} :
                                  parent[c] \in t.ids => c \in t.ids \cup t.todo
                        /\ t.pc = "trash" => d \in t.held \/ doc[d].home \in t.todo
                        /\ t.pc = "commit" => d \in t.held
      BY <2>3 DEF InsideFits
    <3>1. CASE rest = {}
      <4>1. t.pc = "trash" /\ t.todo = ids
        BY <2>3, <3>1
      <4> QED  BY <2>3, <2>5, <2>6, <3>1, <4>1
    <3>2. CASE rest # {}
      <4>1. t.pc = "collect" /\ t.todo = rest
        BY <2>3, <3>2
      <4> QED  BY <2>3, <2>5, <4>1
    <3> QED  BY <3>1, <3>2
  <2> QED  BY <1>1, <2>3, <2>4, <2>7, ReadsInside
<1> QED  BY <1>2, <1>3

LEMMA DeleteTrashInside ==
    ASSUME TreeInv, InsideInv, NEW r \in Slots, DeleteTrash(r)
    PROVE  InsideInv'
<1> DEFINE q == req[r]
<1>1. /\ q.pc = "trash" /\ parent' = parent /\ doc' = doc
      /\ q \in FolderRequests /\ InsideFits(q)
  BY DEF DeleteTrash, FolderRows, TreeInv, InsideInv
<1>2. PICK g \in q.todo :
        req' = [req EXCEPT ![r].held = @ \cup In({g}), ![r].todo = @ \ {g},
                           ![r].pc = IF q.todo = {g} THEN "commit" ELSE "trash"]
  BY DEF DeleteTrash
<1> DEFINE step == IF q.todo = {g} THEN "commit" ELSE "trash"
           t == [q EXCEPT !.held = @ \cup In({g}), !.todo = @ \ {g}, !.pc = step]
<1>3. req' = [req EXCEPT ![r] = t]
  BY <1>2 DEF TreeInv
<1>4. /\ t.op = q.op /\ t.inside = q.inside /\ t.held = q.held \cup In({g})
      /\ t.todo = q.todo \ {g} /\ t.pc = step
  <2> HIDE DEF step
  <2> QED  BY <1>1 DEF FolderRequests
<1>5. req'[r] = t /\ (\A s \in Slots \ {r} : req'[s] = req[s]) /\ q.inside \subseteq Docs
  BY <1>1, <1>3 DEF TreeInv, FolderRequests
<1> HIDE DEF t
<1>6. ASSUME NEW d \in q.inside
      PROVE  /\ q.op = "delete" /\ doc[d].state = "live"
             /\ d \in t.held \/ doc[d].home \in t.todo
             /\ t.pc = "commit" => d \in t.held
  <2>1. /\ q.op = "delete" /\ doc[d].state = "live" /\ d \in Docs
        /\ d \in q.held \/ doc[d].home \in q.todo
    BY <1>1, <1>5 DEF InsideFits
  <2>2. doc[d].home = g => d \in In({g})
    BY <2>1 DEF In, LiveDocs
  <2> QED  BY <1>4, <2>1, <2>2
<1>7. InsideFits(t)
  BY <1>4, <1>6 DEF InsideFits
<1> QED  BY <1>1, <1>4, <1>5, <1>7, ReadsInside

LEMMA FoldersCommitInside ==
    ASSUME TreeInv, InsideInv, NEW r \in Slots,
           CreateCommit(r) \/ BulkCommit(r) \/ MoveCommit(r)
    PROVE  InsideInv'
<1> DEFINE q == req[r]
<1>1. doc' = doc /\ FolderShape
  BY DEF CreateCommit, BulkCommit, MoveCommit, TreeInv
<1>2. CASE CreateCommit(r)
  <2>1. \A a \in Folders : parent'[a] = parent[a]
    BY <1>1, <1>2 DEF CreateCommit, Folders, FolderShape
  <2> QED  BY <1>1, <1>2, <2>1, EndInside DEF CreateCommit
<1>3. CASE BulkCommit(r)
  <2>1. ASSUME parent' # parent, NEW a \in Folders PROVE parent'[a] = parent[a]
    <3>1. PICK c \in [1..Len(q.made) -> {f \in FolderIds : parent[f] = Unused}] :
            parent' = [f \in FolderIds |->
                         IF \E i \in 1..Len(q.made) : c[i] = f
                         THEN LET i == CHOOSE i \in 1..Len(q.made) : c[i] = f
                              IN IF i = 1 THEN q.at ELSE c[i - 1]
                         ELSE parent[f]]
      BY <1>3, <2>1 DEF BulkCommit
    <3>2. a \in FolderIds /\ ~\E i \in 1..Len(q.made) : c[i] = a
      BY DEF Folders
    <3> QED  BY <3>1, <3>2
  <2>2. \A a \in Folders : parent'[a] = parent[a]
    BY <2>1
  <2> QED  BY <1>1, <1>3, <2>2, EndInside DEF BulkCommit
<1>4. CASE MoveCommit(r)
  <2>1. CASE End(r) /\ UNCHANGED <<parent, name, blind>>
    BY <1>1, <2>1, EndInside
  <2>2. CASE parent' = [parent EXCEPT ![q.f] = NewParent(q)] /\ EndTouching(r, {q.f}, {})
    <3>1. \A a \in Folders \ {q.f} : parent'[a] = parent[a]
      BY <1>1, <2>2 DEF Folders, FolderShape
    <3> QED  BY <1>1, <2>2, <3>1, EndTouchingInside
  <2> QED  BY <1>4, <2>1, <2>2 DEF MoveCommit
<1> QED  BY <1>2, <1>3, <1>4

\* Whatever changes of a document is touched, and a folder that is there and gets another parent
\* is removed or was put under one that is.
LEMMA DeleteCommitInside ==
    ASSUME TreeInv, InsideInv, NEW r \in Slots, DeleteCommit(r)
    PROVE  /\ InsideInv'
           /\ \A d \in req[r].inside : doc'[d].state = "trash"
<1> DEFINE q == req[r]
           late == {c \in Folders \ q.ids : parent[c] \in q.ids}
<1>1. PICK cascade \in SUBSET late :
        LET removed == (q.ids \cup UNION {Below(c) : c \in cascade}) \ (late \ cascade)
            homeless == {d \in Docs : doc[d].home \in removed}
        IN /\ homeless \cap Locked(r) = {}
           /\ parent' = [f \in FolderIds |->
                IF f \in removed THEN Gone ELSE IF parent[f] \in removed THEN Root ELSE parent[f]]
           /\ doc' = [d \in Docs |->
                [doc[d] EXCEPT !.state = IF d \in q.held THEN "trash" ELSE @,
                               !.home = IF d \in homeless \cup q.held THEN Root ELSE @]]
           /\ EndTouching(r, removed \cup late, homeless \cup q.held)
  BY DEF DeleteCommit
<1> DEFINE removed == (q.ids \cup UNION {Below(c) : c \in cascade}) \ (late \ cascade)
           homeless == {d \in Docs : doc[d].home \in removed}
<1>2. /\ parent' = [f \in FolderIds |->
           IF f \in removed THEN Gone ELSE IF parent[f] \in removed THEN Root ELSE parent[f]]
      /\ doc' = [d \in Docs |->
           [doc[d] EXCEPT !.state = IF d \in q.held THEN "trash" ELSE @,
                          !.home = IF d \in homeless \cup q.held THEN Root ELSE @]]
      /\ EndTouching(r, removed \cup late, homeless \cup q.held)
  BY <1>1
<1>3. q.pc = "commit" /\ FolderShape /\ q \in FolderRequests /\ InsideFits(q)
  BY DEF DeleteCommit, TreeInv, InsideInv
<1>4. ASSUME NEW a \in Folders, a \notin removed \cup late PROVE parent'[a] = parent[a]
  <2>1. a \in FolderIds /\ a \notin removed /\ a \notin late
    BY <1>4 DEF Folders
  <2>2. ASSUME parent[a] \in removed PROVE FALSE
    <3>1. a \notin q.ids /\ \A c \in cascade : a \notin Below(c)
      BY <2>1
    <3>2. parent[a] \notin q.ids
      BY <2>1, <3>1
    <3>3. PICK c \in cascade : parent[a] \in Below(c)
      BY <2>2, <3>2
    <3>4. a \in Below(c)
      <4>1. c \in Above(parent[a]) /\ parent[a] \in FolderIds
        BY <3>3 DEF Below
      <4>2. c \in Above(a)
        BY <2>1, <4>1 DEF Above
      <4> QED  BY <2>1, <4>2 DEF Below
    <3> QED  BY <3>1, <3>4
  <2> HIDE DEF removed
  <2> QED  BY <1>2, <2>1, <2>2
<1> HIDE DEF removed
<1>5. ASSUME NEW d \in Docs
      PROVE  /\ doc'[d].state = IF d \in q.held THEN "trash" ELSE doc[d].state
             /\ doc'[d].home = IF d \in homeless \cup q.held THEN Root ELSE doc[d].home
  <2>1. doc[d] \in DocStates
    BY <1>3 DEF FolderShape
  <2> DEFINE s == IF d \in q.held THEN "trash" ELSE doc[d].state
             h == IF d \in homeless \cup q.held THEN Root ELSE doc[d].home
  <2>2. doc'[d] = [doc[d] EXCEPT !.state = s, !.home = h]
    BY <1>2
  <2> HIDE DEF s, h, homeless
  <2>3. doc'[d].state = s /\ doc'[d].home = h
    BY <2>1, <2>2 DEF DocStates
  <2> QED  BY <2>3 DEF s, h
<1>6. InsideInv'
  <2>1. \A d \in Docs \ (homeless \cup q.held) :
          doc'[d].state = doc[d].state /\ doc'[d].home = doc[d].home
    BY <1>5
  <2> HIDE DEF late, homeless
  <2> QED  BY <1>2, <1>4, <2>1, EndTouchingInside
<1>7. ASSUME NEW d \in q.inside PROVE doc'[d].state = "trash"
  <2>1. d \in q.held /\ d \in Docs
    BY <1>3 DEF InsideFits, FolderRequests
  <2> QED  BY <1>5, <2>1
<1> QED  BY <1>6, <1>7

LEMMA DocsCommitInside ==
    ASSUME TreeInv, InsideInv, NEW r \in Slots,
           DocsCommit(r) \/ PurgeCommit(r) \/ PurgeFails(r) \/ Refused(r)
    PROVE  InsideInv'
<1> DEFINE q == req[r]
<1>1. parent' = parent
  BY DEF DocsCommit, PurgeCommit, PurgeFails, Refused, FolderRows
<1>2. CASE End(r) /\ doc' = doc
  BY <1>1, <1>2, EndInside
<1>3. CASE DocsCommit(r)
  <2>1. CASE /\ doc' = [d \in Docs |-> IF d \in q.ds \cup q.over THEN WrittenDoc(q, d) ELSE doc[d]]
             /\ EndTouching(r, {}, q.ds \cup q.over)
    <3>1. \A d \in Docs \ (q.ds \cup q.over) :
            doc'[d].state = doc[d].state /\ doc'[d].home = doc[d].home
      BY <2>1
    <3> QED  BY <1>1, <2>1, <3>1, EndTouchingInside
  <2> QED  BY <1>2, <1>3, <2>1 DEF DocsCommit
<1>4. CASE PurgeCommit(r)
  <2>1. /\ doc' = [d \in Docs |-> PurgedRow(q, d)]
        /\ EndTouching(r, {}, q.ds)
    BY <1>4 DEF PurgeCommit
  <2>2. \A d \in Docs \ q.ds : doc'[d].state = doc[d].state /\ doc'[d].home = doc[d].home
    BY <2>1 DEF PurgedRow
  <2> QED  BY <1>1, <2>1, <2>2, EndTouchingInside
<1>5. CASE PurgeFails(r) \/ Refused(r)
  BY <1>2, <1>5 DEF PurgeFails, Refused, FolderRows
<1> QED  BY <1>3, <1>4, <1>5

LEMMA InsideInvKept == TreeInv /\ InsideInv /\ [FolderNext]_folderVars => InsideInv'
<1> SUFFICES ASSUME TreeInv, InsideInv, [FolderNext]_folderVars PROVE InsideInv'
  OBVIOUS
<1>1. ASSUME NEW r \in Slots, FolderStep(r) PROVE InsideInv'
  BY <1>1, OthersReadInside, DeleteCollectInside, DeleteTrashInside, FoldersCommitInside,
     DeleteCommitInside, DocsCommitInside DEF FolderStep
<1>2. CASE UNCHANGED folderVars
  BY <1>2 DEF folderVars, InsideInv, InsideFits, UpTo
<1> QED  BY <1>1, <1>2, FolderStartInside DEF FolderNext

\* A request goes on by its own steps only.
LEMMA OthersWait ==
    ASSUME TreeInv, NEW s \in Slots, FolderStart(s) \/ FolderStep(s), NEW r \in Slots \ {s}
    PROVE  req'[r].pc = req[r].pc
<1>1. ASSUME NEW q, Start(s, q) PROVE req'[r] = req[r]
  BY <1>1 DEF Start, TreeInv
<1>2. ASSUME FolderStart(s) PROVE req'[r].pc = req[r].pc
  <2>1. \E q : Start(s, q)
    BY <1>2 DEF FolderStart, CreateFolder, BulkStart, MoveStart, DriveRename, DeleteStart,
                RmdirStart, Upload, TrashDocs, RestoreDocs, PurgeStart, MoveDocs
  <2> QED  BY <1>1, <2>1
<1>3. ASSUME Ends(s) PROVE req'[r].pc = req[r].pc
  BY <1>3 DEF Ends, SameRequest
<1>4. CASE BulkPart(s) \/ MoveWalk(s) \/ DeleteCollect(s) \/ DeleteTrash(s) \/ PurgeUnlink(s)
  BY <1>3, <1>4, EndIs
     DEF BulkPart, MoveWalk, DeleteCollect, DeleteTrash, PurgeUnlink, TreeInv
<1>5. CASE CreateCommit(s) \/ BulkCommit(s) \/ PurgeFails(s) \/ Refused(s)
  BY <1>3, <1>5, EndIs DEF CreateCommit, BulkCommit, PurgeFails, Refused
<1>6. CASE MoveCommit(s) \/ DeleteCommit(s) \/ DocsCommit(s) \/ PurgeCommit(s)
  <2>1. End(s) \/ \E changed, touched : EndTouching(s, changed, touched)
    BY <1>6 DEF MoveCommit, DeleteCommit, DocsCommit, PurgeCommit
  <2> QED  BY <1>3, <2>1, EndIs, EndTouchingIs
<1> QED  BY <1>2, <1>4, <1>5, <1>6 DEF FolderStep

-----------------------------------------------------------------------------
(* Theorems about folders                                                  *)

\* The inductive invariant of the folders: parents and homes are there, the way that a move has read
\* ends at the root or at a folder that is gone, a document that a deletion holds is there, and
\* files are missing only while a purge is under way or when it has failed.
THEOREM FolderInvariant == FolderSpec => []TreeInv
<1> QED  BY FoldersStartFit, TreeInvKept, PTL DEF FolderSpec

\* Folders, documents and requests have their types.
THEOREM FolderTypes == FolderSpec => []FolderTypeOK
<1>1. ASSUME TreeInv PROVE FolderTypeOK
  <2> USE <1>1
  <2>1. ASSUME NEW r \in Slots
        PROVE  /\ req[r].pc \in {"idle", "part", "walk", "collect", "trash", "unlink", "commit"}
               /\ req[r].ids \cup req[r].todo \subseteq FolderIds
               /\ req[r].held \cup req[r].ds \cup req[r].over \cup req[r].inside \subseteq Docs
               /\ req[r].edges \subseteq FolderIds \X (FolderIds \cup {Root})
    <3>1. req[r] \in FolderRequests
      BY DEF TreeInv
    <3> QED  BY <3>1 DEF FolderRequests, RequestSteps, Places
  <2>2. parent \in [FolderIds -> FolderIds \cup {Root, Unused, Gone}]
    BY DEF TreeInv, FolderShape, Places, Absent
  <2> QED  BY <2>1, <2>2 DEF TreeInv, FolderShape, FolderTypeOK, DocStates, Places
<1> QED  BY <1>1, FolderInvariant, PTL

\* Whatever is created, moved, deleted, restored and purged at the same time, the folders are a
\* tree, every live document hangs on it and has its file, but for the exceptions that are named
\* (_check_no_cycle, delete_folder, the purge): for any folders, documents and requests.
THEOREM LiveIsFound == FolderSpec => []LiveIsFoundAndRead
<1>1. ASSUME TreeInv PROVE LiveIsFoundAndRead
  <2> USE <1>1
  <2>1. NothingIsUnreachable
    <3> SUFFICES ASSUME Acyclic, NEW d \in LiveDocs, doc[d].home # Root
                 PROVE  /\ doc[d].home \in Folders
                        /\ \E a \in Above(doc[d].home) : parent[a] = Root
      BY DEF TreeInv, MovesKeepATree, NothingIsUnreachable
    <3> DEFINE h == doc[d].home
    <3>1. h \in Folders /\ FolderShape
      BY DEF TreeInv, FolderShape, LiveDocs, Exists
    <3>2. /\ Above(h) \in SUBSET FolderIds /\ h \in Above(h)
          /\ \A a \in Above(h) : parent[a] \in Places
          /\ \A a \in Above(h) : parent[a] \in FolderIds => parent[a] \in Above(h)
      BY <3>1, AboveIsThere DEF Folders
    <3>3. PICK a \in Above(h) : parent[a] \notin Above(h)
      BY <3>2 DEF Acyclic
    <3> QED  BY <3>1, <3>2, <3>3 DEF Places
  <2>2. LiveMeansOnDisk
    BY DEF TreeInv, FilesFit, LiveMeansOnDisk, LiveDocs
  <2> QED  BY <2>1, <2>2 DEF TreeInv, LiveIsFoundAndRead
<1> QED  BY <1>1, FolderInvariant, PTL

\* A deletion trashes all that lay in the folder or below it when it began and that nobody else has
\* touched since (delete_folder: _collect_ids, the UPDATE per folder and the commit are three
\* reads and writes of one session among others): in a tree of any depth.  Another request that
\* writes a document touches it; one that moves or removes a folder inside touches all inside.
THEOREM SubtreeIsTaken == FolderSpec => DeleteTakesTheSubtree
<1>1. FolderInit => InsideInv
  BY DEF FolderInit, InsideInv, InsideFits, FolderIdle
<1>2. TreeInv /\ InsideInv /\ [FolderNext]_folderVars => InsideInv'
  BY InsideInvKept
<1>3. ASSUME TreeInv, InsideInv, [FolderNext]_folderVars
      PROVE  [\A r \in Slots :
                (req[r].op = "delete" /\ req[r].pc = "commit" /\ req'[r].pc = "idle"
                   /\ parent' # parent)
                  => \A d \in req[r].inside : doc'[d].state = "trash"]_folderVars
  <2> SUFFICES ASSUME NEW r \in Slots, req[r].op = "delete", req[r].pc = "commit",
                      req'[r].pc = "idle", parent' # parent, NEW d \in req[r].inside
               PROVE  doc'[d].state = "trash"
    OBVIOUS
  <2>1. PICK s \in Slots : FolderStart(s) \/ FolderStep(s)
    BY <1>3 DEF FolderNext, folderVars
  <2>2. s = r
    BY <1>3, <2>1, OthersWait
  <2>3. ~FolderStart(r)
    BY DEF FolderStart, CreateFolder, BulkStart, MoveStart, DriveRename, DeleteStart, RmdirStart,
           Upload, TrashDocs, RestoreDocs, PurgeStart, MoveDocs, Start, MayStart
  <2>4. DeleteCommit(r)
    BY <2>1, <2>2, <2>3 DEF FolderStep, CreateCommit, BulkPart, BulkCommit, MoveWalk, MoveCommit,
      DeleteCollect, DeleteTrash, DocsCommit, PurgeUnlink, PurgeCommit, PurgeFails, Refused, FolderRows
  <2> QED  BY <1>3, <2>4, DeleteCommitInside
<1> QED  BY <1>1, <1>2, <1>3, FolderInvariant, PTL DEF FolderSpec, DeleteTakesTheSubtree

-----------------------------------------------------------------------------
(* Notes                                                                   *)

NoteFields == {"op", "pc", "u", "n", "p", "at", "edges", "position", "row", "items", "free", "order"}
NoteVisited(q) == {e[1] : e \in q.edges}

\* A move of a note has read the path up from its new parent, and the note is not on it.
WalkFits(q) ==
  /\ q.edges \subseteq NoteIds \X (NoteIds \cup {Top})
  /\ q.p \in NoteVisited(q) /\ q.n \notin NoteVisited(q)
  /\ \A e \in q.edges : e[2] \in NoteVisited(q) \cup {q.at}
  /\ IF q.pc = "walk" THEN q.at \in NoteIds ELSE q.at = Top

NoteRequestFits(q) ==
  /\ DOMAIN q = NoteFields
  /\ q.n \in NoteIds \cup {Top} /\ q.p \in NoteIds \cup {Top}
  /\ q.free \subseteq NoteIds
  /\ q.op # "none" => q.u \in NoteUsers
  /\ q.pc = "idle" => q.op = "none"
  /\ q.pc = "walk" => q.op = "move" /\ q.p # Top
  /\ q.pc = "place" => q.op \in {"move", "reorder"}
  /\ q.op = "move" /\ q.p # Top => WalkFits(q)

NoteShape ==
  /\ above \in [NoteIds -> NoteIds \cup {Top}]
  /\ isNote \in [NoteIds -> BOOLEAN]
  /\ stands \in [NoteIds -> {"unused", "live", "trash", "gone"}]
  /\ crossed \in BOOLEAN /\ looped \in BOOLEAN
  /\ \A n \in NoteIds : above[n] # Top => Present(above[n])

NoteInv ==
  /\ NoteShape
  /\ DOMAIN noteReq = NoteSlots
  /\ \A r \in NoteSlots : NoteRequestFits(noteReq[r])
  /\ crossed \/ looped \/ NoCircle

\* A set of notes each of which lies below one of them.
Circular(S, ab) == S # {} /\ \A n \in S : ab[n] \in S

-----------------------------------------------------------------------------
(* Requests about notes                                                    *)

LEMMA NoteIdleFits == NoteRequestFits(NoteIdle)
BY NoteAssumption DEF NoteIdle, NoteRequestFits, NoteFields, WalkFits

\* A request takes its place or ends; the others are as they were.
LEMMA OneNoteRequest ==
    ASSUME NoteInv, NEW r \in NoteSlots, NEW q, NoteRequestFits(q),
           noteReq' = [noteReq EXCEPT ![r] = q]
    PROVE  DOMAIN noteReq' = NoteSlots /\ \A s \in NoteSlots : NoteRequestFits(noteReq'[s])
BY DEF NoteInv

\* The end of a request, its new start, and a step of it that writes no row.
LEMMA NoteRowsStay ==
    ASSUME NoteInv, NEW r \in NoteSlots, NEW q, NoteRequestFits(q),
           noteReq' = [noteReq EXCEPT ![r] = q], UNCHANGED <<noteRows, crossed, looped>>
    PROVE  NoteInv'
<1>1. NoteShape' /\ (crossed \/ looped \/ NoCircle)'
  BY DEF NoteInv, NoteShape, noteRows, Present, NoCircle
<1>2. DOMAIN noteReq' = NoteSlots /\ \A s \in NoteSlots : NoteRequestFits(noteReq'[s])
  BY OneNoteRequest
<1> QED  BY <1>1, <1>2 DEF NoteInv

-----------------------------------------------------------------------------
(* Circles of notes                                                        *)

LEMMA NoneCircular ==
    NoCircle <=> \A S \in SUBSET NoteIds : ~Circular(S, above)
BY DEF NoCircle, Circular

\* Notes that are freed make no circle.
LEMMA FreedNotes ==
    ASSUME NoteInv, \A n \in NoteIds : above'[n] \in {Top, above[n]}, NoCircle
    PROVE  NoCircle'
<1> SUFFICES ASSUME NEW S \in SUBSET NoteIds, S # {}, \A n \in S : above'[n] \in S
             PROVE  FALSE
  BY DEF NoCircle
<1>1. \A n \in S : above[n] \in S
  BY NoteAssumption
<1> QED  BY <1>1 DEF NoCircle

\* A note that is put under another makes no circle when the way up from there does not come
\* by it: U holds that way.
LEMMA HungBelow ==
    ASSUME NoteInv, NoCircle, NEW n \in NoteIds, NEW p \in NoteIds \cup {Top},
           above' = [above EXCEPT ![n] = p],
           NEW U \in SUBSET NoteIds, n \notin U, p # Top => p \in U,
           \A m \in U : above[m] \in NoteIds => above[m] \in U
    PROVE  NoCircle'
<1> SUFFICES ASSUME NEW S \in SUBSET NoteIds, S # {}, \A m \in S : above'[m] \in S
             PROVE  FALSE
  BY DEF NoCircle
<1>1. above \in [NoteIds -> NoteIds \cup {Top}]
  BY DEF NoteInv, NoteShape
<1>2. CASE n \notin S
  <2>1. \A m \in S : above[m] \in S
    BY <1>1, <1>2
  <2> QED  BY <2>1 DEF NoCircle
<1>3. CASE n \in S
  <2>1. above'[n] = p /\ p \in S /\ p # Top
    BY <1>1, <1>3, NoteAssumption
  <2>2. S \cap U # {} /\ S \cap U \in SUBSET NoteIds
    BY <2>1
  <2>3. ASSUME NEW m \in S \cap U PROVE above[m] \in S \cap U
    BY <1>1
  <2> QED  BY <2>2, <2>3 DEF NoCircle
<1> QED  BY <1>2, <1>3

-----------------------------------------------------------------------------
(* Steps about notes                                                       *)

LEMMA CreateNoteFits ==
    ASSUME NoteInv, NEW r \in NoteSlots, NEW u \in NoteUsers, NEW p \in NoteIds \cup {Top},
           CreateNote(r, u, p)
    PROVE  NoteInv'
<1> DEFINE q == [NoteIdle EXCEPT !.op = "create", !.pc = "commit", !.u = u, !.p = p,
                                 !.order = NextOrder(p)]
<1>1. noteReq' = [noteReq EXCEPT ![r] = q] /\ UNCHANGED <<noteRows, crossed, looped>>
  BY DEF CreateNote, Ask
<1>2. NoteRequestFits(q)
  BY NoteAssumption DEF NoteIdle, NoteRequestFits, NoteFields
<1> QED  BY <1>1, <1>2, NoteRowsStay

LEMMA ConvertFits ==
    ASSUME NoteInv, NEW r \in NoteSlots, NEW u \in NoteUsers, NEW n \in NoteIds,
           NEW p \in NoteIds \cup {Top}, Convert(r, u, n, p)
    PROVE  NoteInv'
<1> DEFINE q == [NoteIdle EXCEPT !.op = "convert", !.pc = "commit", !.u = u, !.n = n, !.p = p,
                                 !.at = above[n], !.order = NextOrder(p)]
<1>1. noteReq' = [noteReq EXCEPT ![r] = q] /\ UNCHANGED <<noteRows, crossed, looped>>
  BY DEF Convert, Ask
<1>2. NoteRequestFits(q)
  BY NoteAssumption DEF NoteIdle, NoteRequestFits, NoteFields
<1> QED  BY <1>1, <1>2, NoteRowsStay

LEMMA EndNoteFits ==
    ASSUME NoteInv, NEW r \in NoteSlots, NEW u \in NoteUsers, NEW n \in NoteIds,
           NEW how \in {"remove", "trash with file", "trash document", "trash in bulk"},
           EndNote(r, u, n, how)
    PROVE  NoteInv'
<1> DEFINE children == {m \in NoteIds : Present(m) /\ isNote[m] /\ above[m] = n}
           free == CASE how = "remove" ->
                          (children \cap Writes[u]) \cup {m \in {n} : above[m] # Top}
                     [] how = "trash with file" -> children \cap Writes[u]
                     [] how = "trash document" -> IF isNote[n] THEN children ELSE {}
                     [] how = "trash in bulk" -> {}
           q == [NoteIdle EXCEPT !.op = how, !.pc = "commit", !.u = u, !.n = n,
                                 !.order = order[n], !.free = free]
<1>1. noteReq' = [noteReq EXCEPT ![r] = q] /\ UNCHANGED <<noteRows, crossed, looped>>
  BY DEF EndNote, Ask
<1>2. free \subseteq NoteIds
  OBVIOUS
<1>3. NoteRequestFits(q)
  BY <1>2, NoteAssumption DEF NoteIdle, NoteRequestFits, NoteFields
<1> QED  BY <1>1, <1>3, NoteRowsStay

LEMMA MoveNoteFits ==
    ASSUME NoteInv, NEW r \in NoteSlots, NEW u \in NoteUsers, NEW n \in NoteIds,
           NEW p \in NoteIds \cup {Top}, NEW position, MoveNote(r, u, n, p, position)
    PROVE  NoteInv'
<1> DEFINE near == p \in {Top, above[n]}
           q == [NoteIdle EXCEPT
                   !.op = IF p = above[n] THEN "reorder" ELSE "move",
                   !.u = u, !.n = n, !.p = p, !.position = position,
                   !.pc = IF p \in {Top, above[n]} \/ above[p] = Top THEN "place" ELSE "walk",
                   !.at = IF p \in {Top, above[n]} THEN Top ELSE above[p],
                   !.edges = IF p \in {Top, above[n]} THEN {} ELSE {<<p, above[p]>>}]
<1>1. noteReq' = [noteReq EXCEPT ![r] = q] /\ UNCHANGED <<noteRows, crossed, looped>> /\ p # n
  BY DEF MoveNote, Ask
<1>2. /\ q.op = IF p = above[n] THEN "reorder" ELSE "move"
      /\ q.u = u /\ q.n = n /\ q.p = p /\ q.free = {} /\ DOMAIN q = NoteFields
      /\ q.pc = IF near \/ above[p] = Top THEN "place" ELSE "walk"
      /\ q.at = IF near THEN Top ELSE above[p]
      /\ q.edges = IF near THEN {} ELSE {<<p, above[p]>>}
  BY DEF NoteIdle, NoteFields
<1> HIDE DEF q
<1>3. above \in [NoteIds -> NoteIds \cup {Top}]
  BY DEF NoteInv, NoteShape
<1>4. ASSUME q.op = "move", q.p # Top PROVE WalkFits(q)
  <2>1. ~near /\ p \in NoteIds /\ above[p] \in NoteIds \cup {Top}
    BY <1>2, <1>3, <1>4
  <2>2. q.edges = {<<p, above[p]>>} /\ NoteVisited(q) = {p} /\ q.at = above[p]
    BY <1>2, <2>1 DEF NoteVisited
  <2> QED  BY <1>1, <1>2, <2>1, <2>2 DEF WalkFits
<1>5. NoteRequestFits(q)
  BY <1>2, <1>4 DEF NoteRequestFits
<1> QED  BY <1>1, <1>5, NoteRowsStay

LEMMA WalkUpFits ==
    ASSUME NoteInv, NEW r \in NoteSlots, WalkUp(r)
    PROVE  NoteInv'
<1> DEFINE q == noteReq[r]
           next == IF Present(q.at) THEN above[q.at] ELSE Top
           t == [q EXCEPT !.at = next, !.edges = @ \cup {<<q.at, next>>},
                          !.pc = IF next = Top THEN "place" ELSE "walk"]
<1>1. UNCHANGED <<noteRows, crossed, looped>> /\ q.pc = "walk"
  BY DEF WalkUp
<1>2. NoteRequestFits(q) /\ q.op = "move" /\ q.p # Top /\ WalkFits(q)
  BY <1>1 DEF NoteInv, NoteRequestFits
<1>3. CASE Finish(r)
  BY <1>1, <1>3, NoteIdleFits, NoteRowsStay DEF Finish
<1>4. CASE /\ q.at # q.n
           /\ noteReq' = [noteReq EXCEPT ![r].at = next, ![r].edges = @ \cup {<<q.at, next>>},
                                         ![r].pc = IF next = Top THEN "place" ELSE "walk"]
  <2>1. noteReq' = [noteReq EXCEPT ![r] = t]
    BY <1>4 DEF NoteInv
  <2>2. /\ t.op = q.op /\ t.u = q.u /\ t.n = q.n /\ t.p = q.p /\ t.free = q.free /\ DOMAIN t = NoteFields
        /\ t.at = next /\ t.edges = q.edges \cup {<<q.at, next>>}
        /\ t.pc = IF next = Top THEN "place" ELSE "walk"
    BY <1>2 DEF NoteRequestFits, NoteFields
  <2>3. next \in NoteIds \cup {Top} /\ q.at \in NoteIds
    BY <1>1, <1>2 DEF NoteInv, NoteShape, Present, WalkFits
  <2> HIDE DEF t, next
  <2> DEFINE last == <<q.at, next>>
  <2>9. last[1] = q.at /\ t.edges = q.edges \cup {last}
    BY <2>2
  <2>10. \A x : x \in NoteVisited(t) <=> \E e \in t.edges : e[1] = x
    BY DEF NoteVisited
  <2>11. \A x : x \in NoteVisited(q) <=> \E e \in q.edges : e[1] = x
    BY DEF NoteVisited
  <2>4. NoteVisited(t) = NoteVisited(q) \cup {q.at}
    <3> HIDE DEF last
    <3> QED  BY <2>9, <2>10, <2>11
  <2>5. /\ t.edges \subseteq NoteIds \X (NoteIds \cup {Top})
        /\ t.p \in NoteVisited(t) /\ t.n \notin NoteVisited(t)
    BY <1>2, <1>4, <2>2, <2>3, <2>4 DEF WalkFits
  <2>6. \A e \in t.edges : e[2] \in NoteVisited(t) \cup {t.at}
    BY <1>2, <2>2, <2>4 DEF WalkFits
  <2>7. IF t.pc = "walk" THEN t.at \in NoteIds ELSE t.at = Top
    BY <2>2, <2>3
  <2>8. NoteRequestFits(t)
    BY <1>2, <2>2, <2>5, <2>6, <2>7 DEF NoteRequestFits, WalkFits
  <2> QED  BY <1>1, <2>1, <2>8, NoteRowsStay
<1> QED  BY <1>3, <1>4 DEF WalkUp, CircleAtNote

LEMMA PlaceNoteFits ==
    ASSUME NoteInv, NEW r \in NoteSlots, PlaceNote(r)
    PROVE  NoteInv'
<1> DEFINE q == noteReq[r]
           line == IF q.position = 0 THEN <<>> ELSE Siblings(q)
           places == [i \in 1..Len(line) |-> [writable |-> line[i] \in Writes[q.u],
                                             order |-> order[line[i]]]]
           t == [q EXCEPT !.pc = "commit", !.row = line, !.items = places]
<1>1. UNCHANGED <<noteRows, crossed, looped>> /\ q.pc = "place"
  BY DEF PlaceNote
<1>2. noteReq' = [noteReq EXCEPT ![r].pc = "commit", ![r].row = line, ![r].items = places]
  BY DEF PlaceNote
<1> HIDE DEF line, places
<1>3. noteReq' = [noteReq EXCEPT ![r] = t]
  BY <1>2 DEF NoteInv
<1>4. NoteRequestFits(q)
  BY DEF NoteInv
<1>5. /\ t.op = q.op /\ t.u = q.u /\ t.n = q.n /\ t.p = q.p /\ t.free = q.free /\ DOMAIN t = NoteFields
      /\ t.at = q.at /\ t.edges = q.edges /\ t.pc = "commit"
  BY <1>4 DEF NoteRequestFits, NoteFields
<1> HIDE DEF t
<1>6. NoteRequestFits(t)
  BY <1>1, <1>4, <1>5 DEF NoteRequestFits, WalkFits, NoteVisited
<1> QED  BY <1>1, <1>3, <1>6, NoteRowsStay

\* What a commit must do: the rows keep their shape, and no circle is made unnoticed.
LEMMA NoteRowsChange ==
    ASSUME NoteInv, NEW r \in NoteSlots, Finish(r), NoteShape',
           (crossed \/ looped \/ NoCircle)'
    PROVE  NoteInv'
BY NoteIdleFits, OneNoteRequest DEF Finish, NoteInv

LEMMA CreateNoteCommitFits ==
    ASSUME NoteInv, NEW r \in NoteSlots, CreateNoteCommit(r)
    PROVE  NoteInv'
<1> DEFINE q == noteReq[r]
<1>1. Finish(r) /\ UNCHANGED <<crossed, looped>> /\ NoteRequestFits(q)
  BY DEF CreateNoteCommit, NoteInv
<1>2. CASE UNCHANGED noteRows
  BY <1>1, <1>2, NoteIdleFits, NoteRowsStay DEF Finish
<1>3. ASSUME NEW n \in Writes[q.u], n \in NoteIds, stands[n] = "unused", q.p = Top \/ Present(q.p),
             stands' = [stands EXCEPT ![n] = "live"],
             isNote' = [isNote EXCEPT ![n] = TRUE],
             above' = [above EXCEPT ![n] = q.p]
      PROVE  NoteInv'
  <2>1. q.p \in NoteIds \cup {Top} /\ q.p # n /\ NoteShape
    BY <1>1, <1>3, NoteAssumption DEF NoteRequestFits, Present, NoteInv
  <2>2. NoteShape'
    BY <1>1, <1>3, <2>1 DEF NoteShape, Present
  <2> DEFINE U == {m \in NoteIds : Present(m)}
  <2>3. n \notin U /\ (q.p # Top => q.p \in U)
    BY <1>3, <2>1 DEF Present
  <2>4. \A m \in U : above[m] \in NoteIds => above[m] \in U
    BY <2>1, NoteAssumption DEF NoteShape, Present
  <2>5. NoCircle => NoCircle'
    <3> HIDE DEF U
    <3>1. U \in SUBSET NoteIds
      BY DEF U
    <3> QED  BY <1>3, <2>1, <2>3, <2>4, <3>1, HungBelow
  <2> QED  BY <1>1, <2>2, <2>5, NoteRowsChange DEF NoteInv
<1>4. Writes[q.u] \subseteq NoteIds
  BY <1>1, NoteAssumption DEF CreateNoteCommit, NoteRequestFits
<1> QED  BY <1>2, <1>3, <1>4 DEF CreateNoteCommit

LEMMA ConvertCommitFits ==
    ASSUME NoteInv, NEW r \in NoteSlots, ConvertCommit(r)
    PROVE  NoteInv'
<1> DEFINE q == noteReq[r]
<1>1. Finish(r) /\ UNCHANGED <<stands, crossed>> /\ NoteRequestFits(q) /\ NoteShape
  BY DEF ConvertCommit, NoteInv
<1>2. CASE UNCHANGED <<isNote, above, order, looped>>
  BY <1>1, <1>2, NoteIdleFits, NoteRowsStay DEF Finish, noteRows
<1>3. CASE /\ Present(q.n) /\ (q.p = Top \/ Present(q.p))
           /\ isNote' = [isNote EXCEPT ![q.n] = TRUE]
           /\ above' = [above EXCEPT ![q.n] = IF q.p = q.at THEN @ ELSE q.p]
           /\ looped' = (looped \/ q.n \in Path(above'[q.n]))
  <2> DEFINE p == IF q.p = q.at THEN above[q.n] ELSE q.p
  <2>1. above' = [above EXCEPT ![q.n] = p] /\ q.n \in NoteIds
    BY <1>1, <1>3 DEF NoteShape, Present
  <2>2. p \in NoteIds \cup {Top} /\ (p # Top => Present(p)) /\ above'[q.n] = p
    BY <1>1, <1>3, <2>1 DEF NoteRequestFits, NoteShape
  <2> HIDE DEF p
  <2>3. NoteShape'
    BY <1>1, <1>3, <2>1, <2>2 DEF NoteShape, Present
  <2>4. ASSUME ~looped', NoCircle PROVE NoCircle'
    <3>1. q.n \notin Path(p)
      BY <1>3, <2>2, <2>4
    <3>2. CASE p = Top
      <4>1. \A m \in NoteIds : above'[m] \in {Top, above[m]}
        BY <1>1, <2>1, <3>2 DEF NoteShape
      <4> QED  BY <2>4, <4>1, FreedNotes
    <3>3. CASE p # Top
      <4>1. PICK U \in SUBSET NoteIds :
              /\ p \in U /\ (\A m \in U : above[m] \in NoteIds => above[m] \in U)
              /\ q.n \notin U
        BY <2>1, <3>1, <3>3 DEF Path
      <4> QED  BY <2>1, <2>2, <2>4, <4>1, HungBelow
    <3> QED  BY <3>2, <3>3
  <2> QED  BY <1>1, <1>3, <2>3, <2>4, NoteRowsChange DEF NoteInv
<1> QED  BY <1>2, <1>3 DEF ConvertCommit

LEMMA MoveNoteCommitFits ==
    ASSUME NoteInv, NEW r \in NoteSlots, MoveNoteCommit(r)
    PROVE  NoteInv'
<1> DEFINE q == noteReq[r]
<1>1. /\ Finish(r) /\ UNCHANGED <<isNote, stands, looped>> /\ NoteRequestFits(q) /\ NoteShape
      /\ q.pc = "commit"
  BY DEF MoveNoteCommit, NoteInv
<1>2. CASE UNCHANGED <<above, crossed>>
  <2>1. NoteShape' /\ (crossed \/ looped \/ NoCircle)'
    BY <1>1, <1>2 DEF NoteInv, NoteShape, Present, NoCircle
  <2> QED  BY <1>1, <2>1, NoteRowsChange
<1>3. CASE /\ Present(q.n) /\ (q.op = "move" /\ q.p # Top => Present(q.p))
           /\ above' = IF q.op = "move" THEN [above EXCEPT ![q.n] = q.p] ELSE above
           /\ crossed' = (crossed \/ PathChanged(q))
  <2>1. q.n \in NoteIds /\ q.p \in NoteIds \cup {Top}
    BY <1>1, <1>3 DEF NoteRequestFits, Present
  <2>2. NoteShape'
    BY <1>1, <1>3, <2>1 DEF NoteShape, Present, PathChanged
  <2>3. ASSUME ~crossed', NoCircle PROVE NoCircle'
    <3>1. CASE q.op # "move"
      BY <1>3, <2>3, <3>1 DEF NoCircle
    <3>2. CASE q.op = "move" /\ q.p = Top
      <4>1. \A m \in NoteIds : above'[m] \in {Top, above[m]}
        BY <1>1, <1>3, <2>1, <3>2 DEF NoteShape
      <4> QED  BY <2>3, <4>1, FreedNotes
    <3>3. CASE q.op = "move" /\ q.p # Top
      <4>1. WalkFits(q) /\ q.at = Top /\ ~PathChanged(q)
        BY <1>1, <1>3, <2>3, <3>3 DEF NoteRequestFits, WalkFits
      <4> DEFINE U == NoteVisited(q)
      <4>2. U \in SUBSET NoteIds /\ q.n \notin U /\ q.p \in U
        BY <4>1 DEF WalkFits, NoteVisited
      <4>3. ASSUME NEW m \in U, above[m] \in NoteIds PROVE above[m] \in U
        <5>1. PICK e \in q.edges : e[1] = m
          BY <4>3 DEF NoteVisited
        <5>2. above[m] = e[2] /\ e[2] \in U \cup {q.at}
          BY <4>1, <4>3, <5>1 DEF PathChanged, WalkFits
        <5> QED  BY <4>1, <4>3, <5>2, NoteAssumption
      <4> HIDE DEF U
      <4> QED  BY <1>3, <2>1, <2>3, <3>3, <4>2, <4>3, HungBelow
    <3> QED  BY <3>1, <3>2, <3>3
  <2> QED  BY <1>1, <1>3, <2>2, <2>3, NoteRowsChange DEF NoteInv
<1> QED  BY <1>2, <1>3 DEF MoveNoteCommit

LEMMA EndNoteCommitFits ==
    ASSUME NoteInv, NEW r \in NoteSlots, EndNoteCommit(r)
    PROVE  NoteInv'
<1> DEFINE q == noteReq[r]
<1>1. /\ Finish(r) /\ UNCHANGED <<crossed, looped>> /\ NoteRequestFits(q) /\ NoteShape
  BY DEF EndNoteCommit, NoteInv
<1>2. CASE UNCHANGED noteRows
  BY <1>1, <1>2, NoteIdleFits, NoteRowsStay DEF Finish
<1>3. CASE /\ Present(q.n)
           /\ above' = [m \in NoteIds |-> IF m \in q.free THEN Top ELSE above[m]]
           /\ \/ isNote' = [isNote EXCEPT ![q.n] = FALSE] /\ UNCHANGED stands
              \/ stands' = [stands EXCEPT ![q.n] = "trash"] /\ UNCHANGED isNote
  <2>1. q.n \in NoteIds /\ \A m \in NoteIds : above'[m] \in {Top, above[m]}
    BY <1>3 DEF Present
  <2>2. \A m : Present(m) => Present(m)'
    BY <1>1, <1>3 DEF Present, NoteShape
  <2>3. /\ above' \in [NoteIds -> NoteIds \cup {Top}] /\ isNote' \in [NoteIds -> BOOLEAN]
        /\ stands' \in [NoteIds -> {"unused", "live", "trash", "gone"}]
    BY <1>1, <1>3 DEF NoteShape
  <2>4. NoteShape'
    BY <1>1, <2>1, <2>2, <2>3 DEF NoteShape
  <2>5. NoCircle => NoCircle'
    BY <2>1, FreedNotes
  <2> QED  BY <1>1, <2>4, <2>5, NoteRowsChange DEF NoteInv
<1> QED  BY <1>2, <1>3 DEF EndNoteCommit

\* Restoring and purging are one statement each.
LEMMA RestoreNoteFits ==
    ASSUME NoteInv, NEW n \in NoteIds, RestoreNote(n)
    PROVE  NoteInv'
<1>1. \A m : Present(m) => Present(m)'
  BY DEF RestoreNote, Present, NoteInv, NoteShape
<1>2. stands' \in [NoteIds -> {"unused", "live", "trash", "gone"}]
  BY DEF RestoreNote, NoteInv, NoteShape
<1> QED  BY <1>1, <1>2 DEF RestoreNote, NoteInv, NoteShape, NoCircle

LEMMA PurgeNoteFits ==
    ASSUME NoteInv, NEW n \in NoteIds, PurgeNote(n)
    PROVE  NoteInv'
<1>1. \A m \in NoteIds : above'[m] \in {Top, above[m]} /\ above'[m] # n
  BY NoteAssumption DEF PurgeNote
<1>2. \A m \in NoteIds \ {n} : Present(m) => Present(m)'
  BY DEF PurgeNote, Present, NoteInv, NoteShape
<1>3. /\ stands' \in [NoteIds -> {"unused", "live", "trash", "gone"}]
      /\ above' \in [NoteIds -> NoteIds \cup {Top}]
  BY DEF PurgeNote, NoteInv, NoteShape
<1>4. NoteShape'
  BY <1>1, <1>2, <1>3 DEF PurgeNote, NoteInv, NoteShape
<1>5. NoCircle => NoCircle'
  BY <1>1, FreedNotes
<1> QED  BY <1>4, <1>5 DEF PurgeNote, NoteInv

LEMMA NoteInvKept == NoteInv /\ [NoteNext]_noteVars => NoteInv'
<1> SUFFICES ASSUME NoteInv, [NoteNext]_noteVars PROVE NoteInv'
  OBVIOUS
<1>1. ASSUME NEW r \in NoteSlots, NoteStart(r) PROVE NoteInv'
  BY <1>1, CreateNoteFits, ConvertFits, MoveNoteFits, EndNoteFits DEF NoteStart
<1>2. ASSUME NEW r \in NoteSlots, NoteStep(r) PROVE NoteInv'
  BY <1>2, CreateNoteCommitFits, ConvertCommitFits, WalkUpFits, PlaceNoteFits,
     MoveNoteCommitFits, EndNoteCommitFits DEF NoteStep
<1>3. CASE UNCHANGED noteVars
  BY <1>3 DEF noteVars, NoteInv, NoteShape, Present, NoCircle
<1> QED  BY <1>1, <1>2, <1>3, RestoreNoteFits, PurgeNoteFits DEF NoteNext

LEMMA NotesStartFit == NoteInit => NoteInv
BY NoteIdleFits DEF NoteInit, NoteInv, NoteShape

-----------------------------------------------------------------------------
(* Theorems about notes                                                    *)

\* The inductive invariant of the notes: parents are there, what a move has read is a way up that
\* does not come by its note, and there is no circle but by the two ways that are named.
THEOREM NoteInvariant == NoteSpec => []NoteInv
<1> QED  BY NotesStartFit, NoteInvKept, PTL DEF NoteSpec

\* Each user's list shows every note he may read, and a walk up does not return to where it was,
\* unless a move was committed over a changed path or a document became a note below itself
\* (move_note, convert_to_note): for any notes, users and requests.
THEOREM NotesStayATree == NoteSpec => []NotesAreATree
<1>1. ASSUME NoteInv PROVE NotesAreATree
  <2> USE <1>1
  <2>1. EveryNoteIsListed
    <3> SUFFICES ASSUME NoCircle, NEW u \in NoteUsers, NEW S \in SUBSET Seen(u), S # {}
                 PROVE  \E n \in S : ShownBelow(u, n) \notin S
      BY DEF EveryNoteIsListed, NoteInv
    <3>1. S \in SUBSET NoteIds
      BY DEF Seen, Note
    <3>2. PICK n \in S : above[n] \notin S
      BY <3>1 DEF NoCircle
    <3>3. ShownBelow(u, n) \in {above[n], Top} /\ Top \notin S
      BY <3>1, NoteAssumption DEF ShownBelow
    <3> QED  BY <3>2, <3>3
  <2>2. WalkDoesNotReturn
    <3> SUFFICES ASSUME NEW r \in NoteSlots, noteReq[r].pc = "walk", NoCircle,
                        NEW e \in noteReq[r].edges, e[1] = noteReq[r].at,
                        \A x \in noteReq[r].edges : above[x[1]] = x[2]
                 PROVE  FALSE
      BY DEF WalkDoesNotReturn, NoteInv
    <3> DEFINE q == noteReq[r]
               U == NoteVisited(q)
    <3>1. WalkFits(q)
      BY DEF NoteInv, NoteRequestFits
    <3>2. U \in SUBSET NoteIds /\ q.at \in U
      BY <3>1 DEF WalkFits, NoteVisited
    <3>3. ASSUME NEW m \in U PROVE above[m] \in U
      <4>1. PICK x \in q.edges : x[1] = m
        BY DEF NoteVisited
      <4> QED  BY <3>1, <3>2, <4>1 DEF WalkFits
    <3> HIDE DEF U
    <3> QED  BY <3>2, <3>3 DEF NoCircle
  <2> QED  BY <2>1, <2>2 DEF NotesAreATree
<1> QED  BY <1>1, NoteInvariant, PTL

-----------------------------------------------------------------------------
(* Siblings in their order                                                 *)

OrdersFit == order \in [NoteIds -> Lo..Hi]

\* Of the notes of a finite set, one comes last.
LEMMA LastNote ==
    ASSUME OrdersFit, NEW S \in SUBSET NoteIds, S # {}
    PROVE  \E x \in S : \A y \in S \ {x} : Before(y, x)
<1> DEFINE Bad(T) == T # {} /\ ~\E x \in T : \A y \in T \ {x} : Before(y, x)
           Sizes == {k \in Nat : \E T \in SUBSET NoteIds : Cardinality(T) = k /\ Bad(T)}
<1> SUFFICES ASSUME Bad(S) PROVE FALSE
  OBVIOUS
<1>1. \A T \in SUBSET NoteIds : IsFiniteSet(T) /\ Cardinality(T) \in Nat
  BY NoteAssumption, FS_Subset, FS_CardinalityType
<1>2. Sizes \in SUBSET Nat /\ Sizes # {}
  BY <1>1
<1>3. PICK k \in Sizes : \A j \in Sizes : k <= j
  BY <1>2, SmallestExists
<1>4. PICK T \in SUBSET NoteIds : Cardinality(T) = k /\ Bad(T)
  BY <1>3
<1>5. PICK x \in T : TRUE
  BY <1>4
<1>6. Cardinality(T \ {x}) = k - 1 /\ k \in Nat /\ k - 1 \in Nat
  <2>1. Cardinality(T \ {x}) = Cardinality(T) - 1
    BY <1>1, FS_RemoveElement
  <2> QED  BY <1>1, <1>4, <2>1
<1>7. ~Bad(T \ {x})
  <2>1. k - 1 \notin Sizes
    BY <1>3, <1>6
  <2> QED  BY <1>6, <2>1
<1>8. T \ {x} # {}
  BY <1>4
<1>9. PICK y \in T \ {x} : \A z \in (T \ {x}) \ {y} : Before(z, y)
  BY <1>7, <1>8
<1>10. Before(x, y) \/ Before(y, x)
  <2>1. x \in NoteIds /\ y \in NoteIds /\ x # y
    BY <1>5, <1>9
  <2>2. order[x] \in Int /\ order[y] \in Int
    BY <2>1, NoteAssumption DEF OrdersFit
  <2>3. TitleRank[x] \in Nat /\ TitleRank[y] \in Nat /\ TitleRank[x] # TitleRank[y]
    BY <2>1, NoteAssumption
  <2> QED  BY <2>2, <2>3 DEF Before
<1>11. CASE Before(x, y)
  BY <1>4, <1>9, <1>11
<1>12. CASE Before(y, x)
  <2>1. ASSUME NEW z \in T \ {x} PROVE Before(z, x)
    BY <1>9, <1>12, NoteAssumption DEF Before, OrdersFit
  <2> QED  BY <1>4, <2>1
<1> QED  BY <1>10, <1>11, <1>12

\* A finite set of notes can be put in order.
LEMMA SortedIs ==
    ASSUME OrdersFit, NEW S \in SUBSET NoteIds
    PROVE  /\ Sorted(S) \in [1..Cardinality(S) -> S]
           /\ \A i, j \in 1..Cardinality(S) : i < j => Before(Sorted(S)[i], Sorted(S)[j])
<1> DEFINE Line(T, s) == \A i, j \in 1..Cardinality(T) : i < j => Before(s[i], s[j])
           Bad(T) == ~\E s \in [1..Cardinality(T) -> T] : Line(T, s)
           Sizes == {k \in Nat : \E T \in SUBSET NoteIds : Cardinality(T) = k /\ Bad(T)}
<1>1. \A T \in SUBSET NoteIds : IsFiniteSet(T) /\ Cardinality(T) \in Nat
  BY NoteAssumption, FS_Subset, FS_CardinalityType
<1>2. ASSUME Bad(S) PROVE FALSE
  <2>1. Sizes \in SUBSET Nat /\ Sizes # {}
    BY <1>1, <1>2
  <2>2. PICK k \in Sizes : \A j \in Sizes : k <= j
    BY <2>1, SmallestExists
  <2>3. PICK T \in SUBSET NoteIds : Cardinality(T) = k /\ Bad(T)
    BY <2>2
  <2>4. T # {}
    <3> SUFFICES ASSUME T = {} PROVE FALSE
      OBVIOUS
    <3>1. Cardinality(T) = 0
      BY FS_EmptySet
    <3>2. [i \in 1..0 |-> Top] \in [1..Cardinality(T) -> T] /\ Line(T, [i \in 1..0 |-> Top])
      BY <3>1
    <3> QED  BY <2>3, <3>2
  <2>5. PICK x \in T : \A y \in T \ {x} : Before(y, x)
    BY <2>4, LastNote
  <2>6. Cardinality(T \ {x}) = k - 1 /\ k \in Nat /\ k - 1 \in Nat
    <3>1. Cardinality(T \ {x}) = Cardinality(T) - 1
      BY <1>1, FS_RemoveElement
    <3> QED  BY <1>1, <2>3, <3>1
  <2>7. ~Bad(T \ {x})
    <3>1. k - 1 \notin Sizes
      BY <2>2, <2>6
    <3> QED  BY <2>6, <3>1
  <2>8. PICK s \in [1..(k - 1) -> T \ {x}] :
          \A i, j \in 1..(k - 1) : i < j => Before(s[i], s[j])
    BY <2>6, <2>7
  <2> DEFINE t == [i \in 1..k |-> IF i = k THEN x ELSE s[i]]
  <2>9. t \in [1..k -> T]
    BY <2>6, <2>8
  <2>10. ASSUME NEW i \in 1..k, NEW j \in 1..k, i < j PROVE Before(t[i], t[j])
    <3>1. i \in 1..(k - 1) /\ t[i] = s[i] /\ s[i] \in T \ {x}
      BY <2>6, <2>8, <2>10
    <3>2. CASE j = k
      BY <2>5, <3>1, <3>2
    <3>3. CASE j # k
      <4>1. j \in 1..(k - 1) /\ t[j] = s[j]
        BY <2>6, <3>3
      <4> QED  BY <2>8, <2>10, <3>1, <4>1
    <3> QED  BY <3>2, <3>3
  <2> HIDE DEF t
  <2> QED  BY <2>3, <2>9, <2>10
<1>3. \E s \in [1..Cardinality(S) -> S] :
        \A i, j \in 1..Cardinality(S) : i < j => Before(s[i], s[j])
  BY <1>2
<1> QED  BY <1>3 DEF Sorted

-----------------------------------------------------------------------------
(* Places among siblings                                                   *)

\* What a request has read of the siblings: those the user may not change are in order.
ItemsFit(items) ==
  /\ items \in Seq([writable : BOOLEAN, order : Lo..Hi])
  /\ Len(items) <= Hi + 1
  /\ \A i, j \in Fixed(items) : i < j => items[i].order <= items[j].order

\* The fixed sibling that comes first from a place on, and the one that comes last before it.
LEMMA FixedAround ==
    ASSUME NEW items, ItemsFit(items), NEW i \in 1..Len(items)
    PROVE  /\ Fixed(items) \subseteq 1..Len(items) /\ Len(items) \in Nat
           /\ \A f \in Fixed(items) : items[f].order \in Lo..Hi /\ items[f].order \in Int
           /\ (\E f \in Fixed(items) : f >= i) =>
                \E f \in Fixed(items) : f >= i /\ \A x \in Fixed(items) : x >= i => f <= x
           /\ (\E f \in Fixed(items) : f < i) => NeighbourBelow(items, i) # {}
<1> DEFINE F == Fixed(items)
           N == Len(items)
<1>1. F \subseteq 1..N /\ N \in Nat
  BY DEF Fixed, ItemsFit
<1>2. \A f \in F : items[f].order \in Lo..Hi /\ items[f].order \in Int
  <2> SUFFICES ASSUME NEW f \in F PROVE items[f].order \in Lo..Hi /\ items[f].order \in Int
    OBVIOUS
  <2>1. f \in 1..N
    BY <1>1
  <2> DEFINE R == [writable : BOOLEAN, order : Lo..Hi]
  <2>2. items \in Seq(R)
    BY DEF ItemsFit
  <2> HIDE DEF R
  <2>3. items[f] \in R
    BY <2>1, <2>2
  <2> QED  BY <2>3, NoteAssumption DEF R
<1>3. ASSUME NEW g \in F, g >= i
      PROVE  \E f \in F : f >= i /\ \A x \in F : x >= i => f <= x
  <2> DEFINE S == {x \in F : x >= i}
  <2>1. S \in SUBSET Nat /\ S # {}
    BY <1>1, <1>3
  <2> HIDE DEF S
  <2>2. PICK m \in S : \A k \in S : m <= k
    BY <2>1, SmallestExists
  <2> QED  BY <2>2 DEF S
<1>4. ASSUME NEW g \in F, g < i PROVE NeighbourBelow(items, i) # {}
  <2> DEFINE S == {k \in Nat : \E x \in F : x < i /\ k = N - x}
  <2>1. S \in SUBSET Nat /\ S # {}
    <3>1. N - g \in S
      BY <1>1, <1>4
    <3> QED  BY <3>1
  <2> HIDE DEF S
  <2>2. PICK m \in S : \A k \in S : m <= k
    BY <2>1, SmallestExists
  <2>3. PICK p \in F : p < i /\ m = N - p
    BY <2>2 DEF S
  <2>4. ASSUME NEW x \in F, x < i PROVE x <= p
    <3>1. N - x \in S /\ x \in 1..N /\ p \in 1..N
      BY <1>1, <2>4 DEF S
    <3> QED  BY <1>1, <2>2, <2>3, <3>1
  <2>5. p \in NeighbourBelow(items, i)
    BY <2>3, <2>4 DEF NeighbourBelow
  <2> QED  BY <2>5
<1> QED  BY <1>1, <1>2, <1>3, <1>4

\* The order given to each place.
LEMMA PlacedIs ==
    ASSUME NEW items, ItemsFit(items), NEW i \in 1..Len(items)
    PROVE  /\ Fixed(items) = {} => PlacedOrder(items, i) = i - 1
           /\ i \in Fixed(items) => PlacedOrder(items, i) = items[i].order
           /\ (Fixed(items) # {} /\ i \notin Fixed(items)) =>
                \/ \E f \in Fixed(items) : /\ i < f /\ \A x \in Fixed(items) : f <= x
                                           /\ PlacedOrder(items, i) = items[f].order - (f - i)
                \/ \E p \in Fixed(items) : /\ p < i /\ \A x \in Fixed(items) : x < i => x <= p
                                           /\ PlacedOrder(items, i) = items[p].order + (i - p)
<1> DEFINE F == Fixed(items)
           first == CHOOSE p \in F : \A x \in F : p <= x
           below == CHOOSE p \in NeighbourBelow(items, i) : TRUE
<1>1. F \subseteq 1..Len(items) /\ Len(items) \in Nat
  BY FixedAround
<1>2. CASE F = {}
  BY <1>2 DEF PlacedOrder
<1>3. CASE i \in F
  BY <1>3 DEF PlacedOrder
<1>4. CASE F # {} /\ i \notin F
  <2>1. 1 \in 1..Len(items)
    BY <1>1
  <2>2. \E f \in F : f >= 1
    BY <1>1, <1>4
  <2>3. \E p \in F : \A x \in F : p <= x
    BY <1>1, <2>1, <2>2, FixedAround
  <2>4. first \in F /\ \A x \in F : first <= x
    BY <2>3
  <2> HIDE DEF first
  <2>5. CASE i < first
    <3>1. PlacedOrder(items, i) = items[first].order - (first - i)
      BY <1>4, <2>5 DEF PlacedOrder, first
    <3> QED  BY <1>2, <1>4, <2>4, <2>5, <3>1
  <2>6. CASE ~(i < first)
    <3>1. first < i
      BY <1>1, <1>4, <2>4, <2>6
    <3>2. NeighbourBelow(items, i) # {}
      BY <2>4, <3>1, FixedAround
    <3>3. below \in NeighbourBelow(items, i)
      BY <3>2
    <3>4. PlacedOrder(items, i) = items[below].order + (i - below)
      BY <1>4, <2>6 DEF PlacedOrder, first
    <3> HIDE DEF below
    <3> QED  BY <1>4, <3>3, <3>4 DEF NeighbourBelow
  <2> QED  BY <2>5, <2>6
<1> QED  BY <1>2, <1>3, <1>4

\* Where there is room, the orders ascend over each place that is given anew.
LEMMA PlacedAscend ==
    ASSUME NEW items, ItemsFit(items), ~NoRoom(items),
           NEW i \in 1..Len(items), NEW j \in 1..Len(items), i < j,
           i \notin Fixed(items) \/ j \notin Fixed(items)
    PROVE  PlacedOrder(items, i) < PlacedOrder(items, j)
<1> DEFINE F == Fixed(items)
           o(x) == items[x].order
           P(x) == PlacedOrder(items, x)
<1>1. /\ F \subseteq 1..Len(items) /\ Len(items) \in Nat
      /\ \A x \in F : o(x) \in Int
      /\ \A x, y \in F : x < y => o(x) <= o(y)
  BY FixedAround DEF ItemsFit
<1>2. CASE F = {}
  BY <1>2, PlacedIs
<1>3. ASSUME F # {}, NEW x \in 1..Len(items), x \notin F, NEW f \in F, f < x
      PROVE  P(x) \in Int /\ o(f) < P(x)
  <2>1. PICK p \in F : p < x /\ (\A y \in F : y < x => y <= p) /\ P(x) = o(p) + (x - p)
    BY <1>1, <1>3, PlacedIs
  <2>2. f = p \/ f < p
    BY <1>1, <1>3, <2>1
  <2>3. o(f) <= o(p) /\ o(f) \in Int /\ o(p) \in Int /\ x \in Int /\ p \in Int
    BY <1>1, <2>2
  <2> HIDE DEF o, P
  <2> QED  BY <2>1, <2>3
<1>4. ASSUME F # {}, NEW x \in 1..Len(items), x \notin F, NEW f \in F, x < f
      PROVE  P(x) \in Int /\ P(x) < o(f)
  <2>1. CASE \E g \in F : x < g /\ (\A y \in F : g <= y) /\ P(x) = o(g) - (g - x)
    <3>1. PICK g \in F : x < g /\ (\A y \in F : g <= y) /\ P(x) = o(g) - (g - x)
      BY <2>1
    <3>2. o(g) <= o(f) /\ o(f) \in Int /\ o(g) \in Int /\ x \in Int /\ g \in Int
      BY <1>1, <3>1
    <3> HIDE DEF o, P
    <3> QED  BY <3>1, <3>2
  <2>2. CASE \E p \in F : p < x /\ (\A y \in F : y < x => y <= p) /\ P(x) = o(p) + (x - p)
    <3>1. PICK p \in F : p < x /\ (\A y \in F : y < x => y <= p) /\ P(x) = o(p) + (x - p)
      BY <2>2
    <3>2. PICK g \in F : g >= x /\ \A y \in F : y >= x => g <= y
      BY <1>1, <1>4, FixedAround
    <3>3. /\ p \in Int /\ g \in Int /\ x \in Int /\ f \in Int /\ o(p) \in Int /\ o(g) \in Int
          /\ o(f) \in Int /\ x < g /\ g <= f
      BY <1>1, <1>4, <3>2
    <3>4. \A y \in F : ~(p < y /\ y < g)
      BY <1>1, <3>1, <3>2
    <3>5. p < g - 1
      BY <3>1, <3>3
    <3>6. ~(o(g) - o(p) - 1 < g - p - 1)
      BY <3>4, <3>5 DEF NoRoom
    <3>7. o(g) <= o(f)
      BY <1>1, <3>3
    <3> HIDE DEF o, P
    <3> QED  BY <3>1, <3>3, <3>6, <3>7
  <2> QED  BY <1>4, <2>1, <2>2, PlacedIs
<1>5. CASE F # {} /\ i \in F
  <2>1. P(i) = o(i)
    BY <1>5, PlacedIs
  <2> QED  BY <1>3, <1>5, <2>1
<1>6. CASE F # {} /\ j \in F
  <2>1. P(j) = o(j)
    BY <1>6, PlacedIs
  <2> QED  BY <1>4, <1>6, <2>1
<1>7. CASE F # {} /\ i \notin F /\ j \notin F
  <2>1. ASSUME NEW f \in F, i < f, f < j PROVE P(i) < P(j)
    <3>1. P(i) \in Int /\ P(j) \in Int /\ o(f) \in Int /\ P(i) < o(f) /\ o(f) < P(j)
      BY <1>1, <1>3, <1>4, <1>7, <2>1
    <3> HIDE DEF o, P
    <3> QED  BY <3>1
  <2>2. ASSUME \A f \in F : ~(i < f /\ f < j) PROVE P(i) < P(j)
    <3>1. i \in Int /\ j \in Int /\ \A f \in F : f \in Int /\ f # i /\ f # j
      BY <1>1, <1>7
    <3>2. \A f \in F : f < i <=> f < j
      BY <2>2, <3>1
    <3>3. CASE \E g \in F : i < g /\ (\A y \in F : g <= y) /\ P(i) = o(g) - (g - i)
      <4>1. PICK g \in F : i < g /\ (\A y \in F : g <= y) /\ P(i) = o(g) - (g - i)
        BY <3>3
      <4>2. \A p \in F : ~(p < j)
        BY <3>1, <3>2, <4>1
      <4>3. PICK h \in F : j < h /\ (\A y \in F : h <= y) /\ P(j) = o(h) - (h - j)
        BY <1>7, <4>2, PlacedIs
      <4>4. h = g /\ o(g) \in Int
        BY <1>1, <3>1, <4>1, <4>3
      <4> HIDE DEF o, P
      <4> QED  BY <3>1, <4>1, <4>3, <4>4
    <3>4. CASE \E p \in F : p < i /\ (\A y \in F : y < i => y <= p) /\ P(i) = o(p) + (i - p)
      <4>1. PICK p \in F : p < i /\ (\A y \in F : y < i => y <= p) /\ P(i) = o(p) + (i - p)
        BY <3>4
      <4>2. ~\E h \in F : j < h /\ (\A y \in F : h <= y)
        BY <3>1, <4>1
      <4>3. PICK h \in F : h < j /\ (\A y \in F : y < j => y <= h) /\ P(j) = o(h) + (j - h)
        BY <1>7, <4>2, PlacedIs
      <4>4. h = p /\ o(p) \in Int
        BY <1>1, <3>1, <3>2, <4>1, <4>3
      <4> HIDE DEF o, P
      <4> QED  BY <3>1, <4>1, <4>3, <4>4
    <3> QED  BY <1>7, <3>3, <3>4, PlacedIs
  <2> QED  BY <2>1, <2>2
<1> QED  BY <1>2, <1>5, <1>6, <1>7

\* Numbers that ascend from place to place grow by the distance at least.
LEMMA AscendByDistance ==
    ASSUME NEW a \in Int, NEW b \in Int, a <= b, NEW o, \A i \in a..b : o[i] \in Int,
           \A i \in a..(b - 1) : o[i] < o[i + 1]
    PROVE  o[a] + (b - a) <= o[b]
<1> DEFINE S == {k \in Nat : k <= b - a /\ ~(o[a] + k <= o[a + k])}
<1> SUFFICES ASSUME ~(o[a] + (b - a) <= o[b]) PROVE FALSE
  OBVIOUS
<1>1. S \in SUBSET Nat /\ S # {}
  <2>1. b - a \in Nat /\ a + (b - a) = b
    OBVIOUS
  <2>2. b - a \in S
    BY <2>1
  <2> QED  BY <2>2
<1> HIDE DEF S
<1>2. PICK k \in S : \A j \in S : k <= j
  BY <1>1, SmallestExists
<1>3. k \in Nat /\ k <= b - a /\ ~(o[a] + k <= o[a + k])
  BY <1>2 DEF S
<1>4. k # 0
  BY <1>3
<1>5. k - 1 \in Nat /\ k - 1 \notin S /\ k - 1 <= b - a
  BY <1>2, <1>3, <1>4
<1>6. o[a] + (k - 1) <= o[a + (k - 1)]
  BY <1>5 DEF S
<1>7. /\ a + (k - 1) \in a..(b - 1) /\ (a + (k - 1)) + 1 = a + k
      /\ a + k \in a..b /\ a + (k - 1) \in a..b /\ a \in a..b
  BY <1>3, <1>4
<1>8. o[a + (k - 1)] < o[a + k] /\ o[a + (k - 1)] \in Int /\ o[a + k] \in Int /\ o[a] \in Int
  BY <1>7
<1> QED  BY <1>3, <1>6, <1>8

\* Wanted numbers ascend from a to b if no two fixed places stand side by side between them.
LEMMA WantedAscend ==
    ASSUME NEW items, ItemsFit(items), NEW o \in [1..Len(items) -> Lo..Hi], Wanted(items, o),
           NEW a \in 1..Len(items), NEW b \in 1..Len(items), a <= b,
           \A i \in a..(b - 1) : i \notin Fixed(items) \/ i + 1 \notin Fixed(items)
    PROVE  /\ o[a] + (b - a) <= o[b] /\ o[a] \in Lo..Hi /\ o[b] \in Lo..Hi
           /\ o[a] \in Int /\ o[b] \in Int
           /\ a \in Fixed(items) => o[a] = items[a].order
           /\ b \in Fixed(items) => o[b] = items[b].order
<1>1. Len(items) \in Nat /\ a \in Int /\ b \in Int
  BY FixedAround
<1>2. \A i \in 1..Len(items) : o[i] \in Lo..Hi /\ o[i] \in Int
  BY NoteAssumption
<1>3. \A i \in a..b : o[i] \in Int
  BY <1>1, <1>2
<1>4. ASSUME NEW i \in a..(b - 1) PROVE o[i] < o[i + 1]
  <2>1. i \in 1..Len(items) /\ i + 1 \in 1..Len(items) /\ i < i + 1
    BY <1>1
  <2>2. ~({i, i + 1} \subseteq Fixed(items))
    OBVIOUS
  <2> QED  BY <2>1, <2>2 DEF Wanted
<1>5. o[a] + (b - a) <= o[b]
  BY <1>1, <1>3, <1>4, AscendByDistance
<1> QED  BY <1>2, <1>5 DEF Wanted

\* _place_orders: the orders are as wanted, and none are refused but where there are none to give.
LEMMA PlacesFit ==
    ASSUME NEW items, ItemsFit(items), items # <<>>
    PROVE  IF PlaceOrders(items) # <<>> THEN Wanted(items, PlaceOrders(items))
           ELSE \A o \in [1..Len(items) -> Lo..Hi] : ~Wanted(items, o)
<1> DEFINE F == Fixed(items)
           N == Len(items)
           out == [i \in 1..N |-> PlacedOrder(items, i)]
           outside == \E i \in 1..N : out[i] \notin Lo..Hi
<1>1. N \in Nat /\ N # 0
  BY DEF ItemsFit
<1>2. PlaceOrders(items) = IF NoRoom(items) \/ outside THEN <<>> ELSE out
  BY DEF PlaceOrders
<1>3. out # <<>>
  <2>1. 1 \in DOMAIN out /\ DOMAIN <<>> = {}
    BY <1>1
  <2> QED  BY <2>1
<1>4. F \subseteq 1..N /\ \A f \in F : items[f].order \in Lo..Hi /\ items[f].order \in Int
  <2>1. 1 \in 1..N
    BY <1>1
  <2> QED  BY <2>1, FixedAround
<1>5. CASE ~NoRoom(items) /\ ~outside
  <2>1. \A i \in 1..N : out[i] = PlacedOrder(items, i)
    OBVIOUS
  <2>2. \A i \in F : out[i] = items[i].order
    BY <1>4, <2>1, PlacedIs
  <2>3. ASSUME NEW i \in 1..N, NEW j \in 1..N, i < j, ~{i, j} \subseteq F PROVE out[i] < out[j]
    <3>1. i \notin F \/ j \notin F
      BY <2>3
    <3> QED  BY <1>5, <2>1, <2>3, <3>1, PlacedAscend
  <2> HIDE DEF out
  <2>4. Wanted(items, out)
    BY <2>2, <2>3 DEF Wanted
  <2>5. PlaceOrders(items) = out
    BY <1>2, <1>5
  <2> QED  BY <1>3, <2>4, <2>5
<1>6. ASSUME NoRoom(items), NEW o \in [1..N -> Lo..Hi], Wanted(items, o) PROVE FALSE
  <2>1. PICK p \in F, q \in F :
          /\ p < q - 1 /\ \A x \in F : ~(p < x /\ x < q)
          /\ items[q].order - items[p].order - 1 < q - p - 1
    BY <1>6 DEF NoRoom
  <2>2. p \in 1..N /\ q \in 1..N /\ p <= q
    BY <1>1, <1>4, <2>1
  <2>3. \A i \in p..(q - 1) : i \notin F \/ i + 1 \notin F
    BY <1>1, <2>1, <2>2
  <2>4. o[p] + (q - p) <= o[q] /\ o[p] = items[p].order /\ o[q] = items[q].order
    BY <1>6, <2>2, <2>3, WantedAscend
  <2>5. items[p].order \in Int /\ items[q].order \in Int /\ p \in Int /\ q \in Int
    BY <1>4, <2>2
  <2> QED  BY <2>1, <2>4, <2>5
<1>7. ASSUME outside, NEW o \in [1..N -> Lo..Hi], Wanted(items, o) PROVE FALSE
  <2>1. PICK i \in 1..N : PlacedOrder(items, i) \notin Lo..Hi
    BY <1>7
  <2>2. CASE F = {}
    <3>1. PlacedOrder(items, i) = i - 1 /\ N <= Hi + 1
      BY <2>2, PlacedIs DEF ItemsFit
    <3> QED  BY <1>1, <2>1, <3>1, NoteAssumption
  <2>3. i \notin F
    BY <1>4, <2>1, PlacedIs
  <2>4. ASSUME NEW f \in F, i < f, \A x \in F : f <= x,
               PlacedOrder(items, i) = items[f].order - (f - i)
        PROVE  FALSE
    <3>1. f \in 1..N /\ i <= f
      BY <1>1, <1>4, <2>4
    <3>2. \A x \in i..(f - 1) : x \notin F \/ x + 1 \notin F
      BY <1>1, <2>4, <3>1
    <3>5. /\ o[i] + (f - i) <= o[f] /\ o[i] \in Lo..Hi
          /\ f \in F => o[f] = items[f].order
      <4> HIDE DEF outside
      <4>1. Wanted(items, o) /\ o \in [1..N -> Lo..Hi]
        BY <1>7
      <4> QED  BY <4>1, <3>1, <3>2, WantedAscend
    <3>3. o[i] + (f - i) <= o[f] /\ o[f] = items[f].order /\ o[i] \in Lo..Hi
      BY <2>4, <3>5
    <3>4. items[f].order \in Lo..Hi /\ items[f].order \in Int /\ f \in Int /\ i \in Int
      BY <1>1, <1>4, <3>1
    <3> QED  BY <2>1, <2>4, <3>3, <3>4, NoteAssumption
  <2>5. ASSUME NEW p \in F, p < i, \A x \in F : x < i => x <= p,
               PlacedOrder(items, i) = items[p].order + (i - p)
        PROVE  FALSE
    <3>1. p \in 1..N /\ p <= i
      BY <1>1, <1>4, <2>5
    <3>2. \A x \in p..(i - 1) : x \notin F \/ x + 1 \notin F
      BY <1>1, <2>3, <2>5, <3>1
    <3>3. o[p] + (i - p) <= o[i] /\ o[p] = items[p].order /\ o[i] \in Lo..Hi
      BY <1>7, <2>5, <3>1, <3>2, WantedAscend
    <3>4. items[p].order \in Lo..Hi /\ items[p].order \in Int /\ p \in Int /\ i \in Int
      BY <1>1, <1>4, <3>1
    <3> QED  BY <2>1, <2>5, <3>3, <3>4, NoteAssumption
  <2> QED  BY <2>2, <2>3, <2>4, <2>5, PlacedIs
<1> QED  BY <1>2, <1>3, <1>5, <1>6, <1>7

-----------------------------------------------------------------------------
(* Requests that place notes                                               *)

\* What a request has read of the siblings, and the numbers it will write.
RowFits(q) ==
  /\ ItemsFit(q.items) /\ q.row \in Seq(NoteIds) /\ Len(q.items) = Len(q.row)
  /\ q.op \in {"move", "reorder"} => q.n \in Writes[q.u] /\ q.position \in Nat
  /\ q.order \in Int /\ Lo <= q.order
  /\ q.pc \in {"idle", "walk", "place", "commit"}
  /\ q.at \in NoteIds \cup {Top} /\ q.edges \subseteq NoteIds \X (NoteIds \cup {Top})

PlacesInv ==
  /\ OrdersFit /\ asked \in 0..MaxNoteRequests
  /\ \A r \in NoteSlots : RowFits(noteReq[r])

LEMMA NoSiblings == <<>> \in Seq(NoteIds) /\ Len(<<>>) = 0
OBVIOUS

LEMMA NoItemsFit == ItemsFit(<<>>)
BY NoteAssumption DEF ItemsFit, Fixed

LEMMA RowIdleFits == RowFits(NoteIdle)
<1>1. /\ NoteIdle.items = <<>> /\ NoteIdle.row = <<>> /\ NoteIdle.op = "none" /\ NoteIdle.order = 0
      /\ NoteIdle.pc = "idle" /\ NoteIdle.at = Top /\ NoteIdle.edges = {}
  BY DEF NoteIdle
<1> QED  BY <1>1, NoSiblings, NoItemsFit, NoteAssumption DEF RowFits

\* The next order is above those of the siblings, and none is below the column.
LEMMA NextOrderFits ==
    ASSUME OrdersFit, NEW p
    PROVE  NextOrder(p) \in Int /\ Lo <= NextOrder(p)
<1> DEFINE orders == {order[n] : n \in {m \in NoteIds : Note(m) /\ above[m] = p}}
<1>1. orders \subseteq Lo..Hi
  BY DEF OrdersFit
<1>2. CASE orders = {}
  BY <1>2, NoteAssumption DEF NextOrder
<1>3. CASE orders # {}
  <2> DEFINE S == {k \in Nat : \E x \in orders : k = Hi - x}
  <2> HIDE DEF orders
  <2>1. S \in SUBSET Nat /\ S # {}
    <3>1. PICK x \in orders : TRUE
      BY <1>3
    <3>2. Hi - x \in Nat
      BY <1>1, NoteAssumption
    <3>3. Hi - x \in S
      BY <3>2
    <3> QED  BY <3>3
  <2> HIDE DEF S
  <2>2. PICK m \in S : \A k \in S : m <= k
    BY <2>1, SmallestExists
  <2>3. PICK o \in orders : m = Hi - o
    BY <2>2 DEF S
  <2>4. ASSUME NEW x \in orders PROVE x <= o
    <3>1. x \in Int /\ o \in Int /\ Hi \in Int /\ Hi - x \in Nat
      BY <1>1, NoteAssumption
    <3>2. Hi - x \in S
      BY <3>1 DEF S
    <3> QED  BY <2>2, <2>3, <3>1, <3>2
  <2>5. \E y \in orders : \A x \in orders : x <= y
    BY <2>4
  <2> DEFINE max == CHOOSE y \in orders : \A x \in orders : x <= y
  <2>6. max \in orders
    BY <2>5
  <2>7. NextOrder(p) = max + 1
    BY <1>3 DEF NextOrder, orders
  <2> HIDE DEF max
  <2> QED  BY <1>1, <2>6, <2>7, NoteAssumption
<1> QED  BY <1>2, <1>3

\* The row of siblings: those of the list in their order, the note put in at its place.
LEMMA SiblingsFit ==
    ASSUME OrdersFit, NEW q, q.u \in NoteUsers, q.n \in Writes[q.u], q.position \in Nat,
           q.position # 0
    PROVE  /\ Siblings(q) \in Seq(NoteIds) /\ Len(Siblings(q)) <= Hi + 1
           /\ \A i, j \in 1..Len(Siblings(q)) :
                (i < j /\ Siblings(q)[i] # q.n /\ Siblings(q)[j] # q.n)
                  => order[Siblings(q)[i]] <= order[Siblings(q)[j]]
<1> DEFINE p == IF q.p \in Seen(q.u) THEN q.p ELSE Top
           S == {m \in Seen(q.u) \ {q.n} : ShownBelow(q.u, m) = p}
           s == Sorted(S)
           c == Cardinality(S)
           k == IF q.position - 1 < c THEN q.position - 1 ELSE c
<1>1. q.n \in NoteIds /\ S \in SUBSET (NoteIds \ {q.n})
  BY NoteAssumption DEF Seen
<1>2. c \in Nat /\ c <= Hi
  <2>1. /\ IsFiniteSet(NoteIds \ {q.n})
        /\ Cardinality(NoteIds \ {q.n}) = Cardinality(NoteIds) - 1
    <3>1. IsFiniteSet(NoteIds)
      BY NoteAssumption
    <3> QED  BY <1>1, <3>1, FS_RemoveElement
  <2>2. IsFiniteSet(S) /\ c <= Cardinality(NoteIds \ {q.n})
    BY <1>1, <2>1, FS_Subset
  <2>3. c \in Nat /\ Cardinality(NoteIds) \in Nat
    BY <2>2, NoteAssumption, FS_CardinalityType
  <2> HIDE DEF S
  <2> QED  BY <2>1, <2>2, <2>3, NoteAssumption
<1>3. s \in [1..c -> S] /\ \A i, j \in 1..c : i < j => Before(s[i], s[j])
  BY <1>1, SortedIs
<1> HIDE DEF s, S
<1> HIDE DEF c
<1>4. s \in Seq(NoteIds) /\ Len(s) = c
  BY <1>1, <1>2, <1>3
<1>5. k \in 0..c
  BY <1>2
<1>6. Siblings(q) = SubSeq(s, 1, k) \o <<q.n>> \o SubSeq(s, k + 1, c)
  BY <1>4 DEF Siblings, s, S, c
<1> HIDE DEF k
<1> DEFINE a == SubSeq(s, 1, k)
           b == SubSeq(s, k + 1, c)
           row == Siblings(q)
<1>7. a \in Seq(NoteIds) /\ Len(a) = k /\ \A i \in 1..k : a[i] = s[i]
  <2>1. \A i \in 1..k : s[i] \in NoteIds
    BY <1>2, <1>4, <1>5
  <2> QED  BY <1>2, <1>5, <2>1, SubSeqProperties
<1>8. b \in Seq(NoteIds) /\ Len(b) = c - k /\ \A i \in 1..(c - k) : b[i] = s[k + i]
  <2>1. \A i \in (k + 1)..c : s[i] \in NoteIds
    BY <1>2, <1>4, <1>5
  <2>2. /\ b \in Seq(NoteIds) /\ Len(b) = IF k + 1 <= c THEN c - (k + 1) + 1 ELSE 0
        /\ \A i \in 1..(c - (k + 1) + 1) : b[i] = s[(k + 1) + i - 1]
    BY <1>2, <1>5, <2>1, SubSeqProperties
  <2> HIDE DEF b
  <2>3. c - (k + 1) + 1 = c - k /\ \A i \in 1..(c - k) : (k + 1) + i - 1 = k + i
    BY <1>2, <1>5
  <2> QED  BY <1>2, <1>5, <2>2, <2>3
<1> HIDE DEF a, b
<1>9. /\ a \o <<q.n>> \in Seq(NoteIds) /\ Len(a \o <<q.n>>) = k + 1
      /\ \A i \in 1..(k + 1) : (a \o <<q.n>>)[i] = IF i <= k THEN s[i] ELSE q.n
  <2>1. <<q.n>> \in Seq(NoteIds) /\ Len(<<q.n>>) = 1 /\ <<q.n>>[1] = q.n
    BY <1>1
  <2>2. /\ a \o <<q.n>> \in Seq(NoteIds) /\ Len(a \o <<q.n>>) = Len(a) + Len(<<q.n>>)
        /\ \A i \in 1..(Len(a) + Len(<<q.n>>)) :
             (a \o <<q.n>>)[i] = IF i <= Len(a) THEN a[i] ELSE <<q.n>>[i - Len(a)]
    BY <1>7, <2>1, ConcatProperties
  <2>3. \A i \in 1..(k + 1) : ~(i <= k) => i - k = 1
    BY <1>2, <1>5
  <2> QED  BY <1>2, <1>5, <1>7, <2>1, <2>2, <2>3
<1>10. /\ row \in Seq(NoteIds) /\ Len(row) = c + 1
       /\ \A i \in 1..(c + 1) : row[i] = IF i <= k THEN s[i] ELSE IF i = k + 1 THEN q.n ELSE s[i - 1]
  <2> DEFINE w == a \o <<q.n>>
  <2>1. row = w \o b
    BY <1>6 DEF a, b
  <2>2. /\ w \o b \in Seq(NoteIds) /\ Len(w \o b) = Len(w) + Len(b)
        /\ \A i \in 1..(Len(w) + Len(b)) :
             (w \o b)[i] = IF i <= Len(w) THEN w[i] ELSE b[i - Len(w)]
    <3>1. w \in Seq(NoteIds) /\ b \in Seq(NoteIds)
      BY <1>8, <1>9
    <3> HIDE DEF w
    <3> QED  BY <3>1, ConcatProperties
  <2> HIDE DEF w, row
  <2>3. Len(w) = k + 1 /\ Len(b) = c - k /\ Len(w) + Len(b) = c + 1
    BY <1>2, <1>5, <1>8, <1>9 DEF w
  <2>4. ASSUME NEW i \in 1..(c + 1)
        PROVE  row[i] = IF i <= k THEN s[i] ELSE IF i = k + 1 THEN q.n ELSE s[i - 1]
    <3>1. CASE i <= k + 1
      <4>1. i \in 1..(k + 1) /\ row[i] = w[i]
        BY <1>5, <2>1, <2>2, <2>3, <3>1
      <4> QED  BY <1>5, <1>9, <4>1 DEF w
    <3>2. CASE ~(i <= k + 1)
      <4>1. row[i] = b[i - (k + 1)]
        BY <1>5, <2>1, <2>2, <2>3, <3>2
      <4>2. i - (k + 1) \in 1..(c - k) /\ k + (i - (k + 1)) = i - 1
        BY <1>2, <1>5, <3>2
      <4>3. b[i - (k + 1)] = s[i - 1]
        BY <1>8, <4>2
      <4> QED  BY <1>2, <1>5, <3>2, <4>1, <4>3
    <3> QED  BY <3>1, <3>2
  <2> QED  BY <2>1, <2>2, <2>3, <2>4
<1>11. ASSUME NEW i \in 1..c, NEW j \in 1..c, i < j PROVE order[s[i]] <= order[s[j]]
  <2>1. s[i] \in NoteIds /\ s[j] \in NoteIds /\ Before(s[i], s[j])
    BY <1>3, <1>4, <1>11
  <2>2. order[s[i]] \in Int /\ order[s[j]] \in Int
    BY <2>1, NoteAssumption DEF OrdersFit
  <2> QED  BY <2>1, <2>2 DEF Before
<1> HIDE DEF row
<1>12. ASSUME NEW i \in 1..Len(row), NEW j \in 1..Len(row), i < j, row[i] # q.n, row[j] # q.n
       PROVE  order[row[i]] <= order[row[j]]
  <2> DEFINE x == IF i <= k THEN i ELSE i - 1
             y == IF j <= k THEN j ELSE j - 1
  <2>1. i \in 1..(c + 1) /\ j \in 1..(c + 1) /\ i # k + 1 /\ j # k + 1
    BY <1>2, <1>5, <1>10, <1>12
  <2>2. x \in 1..c /\ y \in 1..c /\ x < y
    BY <1>2, <1>5, <1>12, <2>1
  <2>3. row[i] = s[x] /\ row[j] = s[y]
    BY <1>10, <2>1
  <2> HIDE DEF x, y
  <2> QED  BY <1>11, <2>2, <2>3
<1>13. Len(row) <= Hi + 1
  BY <1>2, <1>10, NoteAssumption
<1> QED  BY <1>10, <1>12, <1>13 DEF row

LEMMA OneRow ==
    ASSUME NoteInv, PlacesInv, NEW r \in NoteSlots, NEW q, RowFits(q),
           noteReq' = [noteReq EXCEPT ![r] = q], OrdersFit', asked' \in 0..MaxNoteRequests
    PROVE  PlacesInv'
<1>1. \A s \in NoteSlots : RowFits(noteReq'[s])
  BY DEF PlacesInv, NoteInv
<1>2. \A s \in NoteSlots : RowFits(noteReq[s])'
  BY <1>1 DEF RowFits, ItemsFit, Fixed
<1> QED  BY <1>2 DEF PlacesInv

LEMMA RowAsks ==
    ASSUME NoteInv, PlacesInv, NEW r \in NoteSlots, NEW q, RowFits(q), Ask(r, q), order' = order
    PROVE  PlacesInv'
<1>1. noteReq' = [noteReq EXCEPT ![r] = q] /\ asked' = asked + 1 /\ asked < MaxNoteRequests
  BY DEF Ask, MayAsk
<1>2. asked' \in 0..MaxNoteRequests
  BY <1>1, NoteAssumption DEF PlacesInv
<1>3. OrdersFit'
  BY DEF PlacesInv, OrdersFit
<1> QED  BY <1>1, <1>2, <1>3, OneRow

LEMMA RowEnds ==
    ASSUME NoteInv, PlacesInv, NEW r \in NoteSlots, Finish(r), asked' = asked, OrdersFit'
    PROVE  PlacesInv'
<1>1. noteReq' = [noteReq EXCEPT ![r] = NoteIdle] /\ asked' \in 0..MaxNoteRequests
  BY DEF Finish, PlacesInv
<1> QED  BY <1>1, RowIdleFits, OneRow

-----------------------------------------------------------------------------
(* Steps that place notes                                                  *)

LEMMA NoteStartRow ==
    ASSUME NoteInv, PlacesInv, NEW r \in NoteSlots, NoteStart(r)
    PROVE  PlacesInv'
<1>1. OrdersFit /\ above \in [NoteIds -> NoteIds \cup {Top}]
  BY DEF PlacesInv, NoteInv, NoteShape
<1>2. \A n \in NoteIds : order[n] \in Int /\ Lo <= order[n]
  BY <1>1, NoteAssumption DEF OrdersFit
<1>3. ASSUME NEW u \in NoteUsers, NEW p \in NoteIds \cup {Top}, CreateNote(r, u, p)
      PROVE  PlacesInv'
  <2> DEFINE o == NextOrder(p)
             q == [NoteIdle EXCEPT !.op = "create", !.pc = "commit", !.u = u, !.p = p, !.order = o]
  <2>1. Ask(r, q) /\ order' = order
    BY <1>3 DEF CreateNote, noteRows
  <2>2. o \in Int /\ Lo <= o
    BY <1>1, NextOrderFits
  <2> HIDE DEF o
  <2>3. /\ q.items = NoteIdle.items /\ q.row = NoteIdle.row /\ q.op = "create" /\ q.order = o
        /\ q.pc = "commit" /\ q.at = Top /\ q.edges = {}
    BY DEF NoteIdle
  <2> HIDE DEF q
  <2>4. RowFits(q)
    BY <2>2, <2>3, RowIdleFits DEF RowFits
  <2> QED  BY <2>1, <2>4, RowAsks
<1>4. ASSUME NEW u \in NoteUsers, NEW n \in NoteIds, NEW p \in NoteIds \cup {Top},
             Convert(r, u, n, p)
      PROVE  PlacesInv'
  <2> DEFINE o == NextOrder(p)
             q == [NoteIdle EXCEPT !.op = "convert", !.pc = "commit", !.u = u, !.n = n, !.p = p,
                                   !.at = above[n], !.order = o]
  <2>1. Ask(r, q) /\ order' = order
    BY <1>4 DEF Convert, noteRows
  <2>2. o \in Int /\ Lo <= o
    BY <1>1, NextOrderFits
  <2> HIDE DEF o
  <2>3. /\ q.items = NoteIdle.items /\ q.row = NoteIdle.row /\ q.op = "convert" /\ q.order = o
        /\ q.pc = "commit" /\ q.at = above[n] /\ q.edges = {}
    BY DEF NoteIdle
  <2> HIDE DEF q
  <2>4. RowFits(q)
    BY <1>1, <2>2, <2>3, RowIdleFits DEF RowFits
  <2> QED  BY <2>1, <2>4, RowAsks
<1>5. ASSUME NEW u \in NoteUsers, NEW n \in NoteIds, NEW p \in NoteIds \cup {Top},
             NEW position \in Positions, MoveNote(r, u, n, p, position)
      PROVE  PlacesInv'
  <2> DEFINE near == p \in {Top, above[n]}
             op == IF p = above[n] THEN "reorder" ELSE "move"
             pc == IF near \/ above[p] = Top THEN "place" ELSE "walk"
             at == IF near THEN Top ELSE above[p]
             edges == IF near THEN {} ELSE {<<p, above[p]>>}
             q == [NoteIdle EXCEPT !.op = op, !.u = u, !.n = n, !.p = p, !.position = position,
                                   !.pc = pc, !.at = at, !.edges = edges]
  <2>1. Ask(r, q) /\ order' = order /\ n \in Writes[u]
    BY <1>5 DEF MoveNote, noteRows
  <2>2. /\ at \in NoteIds \cup {Top} /\ edges \subseteq NoteIds \X (NoteIds \cup {Top})
        /\ pc \in {"idle", "walk", "place", "commit"} /\ position \in Nat
    BY <1>1, NoteAssumption
  <2> HIDE DEF op, pc, at, edges
  <2>3. /\ q.items = NoteIdle.items /\ q.row = NoteIdle.row /\ q.order = NoteIdle.order
        /\ q.n = n /\ q.u = u /\ q.position = position
        /\ q.pc = pc /\ q.at = at /\ q.edges = edges
    BY DEF NoteIdle
  <2> HIDE DEF q
  <2>4. RowFits(q)
    BY <2>1, <2>2, <2>3, RowIdleFits DEF RowFits
  <2> QED  BY <2>1, <2>4, RowAsks
<1>6. ASSUME NEW u \in NoteUsers, NEW n \in NoteIds,
             NEW how \in {"remove", "trash with file", "trash document", "trash in bulk"},
             EndNote(r, u, n, how)
      PROVE  PlacesInv'
  <2> DEFINE children == {m \in NoteIds : Present(m) /\ isNote[m] /\ above[m] = n}
             free == CASE how = "remove" ->
                            (children \cap Writes[u]) \cup {m \in {n} : above[m] # Top}
                       [] how = "trash with file" -> children \cap Writes[u]
                       [] how = "trash document" -> IF isNote[n] THEN children ELSE {}
                       [] how = "trash in bulk" -> {}
             q == [NoteIdle EXCEPT !.op = how, !.pc = "commit", !.u = u, !.n = n,
                                   !.order = order[n], !.free = free]
  <2>1. Ask(r, q) /\ order' = order
    BY <1>6 DEF EndNote, noteRows
  <2> HIDE DEF free
  <2>2. order[n] \in Int /\ Lo <= order[n]
    BY <1>2
  <2>3. /\ q.items = NoteIdle.items /\ q.row = NoteIdle.row /\ q.op = how /\ q.order = order[n]
        /\ q.pc = "commit" /\ q.at = Top /\ q.edges = {}
    BY DEF NoteIdle
  <2> HIDE DEF q
  <2>4. RowFits(q)
    BY <2>2, <2>3, RowIdleFits DEF RowFits
  <2> QED  BY <2>1, <2>4, RowAsks
<1> QED  BY <1>3, <1>4, <1>5, <1>6 DEF NoteStart

\* A note that is made, or made a note again, gets its number when the column has room for it.
LEMMA NewNoteRow ==
    ASSUME NoteInv, PlacesInv, NEW r \in NoteSlots, CreateNoteCommit(r) \/ ConvertCommit(r)
    PROVE  PlacesInv'
<1> DEFINE q == noteReq[r]
<1>1. Finish(r) /\ asked' = asked /\ RowFits(q) /\ OrdersFit
  BY DEF CreateNoteCommit, ConvertCommit, PlacesInv
<1>2. order' = order \/ \E n : order' = [order EXCEPT ![n] = q.order] /\ q.order <= Hi
  BY DEF CreateNoteCommit, ConvertCommit, noteRows
<1>3. q.order <= Hi => q.order \in Lo..Hi
  BY <1>1, NoteAssumption DEF RowFits
<1>4. OrdersFit'
  BY <1>1, <1>2, <1>3 DEF OrdersFit
<1> QED  BY <1>1, <1>4, RowEnds

LEMMA WalkUpRow ==
    ASSUME NoteInv, PlacesInv, NEW r \in NoteSlots, WalkUp(r)
    PROVE  PlacesInv'
<1> DEFINE q == noteReq[r]
           next == IF Present(q.at) THEN above[q.at] ELSE Top
           edges == q.edges \cup {<<q.at, next>>}
           pc == IF next = Top THEN "place" ELSE "walk"
           t == [q EXCEPT !.at = next, !.edges = edges, !.pc = pc]
<1>1. order' = order /\ asked' = asked /\ RowFits(q) /\ OrdersFit' /\ q.pc = "walk"
  BY DEF WalkUp, noteRows, PlacesInv, OrdersFit
<1>2. NoteRequestFits(q) /\ q.at \in NoteIds
  BY <1>1 DEF NoteInv, NoteRequestFits, WalkFits
<1>3. next \in NoteIds \cup {Top}
  BY <1>2 DEF NoteInv, NoteShape
<1>4. CASE Finish(r)
  BY <1>1, <1>4, RowEnds
<1>5. CASE noteReq' = [noteReq EXCEPT ![r].at = next, ![r].edges = edges, ![r].pc = pc]
  <2>1. edges \subseteq NoteIds \X (NoteIds \cup {Top}) /\ pc \in {"place", "walk"}
    BY <1>1, <1>2, <1>3 DEF RowFits
  <2> HIDE DEF next, edges, pc
  <2>2. noteReq' = [noteReq EXCEPT ![r] = t]
    BY <1>5 DEF NoteInv
  <2>3. /\ t.items = q.items /\ t.row = q.row /\ t.op = q.op /\ t.order = q.order /\ t.n = q.n
        /\ t.u = q.u /\ t.position = q.position /\ t.at = next /\ t.edges = edges /\ t.pc = pc
    BY <1>2 DEF NoteRequestFits, NoteFields
  <2> HIDE DEF t
  <2>4. RowFits(t)
    BY <1>1, <1>3, <2>1, <2>3 DEF RowFits
  <2>5. asked' \in 0..MaxNoteRequests
    BY <1>1 DEF PlacesInv
  <2> QED  BY <1>1, <2>2, <2>4, <2>5, OneRow
<1> QED  BY <1>4, <1>5 DEF WalkUp

LEMMA PlaceNoteRow ==
    ASSUME NoteInv, PlacesInv, NEW r \in NoteSlots, PlaceNote(r)
    PROVE  PlacesInv'
<1> DEFINE q == noteReq[r]
           row == IF q.position = 0 THEN <<>> ELSE Siblings(q)
           items == [i \in 1..Len(row) |-> [writable |-> row[i] \in Writes[q.u],
                                             order |-> order[row[i]]]]
           t == [q EXCEPT !.pc = "commit", !.row = row, !.items = items]
<1>1. order' = order /\ asked' = asked /\ RowFits(q) /\ OrdersFit /\ OrdersFit' /\ q.pc = "place"
  BY DEF PlaceNote, noteRows, PlacesInv, OrdersFit
<1>2. NoteRequestFits(q) /\ q.op \in {"move", "reorder"}
  BY <1>1 DEF NoteInv, NoteRequestFits
<1>3. q.u \in NoteUsers /\ q.n \in Writes[q.u] /\ q.position \in Nat
  BY <1>1, <1>2 DEF NoteRequestFits, RowFits
<1>4. /\ row \in Seq(NoteIds) /\ Len(row) <= Hi + 1
      /\ \A i, j \in 1..Len(row) :
           (i < j /\ row[i] # q.n /\ row[j] # q.n) => order[row[i]] <= order[row[j]]
  <2>1. CASE q.position = 0
    <3>1. row = <<>>
      BY <2>1
    <3> HIDE DEF row
    <3> QED  BY <3>1, NoSiblings, NoteAssumption
  <2>2. CASE q.position # 0
    <3>1. row = Siblings(q)
      BY <2>2
    <3> HIDE DEF row, q
    <3> QED  BY <1>1, <1>3, <2>2, <3>1, SiblingsFit
  <2> QED  BY <2>1, <2>2
<1>5. noteReq' = [noteReq EXCEPT ![r].pc = "commit", ![r].row = row, ![r].items = items]
  BY DEF PlaceNote
<1> HIDE DEF row
<1> DEFINE N == Len(row)
<1>6. N \in Nat /\ \A i \in 1..N : row[i] \in NoteIds
  BY <1>4
<1>7. ItemsFit(items) /\ Len(items) = Len(row)
  <2>1. /\ \A i \in 1..N : /\ items[i].order = order[row[i]]
                            /\ items[i].writable = (row[i] \in Writes[q.u])
        /\ items = [i \in 1..N |-> [writable |-> row[i] \in Writes[q.u],
                                     order |-> order[row[i]]]]
    OBVIOUS
  <2>2. \A i \in 1..N : order[row[i]] \in Lo..Hi
    BY <1>1, <1>6 DEF OrdersFit
  <2>3. \A i \in 1..N : items[i] \in [writable : BOOLEAN, order : Lo..Hi]
    BY <2>2
  <2>4. items \in Seq([writable : BOOLEAN, order : Lo..Hi]) /\ Len(items) = N
    BY <1>6, <2>3
  <2> HIDE DEF items
  <2>5. ASSUME NEW i \in Fixed(items) PROVE i \in 1..N /\ row[i] # q.n
    BY <1>3, <2>1, <2>4 DEF Fixed
  <2>6. ASSUME NEW i \in Fixed(items), NEW j \in Fixed(items), i < j
        PROVE  items[i].order <= items[j].order
    BY <1>4, <2>1, <2>5, <2>6
  <2> QED  BY <1>4, <2>4, <2>6 DEF ItemsFit
<1> HIDE DEF items
<1>8. noteReq' = [noteReq EXCEPT ![r] = t]
  BY <1>5 DEF NoteInv
<1>9. /\ t.items = items /\ t.row = row /\ t.op = q.op /\ t.order = q.order /\ t.n = q.n
      /\ t.u = q.u /\ t.position = q.position /\ t.at = q.at /\ t.edges = q.edges /\ t.pc = "commit"
  BY <1>2 DEF NoteRequestFits, NoteFields
<1> HIDE DEF t
<1>10. RowFits(t)
  BY <1>1, <1>3, <1>4, <1>7, <1>9 DEF RowFits
<1>11. asked' \in 0..MaxNoteRequests
  BY <1>1 DEF PlacesInv
<1> QED  BY <1>1, <1>8, <1>10, <1>11, OneRow

LEMMA MoveNoteCommitRow ==
    ASSUME NoteInv, PlacesInv, NEW r \in NoteSlots, MoveNoteCommit(r)
    PROVE  PlacesInv'
<1> DEFINE q == noteReq[r]
           row == q.row
           placed == PlaceOrders(q.items)
<1>1. Finish(r) /\ asked' = asked /\ RowFits(q) /\ OrdersFit
  BY DEF MoveNoteCommit, PlacesInv
<1>2. CASE order' = order
  <2>1. OrdersFit'
    BY <1>1, <1>2 DEF OrdersFit
  <2> QED  BY <1>1, <2>1, RowEnds
<1>3. CASE /\ row # <<>> => placed # <<>>
           /\ order' = [m \in NoteIds |->
                IF \E i \in 1..Len(row) : row[i] = m /\ placed[i] # q.items[i].order
                THEN placed[CHOOSE i \in 1..Len(row) : row[i] = m] ELSE order[m]]
  <2>1. row \in Seq(NoteIds) /\ Len(row) = Len(q.items)
    BY <1>1 DEF RowFits
  <2>2. placed # <<>> => \A i \in 1..Len(row) : placed[i] \in Lo..Hi
    BY <2>1 DEF PlaceOrders
  <2> HIDE DEF placed, row
  <2>3. ASSUME NEW m \in NoteIds PROVE order'[m] \in Lo..Hi
    <3>1. CASE \E i \in 1..Len(row) : row[i] = m /\ placed[i] # q.items[i].order
      <4>1. row # <<>>
        BY <3>1
      <4> DEFINE j == CHOOSE i \in 1..Len(row) : row[i] = m
      <4>2. j \in 1..Len(row)
        BY <3>1
      <4>3. order'[m] = placed[j]
        BY <1>3, <3>1
      <4> HIDE DEF j
      <4> QED  BY <1>3, <2>2, <4>1, <4>2, <4>3
    <3>2. CASE ~\E i \in 1..Len(row) : row[i] = m /\ placed[i] # q.items[i].order
      BY <1>1, <1>3, <3>2 DEF OrdersFit
    <3> QED  BY <3>1, <3>2
  <2>4. OrdersFit'
    BY <1>3, <2>3 DEF OrdersFit
  <2> QED  BY <1>1, <2>4, RowEnds
<1> QED  BY <1>2, <1>3 DEF MoveNoteCommit

LEMMA EndNoteCommitRow ==
    ASSUME NoteInv, PlacesInv, NEW r \in NoteSlots, EndNoteCommit(r)
    PROVE  PlacesInv'
<1> DEFINE q == noteReq[r]
<1>1. Finish(r) /\ asked' = asked /\ OrdersFit
  BY DEF EndNoteCommit, PlacesInv
<1>2. \/ order' = order
      \/ order' = [order EXCEPT ![q.n] = IF q.order # 0 THEN 0 ELSE @]
  BY DEF EndNoteCommit, noteRows
<1>3. 0 \in Lo..Hi
  BY NoteAssumption
<1>4. OrdersFit'
  BY <1>1, <1>2, <1>3 DEF OrdersFit
<1> QED  BY <1>1, <1>4, RowEnds

LEMMA PlacesKept == NoteInv /\ PlacesInv /\ [NoteNext]_noteVars => PlacesInv'
<1> SUFFICES ASSUME NoteInv, PlacesInv, [NoteNext]_noteVars PROVE PlacesInv'
  OBVIOUS
<1>1. ASSUME NEW r \in NoteSlots, NoteStart(r) PROVE PlacesInv'
  BY <1>1, NoteStartRow
<1>2. ASSUME NEW r \in NoteSlots, NoteStep(r) PROVE PlacesInv'
  BY <1>2, NewNoteRow, WalkUpRow, PlaceNoteRow, MoveNoteCommitRow, EndNoteCommitRow DEF NoteStep
<1>3. ASSUME order' = order, noteReq' = noteReq, asked' \in 0..MaxNoteRequests PROVE PlacesInv'
  <2>1. \A r \in NoteSlots : RowFits(noteReq[r])'
    BY <1>3 DEF PlacesInv, RowFits, ItemsFit, Fixed
  <2> QED  BY <1>3, <2>1 DEF PlacesInv, OrdersFit
<1>4. CASE UNCHANGED noteVars
  BY <1>3, <1>4 DEF noteVars, PlacesInv
<1>5. ASSUME NEW n \in NoteIds, RestoreNote(n) \/ PurgeNote(n) PROVE PlacesInv'
  <2>1. order' = order /\ noteReq' = noteReq /\ asked' = asked + 1 /\ asked < MaxNoteRequests
    BY <1>5 DEF RestoreNote, PurgeNote
  <2>2. asked' \in 0..MaxNoteRequests
    BY <2>1, NoteAssumption DEF PlacesInv
  <2> QED  BY <1>3, <2>1, <2>2
<1> QED  BY <1>1, <1>2, <1>4, <1>5 DEF NoteNext

LEMMA PlacesStart == NoteInit => PlacesInv
BY RowIdleFits, NoteAssumption DEF NoteInit, PlacesInv, OrdersFit

-----------------------------------------------------------------------------
(* Theorems about places                                                   *)

\* What requests have read of the siblings is in the order of the column, fixed notes ascending.
THEOREM PlacesInvariant == NoteSpec => []PlacesInv
<1>1. NoteInit => PlacesInv
  BY PlacesStart
<1>2. NoteInv /\ PlacesInv /\ [NoteNext]_noteVars => PlacesInv'
  BY PlacesKept
<1> QED  BY <1>1, <1>2, NoteInvariant, PTL DEF NoteSpec

\* Reordering (_place_orders of move_note): the notes others keep stay where they are, all come
\* in the wanted sequence, and 409 is answered only when no numbers of the column could do it.
THEOREM PlacesRight == NoteSpec => []PlacesAreRight
<1>1. ASSUME PlacesInv PROVE PlacesAreRight
  <2> SUFFICES ASSUME NEW r \in NoteSlots, noteReq[r].items # <<>>
               PROVE  LET items == noteReq[r].items
                          placed == PlaceOrders(items)
                      IN IF placed # <<>> THEN Wanted(items, placed)
                         ELSE \A o \in [1..Len(items) -> Lo..Hi] : ~Wanted(items, o)
    BY DEF PlacesAreRight
  <2> DEFINE items == noteReq[r].items
  <2>1. ItemsFit(items)
    BY <1>1 DEF PlacesInv, RowFits
  <2>2. items # <<>>
    OBVIOUS
  <2> HIDE DEF items
  <2>3. IF PlaceOrders(items) # <<>> THEN Wanted(items, PlaceOrders(items))
        ELSE \A o \in [1..Len(items) -> Lo..Hi] : ~Wanted(items, o)
    BY <2>1, <2>2, PlacesFit
  <2> QED  BY <2>3 DEF items
<1> QED  BY <1>1, PlacesInvariant, PTL

\* The types of the rows and of the requests; an order is a number the column can hold.
THEOREM NoteTypesHold == NoteSpec => []NoteTypeOK
<1>1. NoteInv /\ PlacesInv => NoteTypeOK
  BY DEF NoteInv, NoteShape, PlacesInv, OrdersFit, RowFits, NoteRequestFits, NoteTypeOK
<1> QED  BY <1>1, NoteInvariant, PlacesInvariant, PTL
=============================================================================
