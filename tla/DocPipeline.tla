---------------------------- MODULE DocPipeline ----------------------------
(***************************************************************************)
(* One document: its row, its file on disk, its versions, its search index *)
(* and the processing jobs, under the requests that change it              *)
(* (backend/app/routers/ingest.py, documents.py, wopi.py), the version     *)
(* service (services/versioning.py) and the pipeline that the queue worker *)
(* runs (services/document_processing.py).                                 *)
(*                                                                         *)
(* A text is a revision number: what an upload, an edit or a save brings.  *)
(* Every upload has a path of its own, named by its revision. A request    *)
(* is one transaction: what it reads or does to the disk before it locks   *)
(* the document row are steps of their own, from the lock to the commit it *)
(* is one step. The job queue is what JobPromise promises, oldest first.   *)
(* A version row says whether a file was kept for it; a kept file that a   *)
(* refused change leaves behind changes the file and not the row.          *)
(***************************************************************************)
EXTENDS Naturals, FiniteSets

CONSTANTS
    Req,          \* requests that may be in flight together
    Worker,       \* worker coroutines of the job queue
    Ops,          \* the operations users perform
    Exclusive,    \* the operations that no other request overlaps
    FileTypes,    \* "md", "pdf" (text is extracted) or "video" (it is not)
    Unreadable,   \* revisions that parse_file raises for, unless they are "md"
    MaxAttempts,  \* attempts of a job
    MaxKilled,    \* bound: attempts of a job that a kill of the process may end
    MaxRev,       \* bound: revisions brought by uploads, edits and saves
    MaxVer,       \* bound: version numbers
    MaxJobs       \* bound: jobs created

Operations == {"tus", "ingest", "create_text", "fuse", "edit", "wopi",
               "reindex", "restore"}
ASSUME OpsAssumption == Ops \subseteq Operations
ASSUME UnreadableAssumption == Unreadable \subseteq 1 .. MaxRev
ASSUME FileTypesAssumption == FileTypes \subseteq {"md", "pdf", "video"}
ASSUME BoundsAssumption ==
    /\ IsFiniteSet(Req) /\ MaxAttempts \in Nat \ {0} /\ MaxKilled \in Nat
    /\ MaxRev \in Nat /\ MaxVer \in Nat /\ MaxJobs \in Nat

Rev == 1 .. MaxRev
None == 0                    \* no text, no file, no path
Warning == MaxRev + 1        \* the content of an infected document
Text == 0 .. MaxRev + 1
Ver == 1 .. MaxVer
Job == 1 .. MaxJobs

VARIABLES
    doc,        \* the row of table documents; history: doc.restored is the version
                \* whose text was restored, if no other change came after it
    rows,       \* the rows of table files of the document, by their path
    disk,       \* disk[p] is the text of the upload at path p, None if absent
    version,    \* version[n] is the row of table document_versions
    copy,       \* copy[n] is the text of the file kept for version n
    req,        \* req[q] is the request that slot q serves
    stage, holders, path, tries,   \* the jobs; path is the storage_path of the payload
    run,        \* run[w] is where worker w is in process_document_job
    last,       \* the last revision given out
    accepted    \* history: revisions whose request was answered with success

queue == <<stage, holders, path, tries>>
vars == <<doc, rows, disk, version, copy, req, queue, run, last, accepted>>

Queue == INSTANCE JobPromise

Free == [op |-> "none", pc |-> "free", rev |-> None, num |-> None,
         path |-> None, rows |-> {}, first |-> FALSE]
Off == [pc |-> "off", job |-> None, text |-> None]

NoVersion == [made |-> FALSE, content |-> None, kept |-> FALSE]

Init ==
    /\ \E type \in FileTypes :
       doc = [there |-> FALSE, type |-> type, path |-> None, content |-> None, chunks |-> {},
              status |-> "done", scan |-> "pending", current |-> None,
              restored |-> None]
    /\ rows = {} /\ disk = [p \in Rev |-> None]
    /\ version = [n \in Ver |-> NoVersion]
    /\ copy = [n \in Ver |-> None]
    /\ req = [q \in Req |-> Free]
    /\ Queue!Init /\ path = [j \in Job |-> None] /\ tries = [j \in Job |-> 0]
    /\ run = [w \in Worker |-> Off]
    /\ last = 0 /\ accepted = {}

-----------------------------------------------------------------------------
(* The version service                                                     *)

Made == {n \in Ver : version[n].made}
MaxVersionShown == doc.current   \* mutant: counts from the version shown
MaxVersion == IF Made = {} THEN 0 ELSE CHOOSE n \in Made : \A m \in Made : m <= n

\* _copy_file_to_version: nothing is written if the file is not on disk.
CopyFile(n, p) == [copy EXCEPT ![n] = IF disk[p] = None THEN @ ELSE disk[p]]
VersionNoFile(content, p) ==    \* mutant: source_path is not stored
    [made |-> TRUE, content |-> content, kept |-> FALSE]
Version(content, p) == [made |-> TRUE, content |-> content, kept |-> disk[p] # None]

\* The bounds stop a change before it starts, never half way.
Created == {j \in Job : stage[j] # "absent"}
Room ==
    LET n == Cardinality({q \in Req : req[q] # Free})
    IN  /\ Cardinality(Created) + n < MaxJobs
        /\ (IF Made = {} THEN 1 ELSE MaxVersion) + n < MaxVer

\* The jobs table gets the next job.
CreateJob(p) ==
    /\ \E j \in Job :
          /\ j = Cardinality(Created) + 1
          /\ Queue!Submit(j)
          /\ path' = [path EXCEPT ![j] = p]
    /\ UNCHANGED tries

At(q, op, pc) == req[q].op = op /\ req[q].pc = pc

\* One document only: two uploads that both find none, and make two documents
\* of one title, are left out.
OneCreator(others) ==
    doc.there \/ \A r \in others : req[r].num = None /\ req[r].pc # "commit"
Answer(q) == req' = [req EXCEPT ![q] = Free]

\* The request starts: an upload is on disk already, under a path of its own.
Begin(q, op) ==
    /\ req[q] = Free /\ op \in Ops /\ last < MaxRev /\ Room
    /\ op = "create_text" => doc.type = "md"
    /\ \A r \in Req : req[r] # Free => {op, req[r].op} \cap Exclusive = {}
    /\ last' = last + 1
    /\ CASE op \in {"tus", "ingest", "create_text"} ->
              disk' = [disk EXCEPT ![last + 1] = last + 1]
         [] OTHER -> disk' = disk
    /\ req' = [req EXCEPT ![q] =
           [Free EXCEPT !.op = op, !.rev = last + 1, !.path = doc.path,
                        !.pc = IF op = "create_text" THEN "unlink" ELSE "number"]]
    /\ UNCHANGED <<doc, rows, version, copy, queue, run, accepted>>

\* create_versions_on_edit, called first: the number of the new state, and for
\* a document without versions its old state as version 1, not yet committed. A
\* new document gets version 1 from create_initial_version.
Legacy == doc.there /\ Made = {}
Numbered(q) ==
    req' = [req EXCEPT ![q].pc = IF req[q].op = "edit" THEN "write" ELSE "unlink",
                       ![q].num = IF Legacy THEN 2 ELSE MaxVersion + 1,
                       ![q].path = doc.path,
                       ![q].first = Legacy]

TakeNumber(q) ==
    /\ req[q].pc = "number" /\ ~Legacy
    /\ OneCreator(Req \ {q})
    /\ Numbered(q)
    /\ UNCHANGED <<doc, rows, disk, version, copy, queue, run, last, accepted>>

\* "LIMIT 1" without an order: any row of table files.
SaveFirst(q) ==
    /\ req[q].pc = "number" /\ Legacy /\ \A r \in Req : ~req[r].first
    /\ \E p \in rows :
          /\ copy' = CopyFile(1, p)
          /\ version' = [version EXCEPT ![1] = [Version(doc.content, p) EXCEPT !.made = FALSE]]
    /\ Numbered(q)
    /\ UNCHANGED <<doc, rows, disk, queue, run, last, accepted>>

\* Two first changes of one document: the insertion of the second waits for the
\* commit of the first and fails, after the file has been copied once more.
LoseFirst(q) ==
    /\ req[q].pc = "number" /\ Legacy /\ \E r \in Req : req[r].first
    /\ \E p \in rows : copy' = CopyFile(1, p)
    /\ Answer(q)
    /\ UNCHANGED <<doc, rows, disk, version, queue, run, last, accepted>>

\* The old files are unlinked before anything is committed.
UnlinkOld(q) ==
    /\ req[q].pc = "unlink" /\ OneCreator(Req \ {q})
    /\ disk' = [p \in Rev |-> IF p \in rows THEN None ELSE disk[p]]
    /\ req' = [req EXCEPT ![q].pc = "commit", ![q].rows = rows]
    /\ UNCHANGED <<doc, rows, version, copy, queue, run, last, accepted>>

\* The version rows of a change that is committed: the new state under n, and
\* the old state that create_versions_on_edit inserted.
NewVersions(q, new) ==
    [m \in Ver |-> IF m = req[q].num THEN new
                   ELSE [version[m] EXCEPT !.made = @ \/ (m = 1 /\ req[q].first)]]
RowsOfAll(q) == rows \cup {req[q].rev}   \* mutant: the old rows stay
RowsOf(q) == (rows \ req[q].rows) \cup {req[q].rev}

\* UNIQUE (document_id, version_number): the file of the version is copied
\* before the insertion fails, the transaction is rolled back, the answer is 500.
Conflict(q) ==
    /\ req[q].pc = "commit" /\ req[q].op # "create_text"
    /\ version[req[q].num].made
    /\ \E p \in IF req[q].op = "edit" THEN rows ELSE RowsOf(q) :
          copy' = CopyFile(req[q].num, p)
    /\ Answer(q)
    /\ UNCHANGED <<doc, rows, disk, version, queue, run, last, accepted>>

\* The row of a document whose file has just been uploaded.
Uploaded(r, n) == [doc EXCEPT !.there = TRUE, !.path = r, !.content = None,
                              !.status = "pending", !.current = n, !.restored = None]

-----------------------------------------------------------------------------
(* Uploads                                                                 *)

\* tus_hook (post-finish) and _ingest_single_file, up to the commit: a new
\* document, or the overwriting of this one. The API creates the job in the
\* same transaction, the hook scans the file first.
CommitUpload(q) ==
    LET r == req[q].rev
        n == req[q].num
    IN  /\ req[q].pc = "commit" /\ req[q].op \in {"tus", "ingest"}
        /\ ~version[n].made
        /\ doc' = Uploaded(r, n)
        /\ rows' = RowsOf(q)
        /\ \E p \in RowsOf(q) :
              version' = NewVersions(q, Version(None, p)) /\ copy' = CopyFile(n, p)
        /\ IF req[q].op = "tus"
           THEN /\ req' = [req EXCEPT ![q].pc = "scan", ![q].first = FALSE]
                /\ UNCHANGED <<queue, accepted>>
           ELSE /\ CreateJob(r) /\ Answer(q)
                /\ accepted' = accepted \cup {r}
        /\ UNCHANGED <<disk, run, last>>

\* tus_hook: the status is committed while clamav looks at the file.
StartScan(q) ==
    /\ At(q, "tus", "scan")
    /\ doc' = [doc EXCEPT !.status = "scanning"]
    /\ req' = [req EXCEPT ![q].pc = "verdict"]
    /\ UNCHANGED <<rows, disk, version, copy, queue, run, last, accepted>>

ScanClean(q) ==
    /\ At(q, "tus", "verdict")
    /\ doc' = [doc EXCEPT !.scan = "clean"]
    /\ CreateJob(req[q].rev)
    /\ Answer(q)
    /\ accepted' = accepted \cup {req[q].rev}
    /\ UNCHANGED <<rows, disk, version, copy, run, last>>

ScanInfected(q) ==
    /\ At(q, "tus", "verdict")
    /\ doc' = [doc EXCEPT !.status = "error", !.scan = "infected",
                        !.content = Warning]
    /\ disk' = [disk EXCEPT ![req[q].rev] = None]
    /\ Answer(q)
    /\ UNCHANGED <<rows, version, copy, queue, run, last, accepted>>

\* create_text_document: the row is locked before the versions are looked at,
\* so the number is never taken, but the state that create_versions_on_edit
\* saves as version 1 of a document without versions is the new one. (Left out:
\* the deadlock with another first change, which PostgreSQL breaks.)
CommitText(q) ==
    LET r == req[q].rev
        n == IF Legacy THEN 2 ELSE MaxVersion + 1
        now == {n} \cup IF Legacy THEN {1} ELSE {}
    IN  /\ At(q, "create_text", "commit")
        /\ \A o \in Req : ~req[o].first
        /\ doc' = Uploaded(r, n)
        /\ rows' = RowsOf(q)
        /\ \E p \in RowsOf(q) :
              /\ version' = [m \in Ver |-> IF m \in now THEN Version(None, p) ELSE version[m]]
              /\ copy' = [m \in Ver |-> IF m \in now THEN CopyFile(m, p)[m] ELSE copy[m]]
        /\ CreateJob(r)
        /\ Answer(q)
        /\ accepted' = accepted \cup {r}
        /\ UNCHANGED <<disk, run, last>>

\* FUSE: _commit_pending_sync inserts a document with its file and job, and no
\* version.
FuseCreate ==
    /\ "fuse" \in Ops /\ ~doc.there /\ OneCreator(Req) /\ last < MaxRev /\ Room
    /\ last' = last + 1
    /\ doc' = [Uploaded(last + 1, None) EXCEPT !.current = None]
    /\ rows' = {last + 1}
    /\ disk' = [disk EXCEPT ![last + 1] = last + 1]
    /\ CreateJob(last + 1)
    /\ accepted' = accepted \cup {last + 1}
    /\ UNCHANGED <<version, copy, req, run>>

-----------------------------------------------------------------------------
(* Changes of a document that is there                                     *)

\* update_document with a content: an .md file is written back first ...
WriteBack(q) ==
    /\ At(q, "edit", "write")
    /\ IF doc.type = "md" /\ req[q].path # None
       THEN disk' = [disk EXCEPT ![req[q].path] = req[q].rev]
       ELSE disk' = disk
    /\ req' = [req EXCEPT ![q].pc = "commit"]
    /\ UNCHANGED <<doc, rows, version, copy, queue, run, last, accepted>>

CommitEditAnyway(q) ==    \* mutant: no unique version number
    LET r == req[q].rev
        n == req[q].num
    IN  /\ At(q, "edit", "commit")
        /\ doc' = [doc EXCEPT !.content = r, !.chunks = {r}, !.current = n, !.restored = None]
        /\ \E p \in rows :
              version' = NewVersions(q, Version(r, p)) /\ copy' = CopyFile(n, p)
        /\ Answer(q)
        /\ accepted' = accepted \cup {r}
        /\ UNCHANGED <<rows, disk, queue, run, last>>

\* ... then content, chunks and version are committed. The status stays.
CommitEdit(q) ==
    LET r == req[q].rev
        n == req[q].num
    IN  /\ At(q, "edit", "commit") /\ ~version[n].made
        /\ doc' = [doc EXCEPT !.content = r, !.chunks = {r}, !.current = n, !.restored = None]
        /\ \E p \in rows :
              version' = NewVersions(q, Version(r, p)) /\ copy' = CopyFile(n, p)
        /\ Answer(q)
        /\ accepted' = accepted \cup {r}
        /\ UNCHANGED <<rows, disk, queue, run, last>>

\* wopi.py put_file: the editor's text replaces the text of the file, nothing
\* else changes.
PutFile ==
    /\ "wopi" \in Ops /\ doc.there /\ last < MaxRev
    /\ \E p \in rows :
          /\ disk[p] # None
          /\ disk' = [disk EXCEPT ![p] = last + 1]
          /\ accepted' = accepted \ {disk[p]}
    /\ last' = last + 1
    /\ UNCHANGED <<doc, rows, version, copy, req, queue, run>>

\* reindex_document and bulk_action "reindex".
Reindex ==
    /\ "reindex" \in Ops /\ doc.there /\ Room
    /\ doc' = [doc EXCEPT !.status = "queued"]
    /\ CreateJob(doc.path)
    /\ UNCHANGED <<rows, disk, version, copy, req, run, last, accepted>>

RestoreNoJob(n) ==   \* mutant: the document is not processed again
    /\ "restore" \in Ops /\ doc.there /\ version[n].made /\ Room
    /\ doc' = [doc EXCEPT !.current = n, !.chunks = {}, !.status = "pending"]
    /\ UNCHANGED <<rows, disk, version, copy, req, queue, run, last, accepted>>

\* restore_version: a content that was never captured is not restored; the
\* file of the version is copied over the live one; a job reads it again.
Restore(n) ==
    /\ "restore" \in Ops /\ doc.there /\ version[n].made /\ Room
    /\ LET text == version[n].content
       IN  doc' = [doc EXCEPT
               !.content = IF text # None THEN text ELSE @,
               !.restored = IF text # None THEN n ELSE None,
               !.current = n, !.chunks = {}, !.status = "pending"]
    /\ \E p \in rows :
          /\ disk' = [disk EXCEPT ![p] = IF version[n].kept THEN copy[n] ELSE @]
          /\ CreateJob(p)
    /\ UNCHANGED <<rows, version, copy, req, run, last, accepted>>

-----------------------------------------------------------------------------
(* process_document_job                                                    *)

Oldest(j) == stage[j] = "waiting" /\ \A i \in Job : stage[i] = "waiting" => j <= i

Take(w, j) ==
    /\ Oldest(j) /\ Queue!Take(w, j)
    /\ tries' = [tries EXCEPT ![j] = @ + 1]
    /\ run' = [run EXCEPT ![w] = [pc |-> "begin", job |-> j, text |-> None]]
    /\ UNCHANGED <<doc, rows, disk, version, copy, req, path, last, accepted>>

Step(w, pc) == run[w].pc = pc
Goto(w, pc) == run' = [run EXCEPT ![w].pc = pc]

\* The statuses parsing, chunking and embedding are one here: no step between
\* them touches anything else.
SetParsing(w) ==
    /\ Step(w, "begin") /\ doc.type # "video"
    /\ doc' = [doc EXCEPT !.status = "parsing"]
    /\ Goto(w, "parse")
    /\ UNCHANGED <<rows, disk, version, copy, req, queue, last, accepted>>

Readable(text) == text # None /\ (doc.type # "md" => text \notin Unreadable)

Parse(w) ==
    LET text == disk[path[run[w].job]]
    IN  /\ Step(w, "parse") /\ Readable(text)
        /\ run' = [run EXCEPT ![w].pc = "save", ![w].text = text]
        /\ UNCHANGED <<doc, rows, disk, version, copy, req, queue, last, accepted>>

\* The worker's outcome in the queue: complete_job, or fail_job.
Finish(w, to) ==
    /\ Queue!Release(w, run[w].job) /\ stage'[run[w].job] = to
    /\ run' = [run EXCEPT ![w] = Off]
    /\ UNCHANGED <<path, tries>>

AgainOnce(j) ==   \* mutant: <= for <
    IF tries[j] <= MaxAttempts THEN "waiting" ELSE "ended"
Again(j) == IF tries[j] < MaxAttempts THEN "waiting" ELSE "ended"

\* parse_file raises: the file is not there any more, or it is broken. Nothing
\* else is undone, and the status stays "parsing".
ParseRaises(w) ==
    /\ Step(w, "parse") /\ ~Readable(disk[path[run[w].job]])
    /\ Finish(w, Again(run[w].job))
    /\ UNCHANGED <<doc, rows, disk, version, copy, req, last, accepted>>

SaveTextMoreChunks(w) ==   \* mutant: the old chunks stay
    LET text == run[w].text
    IN  /\ Step(w, "save")
        /\ doc' = [doc EXCEPT !.content = text, !.chunks = @ \cup {text}, !.status = "summarizing"]
        /\ Goto(w, "summarize")
        /\ UNCHANGED <<rows, disk, version, copy, req, queue, last, accepted>>

\* One transaction: content, chunks, and every version with an empty content.
SaveText(w) ==
    LET text == run[w].text
    IN  /\ Step(w, "save")
        /\ doc' = [doc EXCEPT !.content = text, !.chunks = {text}, !.status = "summarizing"]
        /\ version' = [n \in Ver |->
               IF version[n].made /\ version[n].content = None
               THEN [version[n] EXCEPT !.content = text] ELSE version[n]]
        /\ Goto(w, "summarize")
        /\ UNCHANGED <<rows, disk, copy, req, queue, last, accepted>>

SkipVideo(w) ==
    /\ Step(w, "begin") /\ doc.type = "video"
    /\ doc' = [doc EXCEPT !.status = "done"]
    /\ Finish(w, "ended")
    /\ UNCHANGED <<rows, disk, version, copy, req, last, accepted>>

MarkDone(w) ==
    /\ Step(w, "summarize")
    /\ doc' = [doc EXCEPT !.status = "done"]
    /\ Finish(w, "ended")
    /\ UNCHANGED <<rows, disk, version, copy, req, last, accepted>>

\* The worker process is killed in the middle of its jobs ...
Kill ==
    /\ \E w \in Worker : run[w] # Off
    /\ \A j \in Job : holders[j] # {} => tries[j] <= MaxKilled
    /\ Queue!Lose(Worker)
    /\ run' = [w \in Worker |-> Off]
    /\ UNCHANGED <<doc, rows, disk, version, copy, req, path, tries, last, accepted>>

\* ... and the next one recovers them. (How long that takes is left to JobQueue.)
Recover ==
    LET lost == {j \in Job : stage[j] = "taken" /\ holders[j] = {}}
    IN  /\ lost # {} /\ Queue!Reclaim(lost)
        /\ UNCHANGED <<doc, rows, disk, version, copy, req, path, tries, run, last, accepted>>

RequestStep(q) ==
    \/ \E op \in {"tus", "ingest", "create_text"} : Begin(q, op)
    \/ doc.there /\ Begin(q, "edit")
    \/ TakeNumber(q)
    \/ SaveFirst(q)
    \/ LoseFirst(q)
    \/ UnlinkOld(q)
    \/ Conflict(q)
    \/ CommitUpload(q)
    \/ StartScan(q)
    \/ ScanClean(q)
    \/ ScanInfected(q)
    \/ CommitText(q)
    \/ WriteBack(q)
    \/ CommitEdit(q)

WorkerStep(w) ==
    \/ \E j \in Job : Take(w, j)
    \/ SetParsing(w)
    \/ Parse(w)
    \/ ParseRaises(w)
    \/ SaveText(w)
    \/ SkipVideo(w)
    \/ MarkDone(w)

Next ==
    \/ \E q \in Req : RequestStep(q)
    \/ FuseCreate
    \/ PutFile
    \/ Reindex
    \/ \E n \in Ver : Restore(n)
    \/ \E w \in Worker : WorkerStep(w)
    \/ Kill
    \/ Recover

Spec == Init /\ [][Next]_vars

\* A request that has started goes on; every worker goes on.
Fairness ==
    /\ \A q \in Req : WF_vars(req[q] # Free /\ RequestStep(q))
    /\ \A w \in Worker : WF_vars(WorkerStep(w))

FairSpec == Spec /\ Fairness

-----------------------------------------------------------------------------
(* Properties                                                              *)

TypeOK ==
    /\ doc \in [there : BOOLEAN, type : FileTypes, path : 0 .. MaxRev, content : Text,
               chunks : SUBSET Text, current : 0 .. MaxVer, restored : 0 .. MaxVer,
               scan : {"pending", "clean", "infected"},
               status : {"pending", "scanning", "queued", "parsing",
                         "summarizing", "done", "error"}]
    /\ rows \in SUBSET Rev /\ disk \in [Rev -> Text] /\ copy \in [Ver -> Text]
    /\ version \in [Ver -> [made : BOOLEAN, content : Text, kept : BOOLEAN]]
    /\ stage \in [Job -> {"absent", "waiting", "taken", "ended"}]
    /\ holders \in [Job -> SUBSET Worker]
    /\ path \in [Job -> 0 .. MaxRev] /\ tries \in [Job -> 0 .. MaxAttempts + MaxKilled]
    /\ accepted \in SUBSET Rev /\ last \in 0 .. MaxRev

Quiet == (\A q \in Req : req[q] = Free) /\ (\A j \in Job : stage[j] \in {"absent", "ended"})

\* Where revision r can be had: from the live file, from the search text, or from
\* a version that a user can restore, be it one that a request under way is about
\* to commit.
Saved == Made \cup {n \in Ver : n = 1 /\ \E q \in Req : req[q].first}
Kept(r) ==
    \/ \E p \in rows : disk[p] = r
    \/ doc.content = r
    \/ \E n \in Saved : version[n].content = r \/ (version[n].kept /\ copy[n] = r)

\* A text whose upload or edit was answered with success can still be had.
\* (versioning.py, tus_hook, _ingest_single_file, update_document)
NoAcceptedChangeIsLost == \A r \in accepted : Kept(r)

\* The document's file is the one its row in table files names, and it is on
\* disk, unless the scan found it infected or an overwriting request has just
\* unlinked it. (the unlink and delete of old files)
FilesPresent ==
    /\ doc.there => doc.path \in rows
    /\ \A p \in rows :
          \/ disk[p] # None
          \/ doc.scan = "infected"
          \/ \E q \in Req : req[q].pc = "commit" /\ p \in req[q].rows

\* When nothing is left to do, what the search finds is the text of the file.
\* (process_document_job)
SettledContentIsLive ==
    Quiet /\ doc.there /\ doc.status = "done" /\ doc.scan # "infected" =>
        doc.content = disk[doc.path] /\ doc.chunks = {doc.content}

\* A version is never changed once it is there: its text is filled in once, the
\* file kept for it stays what it was. (versioning.py, process_document_job)
VersionsAreFrozen ==
    [][\A n \in Made :
          /\ version'[n].made /\ version'[n].kept = version[n].kept
          /\ version[n].content # None => version'[n].content = version[n].content
          /\ version[n].kept => copy'[n] = copy[n]]_vars

\* The processing of a document comes to an end: it is "done", or "error" after a
\* scan. A file that cannot be read leaves "parsing" behind, and so may a retry of
\* an earlier job once the file was found infected. (process_document_job, tus_hook)
ProcessingEnds ==
    doc.there ~> \/ doc.status \in {"done", "error"}
                 \/ doc.scan = "infected" \/ ~Readable(disk[doc.path])

\* README_ja.md: any version can be restored, a text edit included: the search
\* text is the restored one once the document has settled.
RestoredTextStays ==
    Quiet /\ doc.restored # None => doc.content = version[doc.restored].content
=============================================================================
