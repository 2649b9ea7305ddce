# Local AI Search in TLA+

Local AI Search (LAS) is a self-hosted document manager: files are uploaded from
the browser, by an API or over a network drive, their text is extracted and
indexed by a queue of background jobs, every change is kept as a version, and the
documents can be searched, shared, edited online and asked about.

This directory holds TLA+ specifications of the parts of it in which the order of
things matters, the TLC configurations that check them, and TLAPS proofs about fourteen
of them. Run everything from this directory:

    tlc -config JobQueueFaults.cfg MCJobQueue      # one run
    tlapm JobQueueProofs.tla                       # the proofs about one component

The proofs about a module `X` are in `XProofs`, but those about the agent, the pool and
the links are in `ServicesProofs`, those about unix ids, logins, the drive's caches
and searches in `WorkspaceProofs`, those about folders and notes in `TreeProofs`; from nothing, those
about the staging area take some six minutes, those about the document and the trees four each, those
in `WorkspaceProofs` two and a half, the others a minute or less.

`PROJECT.json` lists the runs, which source lines each definition models (`map`),
for each property a plausible bug that violates it (`mutants`: operators whose
comment begins with `mutant:` in the modules), and the hazards of the code. A
property that is a conjunction of named parts has a mutant for every part.


## 1. Inventory

### Parts and how they interact

    browser, API client          network drive (Samba)         office editor
        |  tusd hook, REST            |  FUSE calls                 |  WOPI
        v                             v                             v
    backend (FastAPI) ----------- fuse_server ------------------ files on disk
      | |   documents, files, document_versions, jobs (PostgreSQL)   ^
      | +----------------------------+-------------------------------+
      |                              v
      |              queue-worker: claim_job, process_document_job
      +--> share server (Go, its own database)   +--> Redis (tokens, invalidations)
      +--> Samba container (lists, passwords)    +--> language model, mail, webhooks

Three programs write the same tables and the same directory: the backend, the FUSE
server and the worker process. They never call one another. What they share is the
rows, the files, and the `jobs` table, in which the first two leave work for the
third. No lock spans a row and a file, and no transaction spans a request and the
processing that follows it: that is where the hard behaviours come from. Around them the backend
talks to programs that fail on their own: the share server, the file server's
accounts, Redis, the language model, receivers of notices.

| Part | State | Operations | What makes it correct |
|---|---|---|---|
| **Job queue and worker** (`services/job_queue.py`, `worker.py`) | rows of `jobs`; the coroutines of each process; `_shutdown` | create, claim, progress, complete, fail, recover; start, SIGTERM, kill | a claim is exclusive; a job ends, once, with the result it has; retries are bounded; crashes lose no job |
| **Document pipeline and versions** (`routers/ingest.py`, `documents.py`, `wopi.py`, `services/versioning.py`, `document_processing.py`) | rows of `documents`, `files`, `document_versions`, `chunks`; live files and version copies on disk | upload (tus, API), new text, edit, editor save, restore, reindex, scan, parse, save text | an accepted text can always be had again; versions never change; the search finds the text of the file; processing ends |
| **FUSE write path** (`fuse_server.py`) | pending map, staging directory, open handles, sync queue | create, open, write, release, unlink, rename; the background sync | a saved text is found under its name, becomes a document, and is indexed; a document has its file |
| **Drive view** (`fuse_server.py`, `services/permissions.py`, `smb_notify.py`) | LRU of folder listings, cached facts of users, permission bits | load in a thread, put, invalidate; publish; decide | what is shown was true a short time ago; quiet, it is what the web shows; the three decisions agree |
| **Folder tree** (`routers/folders.py`, trash of `documents.py`) | `folders.parent_id`, `documents.folder_id`, `deleted_at` | create, move, delete; rename and rmdir on the drive; trash, restore, purge | all that is live hangs on the root and has its file; deletion reaches everything below |
| **Note tree** (`routers/notes.py`) | `documents.parent_note_id`, `note_order` | create, convert, move, reorder, remove, delete | every note is listed; walks end; orders are what was asked for; notes of others keep theirs |
| **Share links and share server** (`routers/share.py`, `share-server/`) | `share_links`; the server's links, files, keys, cookies | create, delete; show, verify, download, expire, clean up | an active link works, an inactive one does not; no file is left behind; links end |
| **Unix ids** (`routers/auth.py`, `db_init.py`) | `unix_uid`, `unix_gid`, their sequences | assign, raise at start-up | a number is never given twice |
| **Samba sync** (`samba/sync.sh`, `routers/users.py`) | accounts, passwords under way, connections | list, remove, add, claim a password | accounts are those of LAS, with its passwords; leavers are cut off |
| **Login, tokens, API keys** (`services/auth.py`, `deps.py`, `routers/auth.py`, `api_keys.py`) | tokens, blacklist in Redis, keys, users | log in, refresh, log out, close | who was shut out stays out |
| **Search** (`services/search.py`) | the reads of one request | read signals at once, fuse, read what is missing | nothing unseen, nothing missing, the better first |
| **Database connections** (`db.py`) | a pool | take, wait, give up, give back | searches end, connections come back |
| **AI agent and chat** (`services/ai_agent.py`, `llm.py`, `routers/chat.py`) | the conversation of one answer | ask, run tools, nudge, stream, cancel | a conversation the model takes; one answer; an end |
| **Mail and webhooks** (`services/mail.py`, `webhook.py`) | buckets, timers, tasks | gather, flush, send, retry | every receiver is told once |
| Parser, previews, OCR, antivirus | none of their own | read, generate | that they may raise is part of the pipeline |
| Audit, settings, tags, favorites, roles | single rows | record | not a question of ordering |
| Frontend (`uploadQueue.ts` and pages) | queue of uploads, three at a time | enqueue, process, abort | all uploads end, at most three together |

### What is hard here

`PROJECT.json` lists the hazards with the line where each one bites. In short:

* **Interleavings.** Two coroutines of one worker process, two processes, two
  requests for one document, a job and a request, FUSE calls between the steps of
  the sync thread, two moves in one tree.
* **Disk and rows part.** Files are unlinked and copied inside transactions that may
  roll back (`versioning.py:39`, `ingest.py:1030`), or moved before a row is
  inserted (`fuse_server.py:1275`).
* **Stale reads.** The worker parses a file and saves its text later; the sync looks
  for a document of the same name and acts on it later; `complete_job` writes a row
  without looking at its status.
* **Crashes.** A killed worker leaves `running` rows that only a later start
  recovers, and only when they are ten minutes old.
* **Retries.** `fail_job` bounds attempts, recovery does not; a webhook whose answer is
  late is sent again.
* **Two systems, one fact.** A link, an account or a revoked token is kept in two
  places that are written one after the other; the second write can fail.
* **Waiting in a circle.** Searches hold one connection and wait for more of the same
  pool.


## 2. Modules

### JobPromise, JobQueue, JobQueueProofs

`JobPromise` is what the queue promises to those who call `create_job`: a job is
waiting, taken by one worker, or ended; it goes back to waiting when its worker gives
it back or when no worker is left that holds it.

`JobQueue` is the code. A job is a row (`row[j]`: status, attempts, started_at,
whether progress is set); jobs are numbered in the order of `scheduled_at`. A worker
is a coroutine `worker_loop` (`worker[w]`: where it is, its job, the attempt and time
of its claim, and the row it has read); `ProcOf` groups workers into processes.
One action is one database statement or commit, or one await:

| Code | Actions |
|---|---|
| `create_job` | `CreateJob` |
| `claim_job`: SELECT ... FOR UPDATE SKIP LOCKED, then commit | `ClaimSelect`, `ClaimNothing`, `ClaimCommit`, `ClaimError` |
| `update_progress` | `UpdateProgress` |
| `complete_job`, `fail_job`: load, then commit | `CompleteRead`, `CompleteWrite`, `FailRead`, `FailWrite` |
| handler returns or raises; the two except clauses | `HandlerReturns`, `HandlerRaises`, `CompleteError`, `FailError` |
| `main`: start, recovery, SIGTERM, end | `Start`, `Recover`, `Signal`, `Exit`, `LoopEnds` |
| a kill; time | `Crash`, `Tick` |

A database call that raises may or may not have been committed; both are modelled.
`Flush` writes what SQLAlchemy writes, the attributes that differ from those loaded.
The clock is shared by processes and database. `overrun` is a history variable: the
jobs that recovery took while a worker still ran them.

`KeepsPromise` is the refinement `JobQueue => JobPromise`.

### DocPipeline, DocPipelineProofs

One document. `doc` is its row, `rows` the paths in its `files` rows, `disk` the
files, `version` and `copy` the version rows and the files kept for them, `req` the
requests in flight, `stage`, `holders`, `path`, `tries` the queue, which is
**`JobPromise` by INSTANCE**: the pipeline is built on what the queue promises and the
queue is shown to promise it. `run` is where each worker is in `process_document_job`.

A text is a revision number; each upload has a path of its own, named by its
revision. A request is one transaction. What it reads, unlinks or copies before it
locks the document row are steps of their own (`Begin`, `TakeNumber` or `SaveFirst`,
`UnlinkOld`, `WriteBack`); from the lock to the commit is one step (`CommitUpload`,
`CommitText`, `CommitEdit`), and a version number taken twice is refused after the
copy to disk (`Conflict`, `LoseFirst`). The tus hook goes on with `StartScan`,
`ScanClean`, `ScanInfected`. `FuseCreate`, `PutFile`, `Reindex` and `Restore` are one
step each. The job is `SetParsing`, `Parse` or `ParseRaises`, `SaveText`, `MarkDone`,
or `SkipVideo`; `Kill` and `Recover` are the death and recovery of its worker process.
`Unreadable` is the set of revisions that extraction raises for, be it a broken file
or an OCR server that does not answer.

### FuseStaging, FuseStagingProofs

The write path of the network drive, in one folder. `file` and `pending` are the
`PendingFile` objects and the pending map; `staging` and `stored` map names and
permanent paths to inodes and `data` inodes to texts, so that a handle goes on
writing to a file that was moved or unlinked, as on a real file system. `handle` is
`_open_files`, `queue` is `_sync_queue`, `round` the items the sync has picked up and
`step` where it is in `_commit_pending_sync`. That function runs in a thread:
`SkipMissing`, `SkipRemoved` or `Look`, then `Move` (or `MoveRaises`), then `Insert`
(or `NoOwner`), then `Forget` are steps, and every FUSE call may come in between. A
call itself is one step of the event loop. `saved` is a history variable: the last
text closed under a name. `rough` collects the names for which a call was made that
the sync is not built for: a second open of a file in staging, a rename to a name in
use or to a temporary name, a rename or removal of a file of the current round, a
writer whose account was deleted. `Smooth` are the other names.

### FolderTree

Folders and documents; a request is one transaction, its reads are steps, its writes show
at its commit, which fails if a foreign key or a unique name says so (`Exists`, `NameFree`,
`Refused`). Row locks of an UPDATE are held to the commit (`Locked`).

| Code | Actions |
|---|---|
| `create_folder`, `create_folders_bulk` | `CreateFolder`, `CreateCommit`, `BulkStart`, `BulkPart`, `BulkCommit` |
| `update_folder`, `_check_no_cycle` | `MoveStart`, `MoveWalk` (one query for each ancestor), `MoveCommit` |
| `delete_folder`: collect, UPDATE, DELETE | `DeleteStart`, `DeleteCollect`, `DeleteTrash`, `DeleteCommit` |
| `rename`, `rmdir` of the drive | `DriveRename`, `RmdirStart` |
| uploads, bulk moves, trash, restore, purge | `Upload`, `MoveDocs`, `TrashDocs`, `RestoreDocs`, `PurgeStart`, `PurgeUnlink`, `PurgeCommit`, `PurgeFails`, `DocsCommit` |

`blind` becomes true when a move is committed over ancestors that another request has
moved since they were read: neither the check nor the drive takes a lock, and the tree
can then be cut. `MovesKeepATree` and `NothingIsUnreachable` say that this is the only
way. `torn` are documents whose purge failed after it had unlinked the file.

### NoteTree

Three users with different rights, the notes they may read and change. `move_note` is
`MoveNote`, then `WalkUp` for each parent, `Siblings` (the list as this user sees it), `PlaceNote` and
`MoveNoteCommit`; `PlaceOrders` is `_place_orders`, checked in every reachable call
against its definition (`Wanted`): orders ascend, notes the user may not change keep
theirs, and it refuses only what is impossible. `CreateNote`, `Convert`, `EndNote` and their
commits, `RestoreNote` and `PurgeNote` are the other operations. `crossed` and `looped`
mark the two ways in which the code makes a circle: a move over a path that has
changed, and a conversion below a note that stayed linked.

### DriveView

One document and its rights, one user. `history` holds the states of the database; a
cached value is the number of the state it was read from, with its timestamp. A call of
the drive goes `FolderHit` or `FolderMiss`, `LoadChildren`, `PutListing`, `InfoHit` or
`InfoMiss`, `KeepInfo`, `Reply`; the web's request publishes and then commits
(`WebPublish`, `WebCommit`); `Invalidate` and `LoseMessage` are the listener. `CanAccess`,
`Visible` and `CanSeeEntry` are the three places that decide who may see a document.

### UnixIds

`Ensure`, `Give`, `GivenMeanwhile`, `CommitGiver`, `RollbackGiver` are `_ensure_unix_id` in a
request that numbers several rows, with the row locks of its UPDATEs. `TakeInitLock`, `CheckBehind`,
`LockTable`, `LockTimesOut`, `SetSequence`, `LetGo` are a start-up. `SetByHand` is a number an
administrator writes; `loose` are such numbers that the sequence has still to reach.

### Sessions

Time goes by half seconds, since a token ends at a whole second and so does an entry of the
blacklist. `SignIn`, `MintAccess`, `SignOut`, `Revoke`, `AnswerSignOut` are the routes;
`BeginWith`, `AskBlacklist`, `FindUser` are what every request does, an await each, and
`BeginWithKey` an API key. `RedisSilent` is a call that fails, `RedisCrash` a restart from an older
snapshot. `barred` and `shut` of a call say whether it began after its token was
revoked or its user closed.

### SearchRun

One search while documents change: `ReadMetadata` for each signal, `ReadFulltext` and `ReadVector` in any
order, `Fuse` with the score as the code computes it, in whole numbers (`Scale`), and the
second read of what only the metadata found (`FetchMissing`). A text is a set of words.

What the score promises about the order is less than one would think. A document that is better in one
signal and as good in the others may still come second: equals stand in any order, and a place lost there
can weigh more (a memo with more words, weight 2, against the same title one place later, weight 8).
`BetterComesFirst` says what holds: who is ahead in *every* signal that finds the other, and not older, comes
first (`AheadEverywhere`). One more case is excluded: a match by the vector alone keeps its whole weight,
while one with few of the words loses most of it (`search.py:576`).

### ShareLinks

Both sides of a link. Backend: `CreateLink`, `CallerGone`, `SaveLink`, `DeleteLink`,
`DeleteAnswered`, `DeleteCommit`, `DeleteLost`. Share server: `HandleInternalUpload` (file), `CreateShareLink` (row),
`RemoveFile`, `DeleteShareLink`, `HandleVerify`, `HandleDownload`, `ServeFile`, `CliDelete`, `ChangeKey`,
`ShareServerRestart`, and the clean-up loop `GetExpiredLinks`, `SweepFile`, `PurgeLink`. `Listed` compares
dates as the query does, by day. What the code gives up on is in history variables: `strayed` files,
`unconfirmed` deletions, `handled` links that were removed behind the backend's back.

### SmbAccounts, SmbAccountsProofs

LAS's users on one side, `/etc/passwd`, Samba's accounts and connections on the other.
`command` is the one `sync.sh` that holds the lock: `StartSync`, `Fetch` or `NoList`,
`Disconnect` (one name), `RemoveUser` and `EndRemove`, `AddUser`, `EndSync`; then or by itself a password,
`Claim`, `UsePassword`. `WriteFile` and `LoseFile` are `_sync_smb_password`; `ContainerRestart` ends
connections and commands and loses a claimed password. A user stands for his number, which `UnixIds` shows to be for life.

### AgentRun

`run_agent` with every reply a model can give: the intent, rounds, calls with odd
arguments, nudges for a reply without calls, the streamed answer, the fallback, and the reader
who leaves (`LeavePage`, `MonitorSees`, `Cancel`, `DropGenerator`) at any time. llm.py reads the
settings of the model before each request and catches nothing there. What a failed read means
depends on the caller: a search (`IntentUnread`), the end of the loop (`RoundUnread`), and for a
stream (`StreamUnread`) the end of the loop for the answer it forces, a cut connection for a plain
answer, and `done` without an answer for the fallback. `streamOf` says which of the three streams.

### Notices, NoticesProofs

Mail and webhooks share one model, `channel` tells them apart. `EnqueueBatch` sets the timer
anew, `FlushBatch` takes the bucket into a task, `SelectReceivers` and `SendOk`, `SendFails`, `SendAgain`
send; `SecondPasses` is time, `SwitchReceiver` and `SwitchProvider` an administrator, `BackendStops` a restart, which
drops what is under way. A batch has left its bucket before its receivers are read: where that read raises
(`SelectFails`) it is dropped as well, and where no mail provider is set, which is the default, it goes
to nobody (`Subscribed`).

### DbPool

`out` is what the pool counts: one more where a session makes its first statement (`StartSearch` for the
request, `TakeConnection` for the sessions of the search), one less where it is left (`GivenBack` in `CloseSession`,
`AnswerSearch`, `Raise`), be it by an exception. The request keeps its connection from the authentication to the end. Three
sessions wait for one at once, of which that of the vector has asked for nothing yet: the settings of the embedding
server are read by a session of their own, then the server is asked (`AskEmbedding`), then the query is made; the
fetch is a fifth. `GiveUp` is the pool's time-out, `Raise` what gather does with a failed read while the others go on.

### MC modules

`MCWorkspace` instantiates `FolderTree`, `NoteTree`, `DriveView`, `UnixIds`, `Sessions` and `SearchRun`,
`MCServices` the other five. The modules of one MC module share no variable and no property is
about two of them. A behaviour chooses a part in its first state and runs it; the others stay as they are.
The states of the parts therefore add up, and do not multiply, and each part is checked
exactly as if it were alone. Where components do interact, the one is built into the other: users
and numbers in `SmbAccounts`, permissions in `DriveView` and `SearchRun`, the queue's promise in `DocPipeline`.

`MCJobQueue`, `MCDocPipeline`, `MCFuseStaging` declare the model values and, for the
drive, the symmetry: two plain names and the two handles are interchangeable; the
temporary name and the numbers are not permuted, and no property there is temporal.


## 3. Runs

| Run | Instance | Shows |
|---|---|---|
| `queue_faults` | 2 processes of 1 worker, 2 jobs, 2 attempts, one kill, one SIGTERM, one failing call, clock to 3, stale after 1 | `TypeOK`, `ClaimsAreDistinct`, `OneRunAtATime`, `RunningHasARunner`, `RetriesAreBounded`, `EndIsFinal` |
| `queue_promise` | 1 process of 2 workers (docker-compose.yml), 2 jobs, one without a handler, one kill, one SIGTERM | `LoneProcessNeverOverruns`, `EveryJobEnds`, `StaleOrphanEnds`, `KeepsPromise` |
| `queue_restart` | the same | **violates** `RestartLosesNoJob` |
| `doc_serial` | 1 request, 1 worker; md and pdf; tus, new text, restore, reindex; 3 revisions, one unreadable | `TypeOK`, `NoAcceptedChangeIsLost`, `SettledContentIsLive`, `VersionsAreFrozen`, `ProcessingEnds` |
| `doc_shared` | 2 requests, 2 workers, kills; pdf and video; drive, API upload, edit, editor save, restore | `NoAcceptedChangeIsLost`, `FilesPresent` |
| `doc_concurrent_uploads` | 2 uploads at once | **violates** `NoAcceptedChangeIsLost` |
| `doc_restore_edit` | upload, edit, restore of a pdf | **violates** `RestoredTextStays` |
| `doc_late_job` | 2 workers, 1 request | **violates** `SettledContentIsLive` |
| `fuse_staging` | 3 names (one temporary), 2 handles, 2 files, 2 texts, all calls | `TypeOK`, `SmoothTextIsKept`, `LiveDocHasFile`, `SearchSeesLastText`, `NothingStaysStaged` |
| `fuse_reopen` | 1 name, opened twice | **violates** `SavedTextIsKept` |
| `workspace` | 3 folders, 2 documents, 2 requests at a time of 3; 3 notes, 3 users, 2 requests; 1 document on the drive, 1 lookup, 1 rename, 2 states of the database, 3 ticks; 2 rows, 2 requests, 2 start-ups; 3 tokens, 1 key; 2 documents, 2 words | the properties below |
| `services` | 2 links, 1 visitor, 4 ticks, 1 fault; 2 users, 2 names, 2 passwords; 1, 2 or 4 rounds, 2 calls a reply; 2 files, 2 receivers, 2 tasks; 2 searches, 2 connections | the properties below |

| Property | Parts | Exceptions, made by the code |
|---|---|---|
| `LiveIsFoundAndRead` | `MovesKeepATree`, `NothingIsUnreachable`, `LiveMeansOnDisk` | a move over ancestors that changed; a restore during a purge, or after one that failed |
| `DeleteTakesTheSubtree` | | documents other requests touched meanwhile |
| `NotesAreATree` | `EveryNoteIsListed`, `WalkDoesNotReturn` | a move over a path that changed; a conversion below a note that stayed linked |
| `PlacesAreRight` | | |
| `DriveShowsTheTruth` | `ShownWasTrueLately`, `QuietDriveShowsTheList`, `OwnChangeIsSeen` | the times of the two caches; a load under way during one's own rename |
| `NumbersAreRight`, `SequenceNeverFalls` | `NumbersAreForLife`, `AnswersAgree` | numbers written by hand, until a start-up |
| `ShutOutStaysOut` | `BlacklistOutlivesToken`, `RevokedIsRefused`, `ClosedIsShut` | a crash of Redis; a refresh asks for no user; reopening a user |
| `PageIsRight` | `ShownWasOpen`, `QuietSearchIsComplete`, `BetterComesFirst` | completeness and order without changes |
| `LinksAreAsShown` | `ActiveLinkWorks`, `InactiveLinkIsClosed`, `FilesHaveRows`, `PasswordWasGiven` | deletions not confirmed, broken copies, removals by hand |
| `AccountsAreThoseOfLas` | `AccountsFollowTheList`, `OneNamePerUser`, `SettledPasswordIsRight` | failed removals; a login that crosses a change; lost passwords; a password set while the last list has its name for a former user |
| `ConversationIsRight` | `CallsAreAnswered`, `DoneMeansTold`, `OneAnswer`, `LlmStopsOnCancel` | calls left open, or no answer where no tool had run, by a round that broke off; no answer where the fallback could not read its settings |
| `ReceiversAreTold`, `BatchWaitsForQuiet` | `EveryFileIsTold`, `TwiceOnlyWhenUnanswered` | a restart; a read of the receivers that failed; mail without a provider |
| `FewerNeverJam` | | |
| `WhatBeginsEnds` | `LinksEnd`, `LeaversAreCutOff`, `AgentEnds`, `NoticesEnd`, `SearchesEnd`, `ConnectionsComeBack` | |

`WorkspaceTypeOK` and `ServicesTypeOK` are the type invariants of the parts. An exception is a
history variable that the action of the code sets where it happens; without it the property
fails, and with it TLC shows that nothing else breaks it.

### Why these bounds

* *Queue.* Two jobs and two workers are the least for every race on a claim: both want
  the oldest, or one locks it and the other takes the next. Two attempts and one
  fault of each kind reach a retry, a recovery after a retry, and a job at its
  last attempt. The clock counts in units of the stale timeout; with three values a
  row is written before, at and past it. The proofs cover all values.
* *Document.* Three revisions are an initial text, a change, and one that races it or
  follows a restore; two attempts a retry and a final failure. `Room` stops a request
  before it starts when versions or jobs would run out, so that no bound cuts one in
  half. In `doc_shared`, `Exclusive` keeps API uploads from overlapping another request:
  two that do overlap are what `doc_concurrent_uploads` is about.
* *Drive.* Two texts tell a stale text from the last. Two files and two documents are
  the least for a duplicate name, a name used again, and a rename over something.
  `Room` counts open handles and queued items too: a call that would need a
  document past the bound does not start.

* *Trees.* Three folders or notes are a circle of two and one to hang below it, or one
  of three; two requests at a time race, a third meets what they left. A document in a
  folder, one below it, one in the trash and one to be uploaded are in the two initial
  trees.
* *Drive.* One document, one user: a listing is right or wrong for each by itself. Times
  of one tick and a clock of three put a change before, within and after the life of an
  entry.
* *Numbers, sessions.* Two rows, requests and start-ups are the least for a race;
  three tokens are a login and a refresh, in half seconds around their end. Changes of
  users and faults of Redis come in different behaviours, with keys both.
* *Links.* Two links tell a cookie of the one from the other; four ticks are two days,
  with links that end within the first or at its end.
* *Accounts.* Two users and names allow a rename to a name that was used, and a swap is two
  renames; one fault of the container meets every step.
* *Agent.* One round is the last at once, two are a nudge and the last, four leave room
  for calls, a nudge and more calls. *Pool.* As many searches as connections is the
  case in which all wait; one fewer is the one that never jams.
* *Notices.* Two files are a batch or a second event for a timer that runs; two failures are an unanswered
  attempt and another, or a failed read of the receivers and an unanswered attempt of the other batch.
* *Search.* Two documents of any title and memo, near and new or not, with a word of the query in the text or
  none, all with all, without a change; and four rows that differ in what closes a document, with changes.

Runs of `workspace` and `services` say `CHECK_DEADLOCK FALSE` as well, for their requests,
faults and clocks are bounded. Runs of `DocPipeline` and `FuseStaging` say `CHECK_DEADLOCK FALSE`: their operations
are bounded and there is an end. The queue never stops (`ClaimNothing` is the poll
that finds no row), so its runs check for deadlock.

### Fairness

* `JobQueue`: the event loop resumes every coroutine (claim, commit, handler's end,
  reads and writes of the outcome), docker restarts the container (`restart:
  unless-stopped`), time passes. A handler is assumed to end in one way or the other.
  Nothing makes a caller create a job, a kill or signal come, or a call fail.
  `StaleOrphanEnds` and `EveryJobEnds` need this.
* `DocPipeline`: a request that has begun goes on, a worker goes on. No fairness for
  users, kills or recovery; `ProcessingEnds` is checked without kills.
* `ShareLinks`: time passes and the clean-up loop of the share server goes on (`ticker` in
  `cleanup.go`); no fairness for visitors, requests or restarts, which are bounded.
* `SmbAccounts`: a `sync.sh` that has begun goes on, files are picked up, and the container's loop
  starts a sync again and again (`entrypoint.sh`); strong fairness, since the lock is
  free between the password commands but not for ever.
* `AgentRun`, `Notices`, `DbPool`: the event loop resumes its tasks, the model, receivers
  and the database answer or time out (all calls have a time-out); a read of settings ends, well or not. Nothing
  makes the reader stay or leave. Time in `Notices` passes when a timer runs.
* `FuseStaging` has no fairness: what must eventually happen there is said as an
  invariant of the states in which the sync has nothing left to do.

### Disagreements with the documentation

Each is a violated run, quoted in `PROJECT.json` under `findings`.

1. `queue_restart`: a restart of the worker is said to lose no job. Recovery looks for
   rows older than ten minutes and only at start, so the job a killed worker ran stays
   `running` until some later restart.
2. `doc_concurrent_uploads`: concurrent overwrites are said to lose nothing thanks to
   the versions. The upload that is refused for its version number has unlinked the
   file and overwritten the version's copy of the one that was accepted.
3. `doc_restore_edit`: any version is said to be restorable. The job that a restore
   creates parses the file again and replaces a restored text edit of a pdf.
4. `doc_late_job`: the indexed text is said to be that of the source file. With two
   workers the job of the older text may be the last to save.
5. `fuse_reopen`: writes are said to be compatible with any save pattern, and empty
   files to be skipped for those who write in a second pass. If the second pass
   opens before the sync comes and closes after it, its text is lost.


## 4. Proofs

TLC checks one instance of each module; the theorems hold for every value of the
constants that satisfies the named assumptions, and for every bound. Each proof has the
same form: an inductive invariant, which implies the property, holds at the start and is
kept by every step, one lemma for each of its parts.

| Module | Theorem | Says |
|---|---|---|
| `JobQueueProofs` | `TypeCorrect` | `Spec => []TypeOK` |
| | `ClaimsInvariant`, `DistinctClaims` | `Spec => []ClaimsInv`, `Spec => []ClaimsAreDistinct` |
| | `OneRun`, `EndFinal` | `Spec => []OneRunAtATime`, `Spec => EndIsFinal` |
| | `LoneProcess` | `Spec => []LoneProcessNeverOverruns` |
| | `RunningHasRunner` | `Spec => []RunningHasARunner` |
| | `RetriesBounded` | `Spec => []RetriesAreBounded` |
| | `QueueKeepsPromise` | `Spec => KeepsPromise`, with one process and no failing calls |
| `DocPipelineProofs` | `InvAlways`, `TypeCorrect` | `Spec => []DocInv`, `Spec => []TypeOK` |
| | `VersionRowsAreFrozen` | no step takes a version's row back or changes its text once it has one |
| | `VersionsStayFrozen` | `Spec => VersionsAreFrozen`, if `NothingOverlaps` |
| | `FilesStayPresent` | `Spec => []FilesPresent`, if `UploadsOverlapNothing` |
| | `NothingIsLost` | `Spec => []NoAcceptedChangeIsLost`, if `UploadsOverlapNothing` and `FirstChangeIsSafe` |
| | `SearchIsLive` | `Spec => []SettledContentIsLive`, if `OneByOne` |
| `FuseStagingProofs` | `InvariantHolds`, `TypeCorrect` | `Spec => []IInv`, `Spec => []TypeOK` |
| | `SavedTextStays` | `Spec => []SmoothTextIsKept` |
| | `LiveDocKeepsFile`, `StagingIsEmptied` | `Spec => []LiveDocHasFile`, `Spec => []NothingStaysStaged` |
| | `IndexIsLatest` | `Spec => []SearchSeesLastText` |
| `WorkspaceProofs` | `SequenceRises`, `NumbersRight` | `UnixSpec => SequenceNeverFalls`, `UnixSpec => []NumbersAreRight` |
| | `SessionInvariant`, `ShutOut` | `SessionSpec => []SessionInv`, `SessionSpec => []ShutOutStaysOut` |
| | `DriveInvariant`, `DriveShows` | `DriveSpec => []DriveInv`, `DriveSpec => []DriveShowsTheTruth` |
| | `SearchInvariant`, `PageRight` | `SearchSpec => []SearchInv`, `SearchSpec => []PageIsRight` |
| `ServicesProofs` | `ConversationRight` | `AgentSpec => []ConversationIsRight` |
| | `PoolInvariant`, `PoolTypes` | `PoolSpec => []PoolInv`, `PoolSpec => []PoolTypeOK` |
| | `NeverJam` | `PoolSpec => []FewerNeverJam` |
| | `LinksInvariant`, `LinksRight` | `ShareSpec => []LinksInv`, `ShareSpec => []LinksAreAsShown` |
| `NoticesProofs` | `NoticeInvariant`, `ReceiversTold` | `NoticeSpec => []NoticeInv`, `NoticeSpec => []ReceiversAreTold` |
| | `WaitsForQuiet` | `NoticeSpec => BatchWaitsForQuiet` |
| `SmbAccountsProofs` | `AccountsInvariant`, `AccountsRight` | `SmbSpec => []AccountsInv`, `SmbSpec => []AccountsAreThoseOfLas` |
| `TreeProofs` | `FolderInvariant`, `LiveIsFound` | `FolderSpec => []TreeInv`, `FolderSpec => []LiveIsFoundAndRead` |
| | `SubtreeIsTaken` | `FolderSpec => DeleteTakesTheSubtree` |
| | `NoteInvariant`, `NotesStayATree` | `NoteSpec => []NoteInv`, `NoteSpec => []NotesAreATree` |
| | `PlacesInvariant`, `PlacesRight` | `NoteSpec => []PlacesInv`, `NoteSpec => []PlacesAreRight` |

The other modules' types are proved too (`UnixTypes`, `SessionTypes`, `AgentTypes`,
`NoticeTypes`, `AccountTypesHold`, `ShareTypes`, `DriveTypesHold`, `FolderTypes`, `NoteTypesHold`,
`SearchTypesHold`), as parts of
`WorkspaceTypeOK` and `ServicesTypeOK`.

### Assumptions about constants

They stand in the module that declares the constants, and TLC evaluates them in its runs.

* *Queue:* `NumJobs` and `StaleAfter` are natural numbers, `MaxAttempts` a positive one
  (`max_attempts` is 3 by default), `ProcOf` maps workers to processes.
* *Document:* requests are finitely many, the bounds are natural numbers, `MaxAttempts` is
  positive, operations, types and unreadable texts are of the kinds the model knows.
* *Staging:* temporary names are names, 0 is no name, the bounds are natural numbers and the
  handles are finitely many.
* *Notices:* the delay and the attempts of a webhook are positive. *Pool:* finitely many searches, at
  least one connection. *Agent:* at least one round (see section 5) and at least one call in a
  reply that has any.
* *Sessions:* the margin of the blacklist is at least one second (the code adds a minute). With none the
  theorem would be false: an entry could end half a second before its token.
* *Accounts:* there is a name, and what stands for no user and no password is none.
* *Drive:* rows and users are of the kinds the model knows, the life times are natural numbers, and
  there is room for one state of the database.
* *Folders:* there is a name; what stands for the root, for no row yet, for no row any more and for a field that
  is not sent are four different things, and no folders.
* *Notes:* the top is no note, users read and change sets of notes, and read what they change; titles differ in
  their order, and the column `note_order` has as many numbers from 0 on as there are notes (it has 2^31): with fewer,
  a row in which the user may change every note could be refused, though negative numbers would do.
* *Search:* documents and words are finitely many, what stands for a signal not read is no document, the metadata
  signals are of the kinds the model knows, and `Scale` is a multiple of all divisors, so that scores are whole.
* *Links:* what stands for no link is none, a day has a positive length, life times and bounds are natural numbers.

### The queue

*Distinct claims.* Not inductive as it stands: two workers could hold one attempt if
a new claim could repeat an old number. `ClaimsInv` adds that a worker past the commit
of its claim holds an attempt between 1 and the attempts of the row (`HoldsWell`).
Since `ClaimCommit` adds one to the row and takes the sum, no holder has it yet; since
nothing ever lowers attempts, it stays so. Two holders of the same row lock are excluded
by SKIP LOCKED.

*One run at a time.* `RunInv` says that a locked row is pending, and of each job that
was never overrun that one worker holds it, that a row still to be claimed is held
by nobody, and that without failed calls the row says `running` as long as somebody
holds it. The last clause is what makes `fail_job` of a finished run impossible, and it
is exactly what a lost answer to `complete_job` breaks: therefore `errors = 0`.
It gives `EndFinal` as well.

*One process.* `CrewGone`: the workers of a process that is down or starting are not
there. Recovery happens while it is starting, so with one process nobody holds
anything when it happens.

*A running row has its runner.* `complete_job` and `fail_job` write what they have read; a row
that was taken by recovery and claimed again could be written by its first worker.
`SeenRunning` says that what is written over a row that is `running` in the attempt of
its worker was read when it was, so the write ends it.

*Retries.* `WellCounted`: the attempts of a job are less than its maximum and the faults together, or
equal to them when it has ended or somebody holds it. A kill or a failed call is what may
leave a row `running` for recovery, which does not look at attempts; each is one more. `SeenIsRow`
is needed because `fail_job` decides on the attempts that it read.

*Refinement.* With one process and no failing calls every step of `JobQueue` is one of
`JobPromise` or leaves its variables alone (`WorkerKeepsPromise`, one case for each action). It
needs `ClaimsInv`, `RunInv`, `CrewGone` and `SeenIsRow`: a write over a row that another worker holds, or a recovery
of a job that somebody runs, is no step of the promise. `DocPipeline` is built on this promise.

### The document

`DocInv` holds whatever requests, jobs and kills overlap. Its parts:

* *Numbers.* The versions that are there are numbered 1 to some k without a gap
  (`NumberInv`); a request that has a number has one of at most k + 1, or number 2 when it is
  saving the first version. So the commit of a version of that number either fails as
  taken or continues the row. Not inductive without the room (`Base(k)` and the requests
  that are still to commit fit below `MaxVer`), nor without `CreatorInv` and `FirstInv`: a
  document is created, and gets a first version, once.
* *Files kept.* A version that says it has a file has one (`KeptInv`).
* *Jobs.* A job that waits or whose worker died has an attempt left, or one of those kills granted
  (`TriesInv`).

*Files.* `FilesInv`: an upload runs alone, has its own file on disk and is about to delete just
what it has unlinked; a document has one row in `files`, which is on disk unless it
is infected or unlinked by a request that has not committed.

*Frozen versions.* The rows of versions never change, whatever overlaps. Their files do: a request whose
number is taken has copied over the accepted version's file before it is refused. Therefore
`NothingOverlaps` (`LoneInv`, `FreshInv`: the one request has a number nobody has).

*Nothing is lost.* `LossInv`: a text that was accepted is in the row of a version, or in a version's
file that no request may copy over; or the document has no version yet, its file holds the
text, and if a request has saved the first version, so does that one.

The hypotheses exclude what TLC shows to lose a file or a text:

* `UploadsOverlapNothing`: uploads are exclusive, or there is one request. Two overlapping uploads are
  the violation of `doc_concurrent_uploads`. Edits, editor saves, restores and jobs may overlap
  each other and anything else.
* `FirstChangeIsSafe`: where documents come through the drive, which have no version, none is
  replaced by `create_text` (it saves the new state as version 1), and an .md document
  is not edited by two at once (the edit that is refused has copied the new text over version
  1). TLC finds the loss with `Ops` the drive and `create_text`, and with the drive and two edits.

`doc_serial` has one request and no drive, `doc_shared` has exclusive uploads, a drive, and no .md
file: both satisfy the hypotheses of `NothingIsLost`.

*The index.* The jobs of a document are numbered from 1 in the order in which they are created, and the
one worker ends each before it begins the next: only the newest may wait or run while the others have
ended (`LineInv`). The newest job has the path of the document's file, unless an upload that has moved
the file is about to create that job (`NewestInv`). So with no job waiting and no upload under way the
worker has read the text of the file, or has saved it (`WorkInv`), and a document is said to be
done only by a worker that has (`StatusInv`). What `OneByOne` excludes breaks the property:

* two workers: `doc_late_job`;
* kills: the older job of a killed worker may be recovered after a restore has brought its path
  back while an upload was under way, and saves the older text last. TLC finds it with one kill;
* edits, which change the text the search has and not the file (`doc_restore_edit`), saves of the
  office editor while an upload is under way, and videos, of which no text is extracted.

### The staging area

`IInv` is the conjunction of `BaseInv`, about all names, and `SmoothInv`, about the names whose texts are
promised to be kept. TLC checks it on the instance of `fuse_staging`, too.

*Types and room.* A document's number is in range because a sync that is to create one has room
for it: documents made, items to do and open handles together fit the bound (`RoomInv`). The step of the sync that
inserts a document does so only for a path that has none (`StepInv`).

*One token.* A file of a smooth name that is not yet a document has one token: the handle that writes it,
then its item in the queue, then its item in the round of the sync (`TokenInv`, `HeldInv`). It is
moved from staging only by the current item, between the move and the end of that item (`WorkInv`), and
between the insert and the removal of the name from the pending files the document has taken over
(`DoneInv`, `ShownOnce`). There is one live document of a name, one path of a file on disk (`OnePath`,
`MovedInv`), and only the handles opened for it write it (`HandleOfFile`, `InodeOfHandle`, `HandleOfDoc`).

*Texts.* From these it follows that the last text saved under a smooth name is in its document,
or in its file while that has its token (`SavedInv`): `SmoothTextIsKept`. In an idle state there is no
token, hence `NothingStaysStaged`. `IndexInv` says that the last job of a document is newer than the last write, or that
the job will come: from an item of the queue, or from the release of a handle that has written.

*The round.* Which items are ready, and which one a round takes for each name, are recursive functions
over the queue. `PickedIs` and `PickedCount` say what they contain, without induction: if one were false for
some length there would be a smallest such length (`SmallestExists`).

### The others

*Unix ids.* No number from the sequence on has an owner, but for those set by hand (`AheadIsFree`),
and a number not given over one of those has one owner (`OneOwner`). A number that is
given and not committed belongs to one request (`GivenOnce`, from the row locks).
`SequenceRises` rests on the lock of a start-up, and on the largest number in use: that a
finite set of numbers has one is `LargestExists`.

*Sessions.* An entry of the blacklist outlasts the signature of its token (`CoverInv`), although the
former is set in whole seconds from the time of the logout and the latter ends at a
whole second: `TtlCovers` is the arithmetic. A call with a revoked token has not
asked the blacklist yet (`BarredInv`), one of a closed user has not been let in (`ShutInv`).

*Agent.* Rounds and requests fit the setting (`RoundsFit`, `AskedFits`); only while tools run are calls open
(`CallsFit`); an answer is noted when it is given, and the loop is left with an answer or broken off, so that
the fallback streams only after a loop that broke off, and nothing else ends in `done` without an answer
(`AnswersFit`); one request at most goes out after the cancellation, because it was on its way (`CancelFits`).

*Notices.* A file is in one bucket or one task (`PlaceInv`), so the only notices of it are those of that
task: none before a receiver's turn, at most one for each attempt in it, and a second only after
an unanswered one (`TurnInv`). A batch that a failed read ends is dropped as a whole, before any turn. The timer of a bucket runs as long as it has files, and what
is left of it and the quiet add up to the delay (`TimerInv`).

*Pool.* `PoolInv`: the count of the pool is the number of requests that run and of sessions at work, of whatever
request, and at most the pool's size. It is kept because each step that changes who holds a connection changes
the count by as much (`OneTaken`, `OneGivenBack`), also where a request raises while its sessions go on, and fails
when a session left by an exception keeps its connection, as the mutant of `GivenBack` does. With no session at work the
count is that of the running requests, so the pool is not full while these are fewer than its connections.

*Accounts.* The argument is about users who exist and to whom none of the exceptions happened. The
passwords on their way under the name of such a user are the user's own (`OwnInv`), and the last
to be written, claimed or set is the one LAS has (`LastIsRight`, `FinalInv`). What a running sync
has gone through is as its list says, but for names whose removal failed (`FollowInv`); a
password that waits for a sync meets a list that has its user under that name (`SyncedInv`). A user who kept an
account under an old name is noted (`BehindInv`), so a password that is dropped because the account is not
there leaves no older one in force (`PassInv`). TLC checks `AccountsInv` with five changes, 4.2 million
states. Its first form had no exception for a password that is set while the last list still has the name for its former
user, and TLC then found `SettledPasswordIsRight` false with six changes, one more than `services` has.

*Links.* `LinkFits` relates the two sides of a link and what is under way for it. Only what was answered
has a row or is removed (`MadeFirst`), the clean-up goes only by links that have ended, although it compares
days (`EndedFirst`, `DaysRise`), a file is gone or noted before its row is removed (`FileFirst`), and what
removes a link that was not removed by hand is a deletion of the backend that still waits for its answer
(`DeletedFirst`). Hence an answered link has row and file until it ends or is deleted (`OpenFits`), and a
deletion that is done has removed the row or is noted (`ClosedFits`). A step at one link leaves
all others in order (`OneLink`); a restart of the share server and the end of the document are steps at all.

*Drive.* A listing was current at its timestamp or later, because the timestamp is taken before the queries
(`ListingFits`, `ReadAt`); the facts about the user have theirs taken after, and are older by the length of a load
at most (`InfoFits`). What a call took from a cache or read was therefore current at most the life of the cache
before it began (`CallFits`), and a change of the database leaves all this so, since it gives the old state the
present time as its end (`CommitKeeps`). A listing older than the drive's last rename is gone with the rename,
unless a load was under way (`raced`), which may put it back.

*Folders.* `TreeInv`: the parent of a folder and the folder of a document are there (`FolderShape`), and a
document whose row is there has its file unless a purge has it or has failed (`FilesFit`). That moves keep a
tree is not inductive by itself: a move also has to remember what it has read. `WayFits` says that the folders it has
visited do not have the moved one among them, that each leads to a visited one, to where the walk is or to the root, and that a
walk which is done stands at the root, at a folder it has visited or at one that is gone. As long as nothing of that
way is outdated, the visited folders are a set that is closed upwards and does not have the moved one. A circle the move closes
comes by the new parent, which is in that set; its part in the set leads nowhere else, so there would have been a
circle before: that is the contradiction in `HungFolder`. Folders that `create_folders_bulk` makes hang on each other in the order of the path
and nothing hangs on them (`GrownTree`); a deletion makes no parent but the root (`ThinnedTree`).

*The subtree.* `InsideInv` is about the documents a deletion has seen inside and nobody has touched. The way from such
a document's folder up to the deleted one (`UpTo`, the smallest set that is closed under parent up to there) does not
change: a request that writes a document touches it, and one that moves or removes a folder below the deleted one touches
all that the deletion has seen inside, so no untouched document has had its way changed (`WayIsBelow`, `WayStays`).
While folders are collected, a folder of that way is in the list as soon as its parent has been read; so when nothing is left to
read, the document's folder is in the list, for otherwise the folders of the way that are not in it would go up to the deleted one.
Then its UPDATE finds the document, and holds it to the commit.

*Notes.* `NoteInv`: parents are there, and `WalkFits` says the same of a move's walk as for folders, up to the top. A note
that is hung where the walk has been makes no circle (`HungBelow`), one that is freed makes none (`FreedNotes`). With no circle,
any set of the notes a user sees has one that is shown below none of them, so the list shows them all. The proof
showed that `looped` was set by every conversion to the top, which excused too much: `Path` of the top is empty now,
as it is in the code.

*Places.* A request that reorders has read a row in which those it may not change, which keep their orders, ascend: the list is
sorted by order (`SortedIs`: a finite set has a last note, and so on down; the moved note is put in, but it is its user's), and
`PlacesInv` says so of every row a request holds. `PlacesFit` is about `_place_orders` alone. Between two fixed notes that are
neighbours the numbers count up from the lower one, so all ascend when there is room (`PlacedAscend`). If the code
refuses, either two such neighbours have less room than notes between them, or a number falls outside the column; in both cases
any choice of wanted orders would have to rise by one for each step from a fixed note to the next place
(`AscendByDistance`, by the nearest counterexample), which is more than there is. Without a fixed note the code counts from 0, hence
the assumption on the column.

*Search.* What a signal returned was open at that read (`RanksFit`), hence so is the page: the later reads, which ask
for no permission, only take away. As long as no document changes, each signal that is read has exactly the documents it
finds, more before less (`SignalFits`), a document's hits are the words of its best signal (`HitsFit`), and the second
read finds all that is missing (`QuietFits`). Who is ahead in every signal then gets more from each that has the other
(`RanksPay`: a better place gives strictly more, `PlacePays`), is weighed by no fewer hits (`RatioRises`) and gets no less for
its age, so its score is higher (`AheadScores`) and it comes first. The proof did not go through for the former
`BetterComesFirst`, which asked for more words in one signal and as many in the others: it was true only because
one of the two documents of the run never had the word in question, and TLC refuted it once it could.

### Only model-checked

* *Liveness:* `ProcessingEnds`, `EveryJobEnds`, `StaleOrphanEnds`, `WhatBeginsEnds`. Liveness under
  fairness and ENABLED are out of reach of the prover.
* *Violations* are behaviours that TLC shows.


## 5. Not modelled, and why

* *Documents and drive:* two documents of one title in the pipeline, a backend killed inside a
  request (`ingest.py:1030`, `1088`), a restart of the FUSE server, which empties staging
  (`fuse_server.py:506`); error texts, results, previews, summaries. An edit over a document without
  versions (`documents.py:425`) saves the new state as its first version, and the backfill
  (`document_processing.py:306`) may give two versions one text: the versions' texts are
  checked from the upload on, and never again changed, but not against the disk.
* *Trees:* permissions of folders and their application below; the drive's directories beyond
  rename and removal. `MetadataCache` is used by two threads without a lock
  (`fuse_server.py:193`): its operations are one step in `DriveView`.
* *Sessions:* scopes of keys, limits of the proxy. *Numbers:* the numbers of groups, which are given by
  the same function.
* *Search:* tokens, snippets, the cut at `max_candidates`, several chunks of one document; scores are
  exact instead of floating.
* *Agent:* what tools return, compaction, saved conversations; a setting of no search round
  (`ai_agent.py:401`).
* *Links:* an error of `DeleteShareLink` that `handler.go:184` ignores, after which the file is gone and the row,
  answered as removed, stays until it ends.
* *Notices:* that they are queued before the commit of the request they tell of
  (`documents.py:1197`) is not joined to the pipeline.
* *Whole parts:* see the list in `PROJECT.json`. Parsers, previews and the user interface compute or
  show and keep no state whose order matters; settings, tags, audit, roles are single-row operations.


## 6. Plan

1. **Crashes of the backend** in `DocPipeline`, a restart in `FuseStaging`.
