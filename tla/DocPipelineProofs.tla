-------------------------- MODULE DocPipelineProofs --------------------------
(***************************************************************************)
(* Proofs about DocPipeline, for every number of requests, workers, texts, *)
(* versions, jobs and attempts: types and version numbers, version rows    *)
(* that are never taken back, and, where requests do not overlap in the    *)
(* ways that the runs show to go wrong, files that stay present, versions  *)
(* whose files stay what they were, texts that are never lost, and, with   *)
(* one worker, an index that has the text of the file.                     *)
(***************************************************************************)
EXTENDS DocPipeline, FiniteSetTheorems, TLAPS

\* The operations that bring a new file
Uploads == {"tus", "ingest", "create_text"}

\* What a request and a worker can be
ReqRecord == [op : Operations \cup {"none"},
              pc : {"free", "number", "unlink", "write", "commit", "scan", "verdict"},
              rev : 0 .. MaxRev, num : 0 .. MaxVer, path : 0 .. MaxRev,
              rows : SUBSET Rev, first : BOOLEAN]
RunRecord == [pc : {"off", "begin", "parse", "save", "summarize"},
              job : 0 .. MaxJobs, text : Text]

TypeInv == TypeOK /\ req \in [Req -> ReqRecord] /\ run \in [Worker -> RunRecord]

\* What a request carries at each of its places: a text that was given out, an operation
\* that passes there, a number only after it has taken one.
Carries(c, upto, there) ==
    /\ c.pc = "free" => c = Free
    /\ c.pc # "free" => c.rev \in 1 .. upto /\ c.op \in Ops \cap (Uploads \cup {"edit"})
    /\ c.pc \in {"unlink", "scan", "verdict"} => c.op \in Uploads
    /\ c.pc \in {"scan", "verdict"} => c.op = "tus" /\ there
    /\ c.pc = "write" => c.op = "edit"
    /\ c.pc \in {"number", "scan", "verdict"} => ~c.first
    /\ c.pc = "number" => c.num = None
    /\ c.op = "create_text" =>
          c.pc \in {"unlink", "commit"} /\ ~c.first /\ c.num = None
    /\ c.op = "edit" => there /\ c.pc \in {"number", "write", "commit"}
CarriedInv == \A q \in Req : Carries(req[q], last, doc.there)

\* The requests that have not committed yet
Early == {q \in Req : req[q].pc \in {"number", "unlink", "write", "commit"}}

\* The version numbers that a request under way may need: a document without versions
\* gets two with its first change.
Base(k) == IF k = 0 THEN 1 ELSE k

\* The requests that hold a version number
HasNumber(q) == req[q].pc \in {"unlink", "write", "commit"} /\ req[q].op # "create_text"

\* Of k versions: the one that saves the first version is to make the second, any other
\* holds a number up to k + 1, so that no commit leaves a gap.
NumberFits(q, k) ==
    /\ req[q].num \in Ver
    /\ req[q].first => k = 0 /\ req[q].num = 2 /\ doc.there
    /\ ~req[q].first => req[q].num <= k + 1 /\ (k = 0 => ~doc.there)
WellNumbered(k) ==
    /\ Made = 1 .. k
    /\ \A q \in Req : HasNumber(q) => NumberFits(q, k)
    /\ Early # {} => Base(k) + Cardinality(Early) <= MaxVer
NumberInv == \E k \in 0 .. MaxVer : WellNumbered(k)

\* A document that is there has a path of its own, one that is not has nothing.
PlaceInv ==
    /\ rows \subseteq 1 .. last
    /\ doc.there => doc.path \in rows
    /\ ~doc.there => rows = {} /\ Made = {} /\ doc.path = None /\ accepted = {}

\* A version that says a file was kept has one.
KeptInv == \A n \in Ver : version[n].kept => copy[n] # None

\* While the document is not there, at most one request is on its way to create it.
Creates(q) == req[q].pc = "commit" \/ req[q].num # None
CreatorInv == ~doc.there => \A q, r \in Req : Creates(q) /\ Creates(r) => q = r

\* At most one request has saved the first version and not committed it.
FirstInv == \A q, r \in Req : req[q].first /\ req[r].first => q = r

\* Every job has a path; a worker holds a job that was created.
JobInv ==
    /\ \A j \in Job : stage[j] # "absent" => path[j] \in Rev
    /\ \A w \in Worker : run[w].pc # "off" =>
          run[w].job \in Job /\ stage[run[w].job] # "absent"

\* A job that waits, or whose worker was killed, has an attempt left: this bounds tries.
MayTryAgain(j) == tries[j] < MaxAttempts \/ tries[j] <= MaxKilled
TriesInv == \A j \in Job :
    /\ stage[j] = "absent" => tries[j] = 0
    /\ stage[j] = "waiting" => MayTryAgain(j)
    /\ stage[j] = "taken" /\ holders[j] = {} => MayTryAgain(j)

\* The inductive invariant
DocInv == /\ TypeInv /\ CarriedInv /\ NumberInv /\ PlaceInv /\ KeptInv /\ CreatorInv
          /\ FirstInv /\ JobInv /\ TriesInv

\* The versions are numbered without a gap: the highest number is their count.
LEMMA TopIs ==
  ASSUME NEW k \in Nat, Made = 1 .. k
  PROVE  MaxVersion = k
<1>1. CASE k = 0
  BY <1>1 DEF MaxVersion
<1>2. CASE k # 0
  <2>1. k \in Made /\ \A m \in Made : m <= k
    BY <1>2
  <2>2. \A n \in Made : (\A m \in Made : m <= n) => n = k
    BY <2>1
  <2> QED
    BY <2>1, <2>2 DEF MaxVersion
<1> QED
  BY <1>1, <1>2

\* Requests are counted only while there are finitely many.
LEMMA EarlyIsFinite ==
    ASSUME TypeInv
    PROVE  IsFiniteSet(Early) /\ Cardinality(Early) \in Nat
<1>1. Early \subseteq Req
  BY DEF Early
<1> QED  BY <1>1, FS_Subset, FS_CardinalityType, BoundsAssumption

\* The number that a request takes
NewNumber == IF Legacy THEN 2 ELSE MaxVersion + 1

\* A request that still has to take a number finds room for it.
LEMMA NewNumberFits ==
    ASSUME TypeInv, PlaceInv, NEW k \in 0 .. MaxVer, WellNumbered(k), NEW q \in Early
    PROVE  /\ MaxVersion = k
           /\ Legacy => k = 0
           /\ doc.there => (k = 0 <=> Legacy)
           /\ NewNumber \in Ver /\ 1 \in Ver /\ 2 \in Ver
<1>1. MaxVersion = k /\ Made = 1 .. k
  BY TopIs, BoundsAssumption DEF WellNumbered
<1>2. PICK c \in Nat : c = Cardinality(Early)
  BY EarlyIsFinite
<1>3. c # 0
  BY <1>2, EarlyIsFinite, FS_EmptySet
<1>4. Base(k) + 1 <= MaxVer
  <2>1. Base(k) \in Nat
    BY BoundsAssumption DEF Base
  <2> QED BY <1>2, <1>3, <2>1, BoundsAssumption DEF WellNumbered
<1>5. Made = {} <=> k = 0
  BY <1>1
<1> QED
  BY <1>1, <1>4, <1>5, BoundsAssumption DEF Legacy, NewNumber, Base, Ver, PlaceInv

\* The types hold at the start,
LEMMA TypesAtInit == Init => TypeInv
<1> SUFFICES ASSUME Init PROVE TypeInv
  OBVIOUS
<1> USE BoundsAssumption DEF Init
<1>1. TypeOK
  BY DEF TypeOK, Rev, Ver, Job, Text, None, NoVersion, Queue!Init
<1>2. req \in [Req -> ReqRecord]
  BY DEF ReqRecord, Free, Rev, None
<1>3. run \in [Worker -> RunRecord]
  BY DEF RunRecord, Off, Text, None
<1> QED BY <1>1, <1>2, <1>3 DEF TypeInv

\* and so does the rest of the invariant.
LEMMA InvAtInit == Init => DocInv
<1> SUFFICES ASSUME Init PROVE DocInv
  OBVIOUS
<1>1. TypeInv
  BY TypesAtInit
<1> USE BoundsAssumption DEF Init
<1>2. CarriedInv
  BY DEF CarriedInv, Carries, Free, None
<1>3. NumberInv
  <2>1. Made = 1 .. 0 /\ Early = {}
    BY DEF Made, NoVersion, Early, Free
  <2>2. \A q \in Req : ~HasNumber(q)
    BY DEF HasNumber, Free
  <2> QED BY <2>1, <2>2 DEF NumberInv, WellNumbered
<1>4. PlaceInv /\ KeptInv /\ CreatorInv /\ FirstInv
  BY DEF PlaceInv, KeptInv, CreatorInv, FirstInv, Creates, Made, NoVersion, Free, None
<1>5. JobInv /\ TriesInv
  BY DEF JobInv, TriesInv, MayTryAgain, Queue!Init, Off, Job
<1> QED BY <1>1, <1>2, <1>3, <1>4, <1>5 DEF DocInv

\* A step of one request leaves what the others carry alone.
LEMMA OneRequest ==
    ASSUME TypeInv, CarriedInv, NEW q \in Req, NEW c \in ReqRecord,
           req' = [req EXCEPT ![q] = c], last' \in last .. MaxRev, doc.there => doc'.there,
           Carries(c, last', doc'.there)
    PROVE  /\ req' \in [Req -> ReqRecord] /\ CarriedInv'
           /\ req'[q] = c /\ \A o \in Req \ {q} : req'[o] = req[o]
<1>1. req' \in [Req -> ReqRecord] /\ req'[q] = c /\ \A o \in Req \ {q} : req'[o] = req[o]
  BY DEF TypeInv
<1>2. last \in Nat /\ last <= last'
  BY BoundsAssumption DEF TypeInv, TypeOK
<1>3. ASSUME NEW o \in Req \ {q}
      PROVE  Carries(req[o], last', doc'.there)
  <2>1. Carries(req[o], last, doc.there)
    BY DEF CarriedInv
  <2>2. req[o].rev \in 1 .. last => req[o].rev \in 1 .. last'
    BY <1>2, BoundsAssumption
  <2> QED BY <2>1, <2>2 DEF Carries
<1> QED BY <1>1, <1>3 DEF CarriedInv

\* Request q becomes c, which carries what it has to.
Moved(q, c) == /\ c \in ReqRecord /\ req' = [req EXCEPT ![q] = c]
               /\ Carries(c, last', doc'.there)
               /\ last' \in last .. MaxRev /\ (doc.there => doc'.there)

\* What Begin writes
LEMMA BeginMoves ==
    ASSUME DocInv, NEW q \in Req, NEW op \in Uploads \cup {"edit"}, Begin(q, op),
           op = "edit" => doc.there
    PROVE  \E c \in ReqRecord :
             /\ Moved(q, c)
             /\ c.op = op /\ c.rev = last + 1 /\ c.num = None /\ ~c.first /\ c.rows = {}
             /\ c.pc = IF op = "create_text" THEN "unlink" ELSE "number"
<1> DEFINE here == IF op = "create_text" THEN "unlink" ELSE "number"
           c == [Free EXCEPT !.op = op, !.rev = last + 1, !.path = doc.path, !.pc = here]
<1>1. last \in Nat /\ last + 1 \in Rev /\ last' = last + 1 /\ doc' = doc /\ doc.path \in 0 .. MaxRev
  BY BoundsAssumption DEF Begin, DocInv, TypeInv, TypeOK, Rev
<1>2. here \in {"unlink", "number"} /\ op \in Operations /\ last + 1 \in 0 .. MaxRev
  BY <1>1, BoundsAssumption DEF Uploads, Operations, Rev
<1>3. c \in ReqRecord
  <2>1. Free \in ReqRecord
    BY BoundsAssumption DEF Free, ReqRecord, None, Rev
  <2> HIDE DEF here
  <2>2. \A f \in ReqRecord :
          [f EXCEPT !.op = op, !.rev = last + 1, !.path = doc.path, !.pc = here] \in ReqRecord
    BY <1>1, <1>2 DEF ReqRecord
  <2> QED BY <2>1, <2>2
<1>4. Carries(c, last', doc'.there)
  BY <1>1 DEF Carries, Begin, Free, Uploads, None
<1>5. req' = [req EXCEPT ![q] = c]
  BY DEF Begin
<1>6. last' \in last .. MaxRev
  BY <1>1, BoundsAssumption DEF Rev
<1>7. c.op = op /\ c.rev = last + 1 /\ c.num = None /\ ~c.first /\ c.rows = {} /\ c.pc = here
  BY DEF Free, None
<1> HIDE DEF c
<1> QED BY <1>1, <1>3, <1>4, <1>5, <1>6, <1>7 DEF Moved

\* What Answer writes
LEMMA AnswerMoves ==
    ASSUME DocInv, NEW q \in Req, Answer(q), last' = last, doc.there => doc'.there
    PROVE  Moved(q, Free)
<1>1. Free \in ReqRecord
  BY BoundsAssumption DEF Free, ReqRecord, None, Rev
<1>2. last \in 0 .. MaxRev
  BY DEF DocInv, TypeInv, TypeOK
<1>3. Carries(Free, last', doc'.there)
  BY DEF Carries, Free
<1>4. last' \in last .. MaxRev
  BY <1>2, BoundsAssumption
<1> QED BY <1>1, <1>3, <1>4 DEF Moved, Answer

\* What Numbered writes
LEMMA NumberedMoves ==
    ASSUME DocInv, NEW q \in Req, req[q].pc = "number", Numbered(q), last' = last, doc' = doc
    PROVE  \E c \in ReqRecord :
             /\ Moved(q, c) /\ c.op = req[q].op /\ c.rev = req[q].rev /\ c.num = NewNumber
             /\ c.first = Legacy /\ c.pc = IF req[q].op = "edit" THEN "write" ELSE "unlink"
             /\ c.path = doc.path /\ c.rows = req[q].rows
<1> DEFINE next == IF req[q].op = "edit" THEN "write" ELSE "unlink"
           c == [req[q] EXCEPT !.pc = next, !.num = NewNumber, !.path = doc.path, !.first = Legacy]
<1>1. req[q] \in ReqRecord /\ doc.path \in 0 .. MaxRev /\ Legacy \in BOOLEAN
  BY DEF DocInv, TypeInv, TypeOK, Legacy
<1>2. NewNumber \in 0 .. MaxVer
  <2>1. PICK k \in 0 .. MaxVer : WellNumbered(k)
    BY DEF DocInv, NumberInv
  <2>2. q \in Early
    BY DEF Early
  <2> QED BY <2>1, <2>2, NewNumberFits, BoundsAssumption DEF DocInv, Ver
<1>3. next \in {"write", "unlink"} /\ Numbered(q) = (req' = [req EXCEPT ![q] = c])
  BY <1>1 DEF Numbered, NewNumber, DocInv, TypeInv
<1>4. \A d \in ReqRecord : \A x \in {"write", "unlink"}, n \in 0 .. MaxVer,
                            p \in 0 .. MaxRev, f \in BOOLEAN :
        [d EXCEPT !.pc = x, !.num = n, !.path = p, !.first = f] \in ReqRecord
  BY DEF ReqRecord
<1>5. c \in ReqRecord
  <2> HIDE DEF next
  <2> QED BY <1>1, <1>2, <1>3, <1>4
<1>6. /\ c.op = req[q].op /\ c.rev = req[q].rev /\ c.num = NewNumber
      /\ c.first = Legacy /\ c.pc = next /\ c.path = doc.path /\ c.rows = req[q].rows
  BY <1>1 DEF ReqRecord
<1> HIDE DEF c
<1>7. Carries(c, last, doc.there)
  <2>1. Carries(req[q], last, doc.there)
    BY DEF DocInv, CarriedInv
  <2> QED BY <1>6, <2>1 DEF Carries, Uploads
<1>8. last' \in last .. MaxRev
  BY BoundsAssumption DEF DocInv, TypeInv, TypeOK
<1> QED BY <1>3, <1>5, <1>6, <1>7, <1>8 DEF Moved

\* A request goes on with the same operation, text and number.
LEMMA StepMoves ==
    ASSUME DocInv, NEW q \in Req, NEW c \in ReqRecord, req' = [req EXCEPT ![q] = c],
           c.op = req[q].op, c.rev = req[q].rev, c.num = req[q].num,
           \/ /\ c.pc = "commit" /\ req[q].pc \in {"unlink", "write"}
              /\ c.first = req[q].first
           \/ c.pc = "scan" /\ req[q].pc = "commit" /\ req[q].op = "tus" /\ c.first = FALSE
           \/ c.pc = "verdict" /\ req[q].pc = "scan" /\ c.first = req[q].first,
           last' = last, doc.there => doc'.there, c.pc = "scan" => doc'.there
    PROVE  Moved(q, c)
<1>1. Carries(c, last, doc'.there)
  <2>1. Carries(req[q], last, doc.there)
    BY DEF DocInv, CarriedInv
  <2> QED BY <2>1 DEF Carries, Uploads
<1>2. last' \in last .. MaxRev
  BY BoundsAssumption DEF DocInv, TypeInv, TypeOK
<1> QED BY <1>1, <1>2 DEF Moved

\* A request goes on with what it carries.
Same(c, q) == c.op = req[q].op /\ c.rev = req[q].rev /\ c.num = req[q].num /\ c.path = req[q].path

\* What UnlinkOld writes
LEMMA UnlinkMoves ==
    ASSUME DocInv, NEW q \in Req, UnlinkOld(q)
    PROVE  \E c : /\ Moved(q, c) /\ Same(c, q) /\ c.first = req[q].first
                  /\ c.pc = "commit" /\ c.rows = rows
<1> DEFINE c == [req[q] EXCEPT !.pc = "commit", !.rows = rows]
<1>1. req[q] \in ReqRecord /\ rows \in SUBSET Rev /\ req \in [Req -> ReqRecord]
  BY DEF DocInv, TypeInv, TypeOK
<1>2. /\ c \in ReqRecord /\ Same(c, q) /\ c.first = req[q].first
      /\ c.pc = "commit" /\ c.rows = rows
  BY <1>1 DEF ReqRecord, Same
<1>3. req' = [req EXCEPT ![q] = c] /\ req[q].pc = "unlink" /\ last' = last /\ doc' = doc
  BY <1>1 DEF UnlinkOld
<1> HIDE DEF c
<1>4. Moved(q, c)
  BY <1>2, <1>3, StepMoves DEF Same
<1> QED BY <1>2, <1>4

\* What WriteBack writes
LEMMA WriteMoves ==
    ASSUME DocInv, NEW q \in Req, WriteBack(q)
    PROVE  \E c : /\ Moved(q, c) /\ Same(c, q) /\ c.first = req[q].first
                  /\ c.pc = "commit" /\ c.rows = req[q].rows
<1> DEFINE c == [req[q] EXCEPT !.pc = "commit"]
<1>1. req[q] \in ReqRecord /\ req \in [Req -> ReqRecord]
  BY DEF DocInv, TypeInv, TypeOK
<1>2. /\ c \in ReqRecord /\ Same(c, q) /\ c.first = req[q].first
      /\ c.pc = "commit" /\ c.rows = req[q].rows
  BY <1>1 DEF ReqRecord, Same
<1>3. req' = [req EXCEPT ![q] = c] /\ req[q].pc = "write" /\ last' = last /\ doc' = doc
  BY <1>1 DEF WriteBack, At
<1> HIDE DEF c
<1>4. Moved(q, c)
  BY <1>2, <1>3, StepMoves DEF Same
<1> QED BY <1>2, <1>4

\* What StartScan writes
LEMMA ScanMoves ==
    ASSUME DocInv, NEW q \in Req, StartScan(q)
    PROVE  \E c : /\ Moved(q, c) /\ Same(c, q) /\ c.first = req[q].first
                  /\ c.pc = "verdict" /\ c.rows = req[q].rows
<1> DEFINE c == [req[q] EXCEPT !.pc = "verdict"]
<1>1. req[q] \in ReqRecord /\ req \in [Req -> ReqRecord]
  BY DEF DocInv, TypeInv, TypeOK
<1>2. /\ c \in ReqRecord /\ Same(c, q) /\ c.first = req[q].first
      /\ c.pc = "verdict" /\ c.rows = req[q].rows
  BY <1>1 DEF ReqRecord, Same
<1>3. req' = [req EXCEPT ![q] = c] /\ req[q].pc = "scan" /\ last' = last
  BY <1>1 DEF StartScan, At
<1>4. doc.there => doc'.there
  BY DEF StartScan, DocInv, TypeInv, TypeOK
<1> HIDE DEF c
<1>5. Moved(q, c)
  BY <1>2, <1>3, <1>4, StepMoves DEF Same
<1> QED BY <1>2, <1>5

\* tus_hook after the commit of the upload
LEMMA UploadMoves ==
    ASSUME DocInv, NEW q \in Req, CommitUpload(q), req[q].op = "tus"
    PROVE  \E c : Moved(q, c) /\ Same(c, q) /\ ~c.first /\ c.pc = "scan" /\ c.rows = req[q].rows
<1> DEFINE c == [req[q] EXCEPT !.pc = "scan", !.first = FALSE]
<1>1. req[q] \in ReqRecord /\ req \in [Req -> ReqRecord]
  BY DEF DocInv, TypeInv, TypeOK
<1>2. c \in ReqRecord /\ Same(c, q) /\ c.first = FALSE /\ c.pc = "scan" /\ c.rows = req[q].rows
  BY <1>1 DEF ReqRecord, Same
<1>3. req' = [req EXCEPT ![q] = c] /\ req[q].pc = "commit" /\ last' = last
  BY <1>1 DEF CommitUpload
<1>4. doc'.there
  BY DEF CommitUpload, Uploaded, DocInv, TypeInv, TypeOK
<1> HIDE DEF c
<1>5. Moved(q, c)
  BY <1>2, <1>3, <1>4, StepMoves DEF Same
<1> QED BY <1>2, <1>5

\* The types of the rows of documents and versions
DocRecord == [there : BOOLEAN, type : FileTypes, path : 0 .. MaxRev, content : Text,
              chunks : SUBSET Text, current : 0 .. MaxVer, restored : 0 .. MaxVer,
              scan : {"pending", "clean", "infected"},
              status : {"pending", "scanning", "queued", "parsing",
                        "summarizing", "done", "error"}]
VersionRecord == [made : BOOLEAN, content : Text, kept : BOOLEAN]

\* The row of a document whose file has just been uploaded
LEMMA UploadedIs ==
    ASSUME TypeInv, NEW r \in 0 .. MaxRev, NEW n \in 0 .. MaxVer
    PROVE  /\ Uploaded(r, n) \in DocRecord
           /\ Uploaded(r, n).there /\ Uploaded(r, n).path = r
           /\ Uploaded(r, n).type = doc.type /\ Uploaded(r, n).scan = doc.scan
<1>1. doc \in DocRecord /\ None \in Text /\ None \in 0 .. MaxVer
  BY BoundsAssumption DEF TypeInv, TypeOK, DocRecord, None, Text
<1>2. \A d \in DocRecord :
         LET e == [d EXCEPT !.there = TRUE, !.path = r, !.content = None,
                              !.status = "pending", !.current = n, !.restored = None]
         IN /\ e \in DocRecord /\ e.there /\ e.path = r /\ e.type = d.type /\ e.scan = d.scan
  BY <1>1 DEF DocRecord
<1> QED BY <1>1, <1>2 DEF Uploaded

\* A copy changes the file of one version at most.
LEMMA CopyFileIs ==
    ASSUME TypeInv, NEW n \in Ver, NEW p \in Rev
    PROVE  /\ CopyFile(n, p) \in [Ver -> Text]
           /\ CopyFile(n, p)[n] = IF disk[p] = None THEN copy[n] ELSE disk[p]
           /\ \A m \in Ver \ {n} : CopyFile(n, p)[m] = copy[m]
  BY DEF TypeInv, TypeOK, CopyFile

\* The row of a new version
LEMMA VersionIs ==
    ASSUME TypeInv, NEW p \in Rev, NEW t \in Text
    PROVE  /\ Version(t, p) \in VersionRecord
           /\ Version(t, p).made /\ Version(t, p).content = t
           /\ Version(t, p).kept <=> disk[p] # None
<1>1. (disk[p] # None) \in BOOLEAN
  OBVIOUS
<1> QED BY <1>1 DEF Version, VersionRecord

\* The rows after the commit of a change
LEMMA NewVersionsAre ==
    ASSUME TypeInv, NEW q \in Req, NEW new \in VersionRecord
    PROVE  /\ NewVersions(q, new) \in [Ver -> VersionRecord]
           /\ \A m \in Ver : m = req[q].num => NewVersions(q, new)[m] = new
           /\ \A m \in Ver : m # req[q].num =>
                 /\ NewVersions(q, new)[m].content = version[m].content
                 /\ NewVersions(q, new)[m].kept = version[m].kept
                 /\ NewVersions(q, new)[m].made <=> version[m].made \/ (m = 1 /\ req[q].first)
<1>1. /\ version \in [Ver -> VersionRecord] /\ req[q].first \in BOOLEAN
      /\ \A m \in Ver : (m = 1 /\ req[q].first) \in BOOLEAN
  BY DEF TypeInv, TypeOK, VersionRecord, ReqRecord
<1>2. \A v \in VersionRecord, b \in BOOLEAN :
         LET w == [v EXCEPT !.made = @ \/ b]
         IN  w \in VersionRecord /\ (w.made <=> v.made \/ b) /\ w.content = v.content /\ w.kept = v.kept
  <2> TAKE v \in VersionRecord, b \in BOOLEAN
  <2>1. v.made \in BOOLEAN
    BY DEF VersionRecord
  <2>2. \A x \in BOOLEAN : LET w == [v EXCEPT !.made = x]
         IN  w \in VersionRecord /\ w.made = x /\ w.content = v.content /\ w.kept = v.kept
    BY DEF VersionRecord
  <2>3. (v.made \/ b) \in BOOLEAN
    BY <2>1
  <2> QED BY <2>2, <2>3
<1>3. \A m \in Ver : m # req[q].num =>
         NewVersions(q, new)[m] = [version[m] EXCEPT !.made = @ \/ (m = 1 /\ req[q].first)]
  BY DEF NewVersions
<1>4. \A m \in Ver : m = req[q].num => NewVersions(q, new)[m] = new
  BY DEF NewVersions
<1>5. ASSUME NEW m \in Ver, m # req[q].num
      PROVE  /\ NewVersions(q, new)[m] \in VersionRecord
             /\ NewVersions(q, new)[m].content = version[m].content
             /\ NewVersions(q, new)[m].kept = version[m].kept
             /\ NewVersions(q, new)[m].made <=> version[m].made \/ (m = 1 /\ req[q].first)
  <2> DEFINE b == m = 1 /\ req[q].first
             w == [version[m] EXCEPT !.made = @ \/ b]
  <2>1. version[m] \in VersionRecord /\ b \in BOOLEAN
    BY <1>1
  <2>2. NewVersions(q, new)[m] = w
    BY <1>3, <1>5
  <2> HIDE DEF b
  <2>3. /\ w \in VersionRecord /\ (w.made <=> version[m].made \/ b)
        /\ w.content = version[m].content /\ w.kept = version[m].kept
    BY <1>2, <2>1
  <2> HIDE DEF w
  <2> QED BY <2>2, <2>3 DEF b
<1>6. NewVersions(q, new) \in [Ver -> VersionRecord]
  <2>1. DOMAIN NewVersions(q, new) = Ver /\ NewVersions(q, new) = [m \in Ver |-> NewVersions(q, new)[m]]
    BY DEF NewVersions
  <2> QED BY <1>4, <1>5, <2>1
<1> QED BY <1>4, <1>5, <1>6

\* The queue and the workers
QueueType ==
    /\ stage \in [Job -> {"absent", "waiting", "taken", "ended"}]
    /\ holders \in [Job -> SUBSET Worker]
    /\ path \in [Job -> 0 .. MaxRev] /\ tries \in [Job -> 0 .. MaxAttempts + MaxKilled]
QueueInv == QueueType /\ run \in [Worker -> RunRecord] /\ JobInv /\ TriesInv

\* A created job has its path and no attempt.
LEMMA CreateJobKeeps ==
    ASSUME DocInv, NEW p \in Rev, CreateJob(p), run' = run
    PROVE  QueueInv'
<1>1. PICK j \in Job : /\ Queue!Submit(j) /\ path' = [path EXCEPT ![j] = p] /\ tries' = tries
  BY DEF CreateJob
<1>2. QueueType' /\ run' \in [Worker -> RunRecord]
  BY <1>1, BoundsAssumption DEF DocInv, TypeInv, TypeOK, QueueType, Queue!Submit, Rev
<1>3. JobInv'
  BY <1>1 DEF DocInv, TypeInv, TypeOK, JobInv, Queue!Submit
<1>4. TriesInv'
  BY <1>1, BoundsAssumption DEF DocInv, TypeInv, TypeOK, TriesInv, MayTryAgain, Queue!Submit
<1> QED BY <1>2, <1>3, <1>4 DEF QueueInv

\* A step that leaves the queue alone leaves its invariant alone.
LEMMA QueueStays ==
    ASSUME DocInv, UNCHANGED <<queue, run>>
    PROVE  QueueInv'
  BY DEF DocInv, TypeInv, TypeOK, QueueInv, QueueType, JobInv, TriesInv, MayTryAgain, queue

\* Requests and workers
LEMMA RequestQueue ==
    ASSUME DocInv, NEW q \in Req, RequestStep(q)
    PROVE  QueueInv'
<1>1. ASSUME NEW p \in Rev, CreateJob(p), run' = run PROVE QueueInv'
  BY <1>1, CreateJobKeeps
<1>2. req[q].pc # "free" => req[q].rev \in Rev
  BY BoundsAssumption DEF DocInv, CarriedInv, Carries, TypeInv, TypeOK, Rev
<1>3. CASE CommitUpload(q) \/ ScanClean(q) \/ CommitText(q)
  <2>1. req[q].rev \in Rev
    BY <1>2, <1>3 DEF CommitUpload, ScanClean, CommitText, At
  <2> QED BY <1>1, <1>3, <2>1, QueueStays DEF CommitUpload, ScanClean, CommitText
<1>4. CASE UNCHANGED <<queue, run>>
  BY <1>4, QueueStays
<1> QED BY <1>3, <1>4 DEF RequestStep, Begin, TakeNumber, SaveFirst, LoseFirst, UnlinkOld, Conflict,
      StartScan, ScanInfected, WriteBack, CommitEdit

\* The queue under the operations that are one step
LEMMA UserQueue ==
    ASSUME DocInv, FuseCreate \/ PutFile \/ Reindex \/ \E n \in Ver : Restore(n)
    PROVE  QueueInv'
<1>2. last + 1 \in Rev <=> last < MaxRev
  BY BoundsAssumption DEF DocInv, TypeInv, TypeOK, Rev
<1>3. rows \subseteq Rev /\ (doc.there => doc.path \in Rev)
  BY DEF DocInv, PlaceInv, TypeInv, TypeOK
<1>4. CASE FuseCreate
  BY <1>2, <1>4, CreateJobKeeps DEF FuseCreate
<1>5. CASE PutFile
  BY <1>5, QueueStays DEF PutFile
<1>6. CASE Reindex
  BY <1>3, <1>6, CreateJobKeeps DEF Reindex
<1>7. CASE \E n \in Ver : Restore(n)
  BY <1>3, <1>7, CreateJobKeeps DEF Restore
<1> QED BY <1>4, <1>5, <1>6, <1>7

\* The queue under the workers
LEMMA WorkerQueue ==
    ASSUME DocInv, NEW w \in Worker, WorkerStep(w)
    PROVE  QueueInv'
<1> USE BoundsAssumption
<1>1. QueueInv
  BY DEF DocInv, TypeInv, TypeOK, QueueInv, QueueType
<1>2. ASSUME NEW j \in Job, Take(w, j)
      PROVE  QueueInv'
  <2>1. /\ stage[j] = "waiting" /\ stage' = [stage EXCEPT ![j] = "taken"]
        /\ holders' = [holders EXCEPT ![j] = {w}] /\ tries' = [tries EXCEPT ![j] = @ + 1]
        /\ path' = path /\ run' = [run EXCEPT ![w] = [pc |-> "begin", job |-> j, text |-> None]]
    BY <1>2 DEF Take, Queue!Take
  <2>2. tries[j] \in Nat /\ tries[j] + 1 \in 0 .. MaxAttempts + MaxKilled
    BY <1>1, <2>1 DEF QueueInv, QueueType, TriesInv, MayTryAgain
  <2>3. QueueType'
    BY <1>1, <2>1, <2>2 DEF QueueInv, QueueType
  <2>4. run' \in [Worker -> RunRecord]
    BY <1>1, <2>1 DEF QueueInv, RunRecord, Job, Text, None
  <2>5. JobInv'
    BY <1>1, <2>1, <2>4 DEF QueueInv, QueueType, JobInv
  <2>6. TriesInv'
    BY <1>1, <2>1, <2>2, <2>3 DEF QueueInv, QueueType, TriesInv, MayTryAgain
  <2> QED BY <2>3, <2>4, <2>5, <2>6 DEF QueueInv
<1>3. ASSUME NEW c \in RunRecord, c.job = run[w].job, run[w].pc # "off",
             run' = [run EXCEPT ![w] = c], UNCHANGED queue
      PROVE  QueueInv'
  <2>1. run' \in [Worker -> RunRecord]
    BY <1>1, <1>3 DEF QueueInv
  <2>2. JobInv'
    BY <1>1, <1>3, <2>1 DEF QueueInv, QueueType, JobInv, queue
  <2>3. QueueType' /\ TriesInv'
    BY <1>1, <1>3 DEF QueueInv, QueueType, TriesInv, MayTryAgain, queue
  <2> QED BY <2>1, <2>2, <2>3 DEF QueueInv
<1>4. ASSUME NEW x \in {"parse", "summarize"}, run[w].pc # "off", Goto(w, x), UNCHANGED queue
      PROVE  QueueInv'
  <2> DEFINE c == [run[w] EXCEPT !.pc = x]
  <2>1. run[w] \in RunRecord /\ run \in [Worker -> RunRecord]
    BY <1>1 DEF QueueInv
  <2>2. c \in RunRecord /\ c.job = run[w].job
    BY <2>1 DEF RunRecord
  <2>3. run' = [run EXCEPT ![w] = c]
    BY <1>4, <2>1 DEF Goto
  <2> HIDE DEF c
  <2> QED BY <1>3, <1>4, <2>2, <2>3
<1>5. CASE SetParsing(w) \/ SaveText(w)
  BY <1>4, <1>5 DEF SetParsing, SaveText, Step
<1>6. CASE Parse(w)
  <2> DEFINE text == disk[path[run[w].job]]
             c == [run[w] EXCEPT !.pc = "save", !.text = text]
  <2>1. /\ run[w].pc = "parse" /\ UNCHANGED queue
        /\ run' = [run EXCEPT ![w].pc = "save", ![w].text = text]
    BY <1>6 DEF Parse, Step
  <2>2. text \in Text
    <3>1. path[run[w].job] \in Rev
      BY <1>1, <2>1 DEF QueueInv, JobInv
    <3> QED BY <3>1 DEF DocInv, TypeInv, TypeOK
  <2>3. run[w] \in RunRecord /\ run \in [Worker -> RunRecord]
    BY <1>1 DEF QueueInv
  <2>4. run' = [run EXCEPT ![w] = c]
    BY <2>1, <2>3
  <2>5. c \in RunRecord /\ c.job = run[w].job
    <3> HIDE DEF text
    <3>1. \A d \in RunRecord : LET e == [d EXCEPT !.pc = "save", !.text = text]
                               IN  e \in RunRecord /\ e.job = d.job
      BY <2>2 DEF RunRecord
    <3> QED BY <2>3, <3>1
  <2> HIDE DEF c
  <2> QED BY <1>3, <2>1, <2>4, <2>5
<1>7. ASSUME NEW to \in {"waiting", "ended"}, run[w].pc # "off", Finish(w, to),
             to = "waiting" => tries[run[w].job] < MaxAttempts
      PROVE  QueueInv'
  <2>1. PICK j \in Job : j = run[w].job
    BY <1>1, <1>7 DEF QueueInv, JobInv
  <2>2. /\ stage[j] = "taken" /\ holders' = [holders EXCEPT ![j] = {}]
        /\ stage' = [stage EXCEPT ![j] = to] /\ run' = [run EXCEPT ![w] = Off]
        /\ path' = path /\ tries' = tries
    BY <1>1, <1>7, <2>1 DEF Finish, Queue!Release, QueueInv, QueueType
  <2>3. run' \in [Worker -> RunRecord]
    BY <1>1, <2>2 DEF QueueInv, RunRecord, Off, None, Text
  <2>4. QueueType'
    BY <1>1, <2>2 DEF QueueInv, QueueType
  <2>5. JobInv'
    BY <1>1, <2>2, <2>3, <2>4 DEF QueueInv, QueueType, JobInv, Off
  <2>6. TriesInv'
    BY <1>1, <1>7, <2>1, <2>2 DEF QueueInv, QueueType, TriesInv, MayTryAgain
  <2> QED BY <2>3, <2>4, <2>5, <2>6 DEF QueueInv
<1>8. CASE ParseRaises(w)
  BY <1>7, <1>8 DEF ParseRaises, Again, Step
<1>9. CASE SkipVideo(w) \/ MarkDone(w)
  BY <1>7, <1>9 DEF SkipVideo, MarkDone, Step
<1> QED BY <1>2, <1>5, <1>6, <1>8, <1>9 DEF WorkerStep

\* The queue under kills and recoveries
LEMMA CrashQueue ==
    ASSUME DocInv, Kill \/ Recover
    PROVE  QueueInv'
<1> USE BoundsAssumption
<1>1. QueueInv
  BY DEF DocInv, TypeInv, TypeOK, QueueInv, QueueType
<1>2. CASE Kill
  <2>1. /\ holders' = [j \in Job |-> holders[j] \ Worker] /\ stage' = stage
        /\ run' = [w \in Worker |-> Off] /\ path' = path /\ tries' = tries
        /\ \A j \in Job : holders[j] # {} => tries[j] <= MaxKilled
    BY <1>2 DEF Kill, Queue!Lose
  <2>2. QueueType'
    BY <1>1, <2>1 DEF QueueInv, QueueType
  <2>3. run' \in [Worker -> RunRecord] /\ JobInv'
    BY <1>1, <2>1 DEF QueueInv, RunRecord, Off, None, Text, JobInv
  <2>4. TriesInv'
    BY <1>1, <2>1 DEF QueueInv, QueueType, TriesInv, MayTryAgain
  <2> QED BY <2>2, <2>3, <2>4 DEF QueueInv
<1>3. CASE Recover
  <2> DEFINE lost == {j \in Job : stage[j] = "taken" /\ holders[j] = {}}
  <2>1. /\ stage' = [j \in Job |-> IF j \in lost THEN "waiting" ELSE stage[j]]
        /\ UNCHANGED <<holders, run, path, tries>>
    BY <1>3 DEF Recover, Queue!Reclaim
  <2>2. QueueType'
    BY <1>1, <2>1 DEF QueueInv, QueueType
  <2>3. run' \in [Worker -> RunRecord] /\ JobInv'
    BY <1>1, <2>1 DEF QueueInv, QueueType, JobInv
  <2>4. TriesInv'
    BY <1>1, <2>1 DEF QueueInv, QueueType, TriesInv, MayTryAgain
  <2> QED BY <2>2, <2>3, <2>4 DEF QueueInv
<1> QED BY <1>2, <1>3

\* The texts: rows, files and versions
TextType ==
    /\ doc \in DocRecord
    /\ rows \in SUBSET Rev /\ disk \in [Rev -> Text] /\ copy \in [Ver -> Text]
    /\ version \in [Ver -> VersionRecord]
    /\ accepted \in SUBSET Rev /\ last \in 0 .. MaxRev

\* A step that changes no text leaves their types alone.
LEMMA TextsStay ==
    ASSUME DocInv, UNCHANGED <<doc, rows, disk, version, copy, last, accepted>>
    PROVE  TextType'
  BY DEF DocInv, TypeInv, TypeOK, TextType, DocRecord, VersionRecord

\* What a request at its commit carries
LEMMA AtCommit ==
    ASSUME DocInv, NEW q \in Req, req[q].pc # "free"
    PROVE  /\ req[q].rev \in Rev /\ req[q].rev \in Text /\ req[q].rev # None
           /\ RowsOf(q) \subseteq Rev /\ req[q].rev \in RowsOf(q)
           /\ HasNumber(q) => req[q].num \in Ver /\ req[q].num \in 0 .. MaxVer
           /\ req[q].pc = "commit" /\ req[q].op # "create_text" => HasNumber(q)
<1> USE BoundsAssumption
<1>1. req[q].rev \in 1 .. last /\ last \in 0 .. MaxRev
  BY DEF DocInv, CarriedInv, Carries, TypeInv, TypeOK
<1>2. req[q].rev \in Rev /\ req[q].rev \in Text /\ req[q].rev # None
  BY <1>1 DEF Rev, Text, None
<1>3. HasNumber(q) => req[q].num \in Ver
  BY DEF DocInv, NumberInv, WellNumbered, NumberFits
<1>4. Ver \subseteq 0 .. MaxVer
  BY DEF Ver
<1>5. rows \subseteq Rev
  BY DEF DocInv, TypeInv, TypeOK
<1> QED BY <1>2, <1>3, <1>4, <1>5 DEF RowsOf, HasNumber

\* The types of the texts under requests
LEMMA RequestTexts ==
    ASSUME DocInv, NEW q \in Req, RequestStep(q)
    PROVE  TextType'
<1> USE BoundsAssumption
<1>1. TextType /\ None \in Text /\ Warning \in Text /\ TypeInv
  BY DEF DocInv, TypeInv, TypeOK, TextType, DocRecord, VersionRecord, Text, None, Warning
<1>2. req[q] \in ReqRecord
  BY DEF DocInv, TypeInv
<1>3. ASSUME NEW op \in Uploads \cup {"edit"}, Begin(q, op)
      PROVE  TextType'
  <2>1. last + 1 \in Rev /\ last' = last + 1 /\ last + 1 \in Text /\ last + 1 \in 0 .. MaxRev
    BY <1>1, <1>3 DEF Begin, TextType, Rev, Text
  <2>2. disk' \in [Rev -> Text]
    BY <1>1, <1>3, <2>1 DEF Begin, TextType
  <2> QED BY <1>1, <1>3, <2>1, <2>2 DEF Begin, TextType
<1>4. CASE TakeNumber(q) \/ StartScan(q)
  <2>1. TakeNumber(q) => TextType'
    BY TextsStay DEF TakeNumber
  <2>2. StartScan(q) => TextType'
    BY <1>1 DEF StartScan, TextType, DocRecord
  <2> QED BY <1>4, <2>1, <2>2
<1>5. CASE SaveFirst(q) \/ LoseFirst(q)
  <2>1. 1 \in Ver
    BY NewNumberFits, <1>5 DEF SaveFirst, LoseFirst, DocInv, NumberInv, Early
  <2>2. rows \subseteq Rev
    BY <1>1 DEF TextType
  <2>3. copy' \in [Ver -> Text]
    BY <1>1, <1>5, <2>1, <2>2, CopyFileIs DEF SaveFirst, LoseFirst
  <2>4. version' \in [Ver -> VersionRecord]
    <3>1. ASSUME NEW p \in rows,
                 version' = [version EXCEPT ![1] = [Version(doc.content, p) EXCEPT !.made = FALSE]]
          PROVE  version' \in [Ver -> VersionRecord]
      <4>1. doc.content \in Text
        BY <1>1 DEF TextType, DocRecord
      <4>2. Version(doc.content, p) \in VersionRecord
        BY <1>1, <2>2, <4>1, VersionIs
      <4>3. [Version(doc.content, p) EXCEPT !.made = FALSE] \in VersionRecord
        BY <4>2 DEF VersionRecord
      <4> QED BY <1>1, <2>1, <3>1, <4>3 DEF TextType
    <3>2. version' = version => version' \in [Ver -> VersionRecord]
      BY <1>1 DEF TextType
    <3> QED BY <1>5, <3>1, <3>2 DEF SaveFirst, LoseFirst
  <2> QED BY <1>1, <1>5, <2>3, <2>4 DEF SaveFirst, LoseFirst, TextType
<1>6. CASE UnlinkOld(q)
  BY <1>1, <1>6 DEF UnlinkOld, TextType
<1>7. CASE Conflict(q)
  <2>1. req[q].num \in Ver /\ RowsOf(q) \subseteq Rev /\ rows \subseteq Rev
    BY <1>1, <1>7, AtCommit DEF Conflict, TextType
  <2>2. copy' \in [Ver -> Text]
    BY <1>1, <1>7, <2>1, CopyFileIs DEF Conflict
  <2> QED BY <1>1, <1>7, <2>2 DEF Conflict, TextType
<1>8. CASE CommitUpload(q)
  <2>1. /\ req[q].num \in Ver /\ req[q].num \in 0 .. MaxVer /\ RowsOf(q) \subseteq Rev
        /\ req[q].rev \in Rev /\ req[q].rev \in 0 .. MaxRev
    BY <1>8, AtCommit DEF CommitUpload, Rev
  <2>2. doc' \in DocRecord
    BY <1>1, <1>8, <2>1, UploadedIs DEF CommitUpload
  <2>3. PICK p \in RowsOf(q) :
           version' = NewVersions(q, Version(None, p)) /\ copy' = CopyFile(req[q].num, p)
    BY <1>8 DEF CommitUpload
  <2>4. version' \in [Ver -> VersionRecord] /\ copy' \in [Ver -> Text]
    BY <1>1, <2>1, <2>3, CopyFileIs, VersionIs, NewVersionsAre
  <2>5. accepted' \in SUBSET Rev /\ rows' \in SUBSET Rev /\ disk' = disk /\ last' = last
    BY <1>1, <1>8, <2>1 DEF CommitUpload, TextType
  <2> QED BY <1>1, <2>2, <2>4, <2>5 DEF TextType
<1>9. CASE ScanClean(q) \/ ScanInfected(q)
  <2>1. req[q].rev \in Rev
    BY <1>9, AtCommit DEF ScanClean, ScanInfected, At
  <2>2. doc' \in DocRecord
    BY <1>1, <1>9 DEF ScanClean, ScanInfected, TextType, DocRecord
  <2> QED BY <1>1, <1>9, <2>1, <2>2 DEF ScanClean, ScanInfected, TextType
<1>10. CASE CommitText(q)
  <2> DEFINE n == NewNumber
             now == {n} \cup IF Legacy THEN {1} ELSE {}
  <2>1. /\ RowsOf(q) \subseteq Rev /\ req[q].rev \in Rev /\ req[q].rev \in 0 .. MaxRev
    BY <1>10, AtCommit DEF CommitText, At, Rev
  <2>2. n \in Ver /\ n \in 0 .. MaxVer /\ 1 \in Ver
    <3>1. q \in Early
      BY <1>10 DEF Early, CommitText, At
    <3> QED BY <3>1, NewNumberFits DEF DocInv, NumberInv, Ver
  <2>3. doc' \in DocRecord
    BY <1>1, <1>10, <2>1, <2>2, UploadedIs DEF CommitText, NewNumber
  <2>4. PICK p \in RowsOf(q) :
           /\ version' = [m \in Ver |-> IF m \in now THEN Version(None, p) ELSE version[m]]
           /\ copy' = [m \in Ver |-> IF m \in now THEN CopyFile(m, p)[m] ELSE copy[m]]
    BY <1>10 DEF CommitText, NewNumber
  <2>5. Version(None, p) \in VersionRecord /\ \A m \in Ver : CopyFile(m, p)[m] \in Text
    BY <1>1, <2>1, <2>4, CopyFileIs, VersionIs
  <2>6. version' \in [Ver -> VersionRecord] /\ copy' \in [Ver -> Text]
    BY <1>1, <2>4, <2>5 DEF TextType
  <2>7. accepted' \in SUBSET Rev /\ rows' \in SUBSET Rev /\ disk' = disk /\ last' = last
    BY <1>1, <1>10, <2>1 DEF CommitText, TextType
  <2> QED BY <1>1, <2>3, <2>6, <2>7 DEF TextType
<1>11. CASE WriteBack(q)
  <2>1. req[q].rev \in Text
    BY <1>11, AtCommit DEF WriteBack, At
  <2> QED BY <1>1, <1>11, <2>1 DEF WriteBack, TextType
<1>12. CASE CommitEdit(q)
  <2>1. /\ req[q].num \in Ver /\ req[q].num \in 0 .. MaxVer /\ rows \subseteq Rev
        /\ req[q].rev \in Rev /\ req[q].rev \in Text
    BY <1>1, <1>12, AtCommit DEF CommitEdit, At, TextType
  <2>2. doc' \in DocRecord
    <3>1. None \in 0 .. MaxVer
      BY DEF None
    <3> QED BY <1>1, <1>12, <2>1, <3>1 DEF CommitEdit, TextType, DocRecord
  <2>3. PICK p \in rows :
           version' = NewVersions(q, Version(req[q].rev, p)) /\ copy' = CopyFile(req[q].num, p)
    BY <1>12 DEF CommitEdit
  <2>4. version' \in [Ver -> VersionRecord] /\ copy' \in [Ver -> Text]
    BY <1>1, <2>1, <2>3, CopyFileIs, VersionIs, NewVersionsAre
  <2> QED BY <1>1, <1>12, <2>1, <2>2, <2>4 DEF TextType, CommitEdit
<1> QED BY <1>3, <1>4, <1>5, <1>6, <1>7, <1>8, <1>9, <1>10, <1>11, <1>12 DEF RequestStep, Uploads

\* The types of the texts under the operations that are one step
LEMMA UserTexts ==
    ASSUME DocInv, FuseCreate \/ PutFile \/ Reindex \/ \E n \in Ver : Restore(n)
    PROVE  TextType'
<1> USE BoundsAssumption
<1>1. TextType /\ TypeInv /\ rows \subseteq Rev
  BY DEF DocInv, TypeInv, TypeOK, TextType, DocRecord, VersionRecord
<1>2. last < MaxRev => last + 1 \in Rev /\ last + 1 \in Text /\ last + 1 \in 0 .. MaxRev
  BY <1>1 DEF TextType, Rev, Text
<1>3. CASE FuseCreate
  <2>1. last + 1 \in Rev /\ last + 1 \in Text /\ last + 1 \in 0 .. MaxRev /\ None \in 0 .. MaxVer
    BY <1>2, <1>3 DEF FuseCreate, None
  <2>2. doc' \in DocRecord
    <3>1. Uploaded(last + 1, None) \in DocRecord
      BY <1>1, <2>1, UploadedIs
    <3>2. [Uploaded(last + 1, None) EXCEPT !.current = None] \in DocRecord
      BY <2>1, <3>1 DEF DocRecord
    <3> QED BY <1>3, <3>2 DEF FuseCreate
  <2>3. disk' \in [Rev -> Text]
    BY <1>1, <1>3, <2>1 DEF FuseCreate, TextType
  <2> QED BY <1>1, <1>3, <2>1, <2>2, <2>3 DEF FuseCreate, TextType
<1>4. CASE PutFile
  BY <1>1, <1>2, <1>4 DEF PutFile, TextType
<1>5. CASE Reindex
  BY <1>1, <1>5 DEF Reindex, TextType, DocRecord
<1>6. ASSUME NEW n \in Ver, Restore(n)
      PROVE  TextType'
  <2>1. version[n].content \in Text /\ copy[n] \in Text /\ n \in 0 .. MaxVer /\ None \in 0 .. MaxVer
    BY <1>1 DEF TextType, VersionRecord, Ver, None
  <2>2. disk' \in [Rev -> Text]
    BY <1>1, <1>6, <2>1 DEF Restore, TextType
  <2>3. doc' \in DocRecord
    <3> DEFINE text == version[n].content
               x == IF text # None THEN text ELSE doc.content
               r == IF text # None THEN n ELSE None
    <3>1. doc' = [doc EXCEPT !.content = x, !.restored = r, !.current = n, !.chunks = {},
                             !.status = "pending"]
      BY <1>6 DEF Restore
    <3>2. x \in Text /\ r \in 0 .. MaxVer /\ doc \in DocRecord
      BY <1>1, <2>1 DEF TextType, DocRecord
    <3> HIDE DEF x, r
    <3> QED BY <2>1, <3>1, <3>2 DEF DocRecord
  <2> QED BY <1>1, <1>6, <2>2, <2>3 DEF Restore, TextType
<1> QED BY <1>3, <1>4, <1>5, <1>6

\* The types of the texts under the workers
LEMMA WorkerTexts ==
    ASSUME DocInv, NEW w \in Worker, WorkerStep(w)
    PROVE  TextType'
<1> USE BoundsAssumption
<1>1. TextType /\ TypeInv
  BY DEF DocInv, TypeInv, TypeOK, TextType, DocRecord, VersionRecord
<1>2. CASE SetParsing(w) \/ SkipVideo(w) \/ MarkDone(w)
  BY <1>1, <1>2 DEF SetParsing, SkipVideo, MarkDone, TextType, DocRecord
<1>3. CASE SaveText(w)
  <2> DEFINE text == run[w].text
  <2>1. text \in Text
    BY <1>1 DEF TypeInv, RunRecord
  <2>2. doc' \in DocRecord
    BY <1>1, <1>3, <2>1 DEF SaveText, TextType, DocRecord
  <2>3. \A v \in VersionRecord : [v EXCEPT !.content = text] \in VersionRecord
    BY <2>1 DEF VersionRecord
  <2>4. version' \in [Ver -> VersionRecord]
    BY <1>1, <1>3, <2>3 DEF SaveText, TextType
  <2> QED BY <1>1, <1>3, <2>2, <2>4 DEF SaveText, TextType
<1>4. CASE ParseRaises(w) \/ Parse(w) \/ \E j \in Job : Take(w, j)
  BY <1>4, TextsStay DEF ParseRaises, Parse, Take
<1> QED BY <1>2, <1>3, <1>4 DEF WorkerStep

\* A step of a request ends it, goes on with it, or begins it.
LEMMA RequestMoves ==
    ASSUME DocInv, NEW q \in Req, RequestStep(q)
    PROVE  \E c : /\ Moved(q, c)
                  /\ \/ c = Free
                     \/ req[q].pc # "free" /\ c.op = req[q].op /\ c.rev = req[q].rev
                     \/ \E op \in Uploads \cup {"edit"} : Begin(q, op) /\ c.op = op
<1>1. TypeInv
  BY DEF DocInv
<1>2. CASE \/ \E op \in {"tus", "ingest", "create_text"} : Begin(q, op)
           \/ doc.there /\ Begin(q, "edit")
  BY <1>2, BeginMoves DEF Uploads
<1>3. CASE TakeNumber(q) \/ SaveFirst(q)
  BY <1>3, NumberedMoves DEF TakeNumber, SaveFirst
<1>4. CASE UnlinkOld(q)
  BY <1>4, UnlinkMoves DEF UnlinkOld, Same
<1>5. CASE StartScan(q)
  BY <1>5, ScanMoves DEF StartScan, At, Same
<1>6. CASE WriteBack(q)
  BY <1>6, WriteMoves DEF WriteBack, At, Same
<1>7. CASE LoseFirst(q) \/ Conflict(q)
  BY <1>7, AnswerMoves DEF LoseFirst, Conflict
<1>8. CASE ScanClean(q) \/ ScanInfected(q) \/ CommitEdit(q)
  <2>1. last' = last /\ Answer(q)
    BY <1>8 DEF ScanClean, ScanInfected, CommitEdit
  <2>2. doc.there => doc'.there
    BY <1>1, <1>8 DEF ScanClean, ScanInfected, CommitEdit, TypeInv, TypeOK
  <2> QED BY <2>1, <2>2, AnswerMoves
<1>9. CASE CommitText(q)
  <2>1. last' = last /\ Answer(q)
    BY <1>9 DEF CommitText
  <2>2. doc'.there
    BY <1>1, <1>9 DEF CommitText, TypeInv, TypeOK, Uploaded
  <2> QED BY <2>1, <2>2, AnswerMoves
<1>10. CASE CommitUpload(q)
  <2>1. last' = last /\ (req[q].op = "tus" \/ Answer(q))
    BY <1>10 DEF CommitUpload
  <2>2. doc'.there
    BY <1>1, <1>10 DEF CommitUpload, TypeInv, TypeOK, Uploaded
  <2> QED BY <1>10, <2>1, <2>2, AnswerMoves, UploadMoves DEF CommitUpload, Same
<1> QED BY <1>2, <1>3, <1>4, <1>5, <1>6, <1>7, <1>8, <1>9, <1>10 DEF RequestStep

\* Every step but those of requests leaves the requests alone.
LEMMA OthersStay ==
    ASSUME DocInv, Next \/ UNCHANGED vars, ~\E q \in Req : RequestStep(q)
    PROVE  /\ req' = req /\ last' \in last .. MaxRev /\ (doc.there => doc'.there)
<1>1. TypeInv /\ last \in 0 .. MaxRev
  BY DEF DocInv, TypeInv, TypeOK
<1>2. last' \in last .. MaxRev /\ req' = req
  <2>1. last \in last .. MaxRev /\ (last < MaxRev => last + 1 \in last .. MaxRev)
    BY <1>1, BoundsAssumption
  <2>2. CASE FuseCreate \/ PutFile
    BY <2>1, <2>2 DEF FuseCreate, PutFile
  <2>3. CASE \/ Reindex \/ Kill \/ Recover \/ UNCHANGED vars
             \/ \E n \in Ver : Restore(n)
             \/ \E w \in Worker : WorkerStep(w)
    <3>1. UNCHANGED <<last, req>>
      BY <2>3 DEF vars, Reindex, Restore, WorkerStep, Take, SetParsing, Parse,
           ParseRaises, SaveText, SkipVideo, MarkDone, Kill, Recover
    <3> QED BY <2>1, <3>1
  <2> QED BY <2>2, <2>3 DEF Next
<1>3. doc.there => doc'.there
  BY <1>1 DEF Next, vars, FuseCreate, PutFile, Reindex, Restore, WorkerStep, Take, SetParsing,
       Parse,
        ParseRaises, SaveText, SkipVideo, MarkDone, Kill, Recover, TypeInv, TypeOK
<1> QED BY <1>1, <1>2, <1>3, BoundsAssumption

\* Types, what requests carry, jobs and attempts are kept by every step.
LEMMA TypesNext ==
    ASSUME DocInv, [Next]_vars
    PROVE  TypeInv' /\ CarriedInv' /\ JobInv' /\ TriesInv'
<1>1. QueueInv'
  BY QueueStays, RequestQueue, UserQueue, WorkerQueue, CrashQueue DEF Next, vars
<1>2. TextType'
  <2>1. Kill \/ Recover \/ UNCHANGED vars => TextType'
    BY TextsStay DEF Kill, Recover, vars
  <2> QED BY <2>1, RequestTexts, UserTexts, WorkerTexts DEF Next
<1>3. req' \in [Req -> ReqRecord] /\ CarriedInv'
  <2>1. TypeInv /\ CarriedInv
    BY DEF DocInv
  <2>2. ASSUME NEW q \in Req, RequestStep(q)
        PROVE  req' \in [Req -> ReqRecord] /\ CarriedInv'
    BY <2>1, <2>2, RequestMoves, OneRequest DEF Moved
  <2>3. ASSUME ~\E q \in Req : RequestStep(q)
        PROVE  req' \in [Req -> ReqRecord] /\ CarriedInv'
    <3>1. req' = req /\ last' \in last .. MaxRev /\ (doc.there => doc'.there)
      BY <2>3, OthersStay
    <3>2. req' \in [Req -> ReqRecord]
      BY <2>1, <3>1 DEF TypeInv
    <3>3. last \in Nat /\ last' \in Nat /\ last <= last'
      BY <2>1, <3>1, BoundsAssumption DEF TypeInv, TypeOK
    <3>4. ASSUME NEW q \in Req
          PROVE  Carries(req[q], last', doc'.there)
      <4>1. Carries(req[q], last, doc.there)
        BY <2>1 DEF CarriedInv
      <4>2. req[q].rev \in 1 .. last => req[q].rev \in 1 .. last'
        BY <3>3
      <4> QED BY <3>1, <4>1, <4>2 DEF Carries
    <3> QED BY <3>1, <3>2, <3>4 DEF CarriedInv
  <2> QED BY <2>2, <2>3
<1> QED BY <1>1, <1>2, <1>3 DEF TypeInv, TypeOK, QueueInv, QueueType, TextType, DocRecord,
     VersionRecord

-----------------------------------------------------------------------------
\* The rows of the versions that are there
LEMMA SaveTextMakesNone ==
    ASSUME DocInv, NEW w \in Worker, SaveText(w)
    PROVE  Made' = Made
<1>1. /\ version \in [Ver -> VersionRecord]
  BY DEF TypeInv, TypeOK, VersionRecord, DocInv
<1>2. \A v \in VersionRecord : \A t : [v EXCEPT !.content = t].made = v.made
  BY DEF VersionRecord
<1>3. \A n \in Ver : version'[n].made = version[n].made
  BY <1>1, <1>2 DEF SaveText
<1> QED BY <1>3 DEF Made

\* The first version is not there before its commit.
LEMMA SaveFirstMakesNone ==
    ASSUME DocInv, NEW q \in Req, SaveFirst(q)
    PROVE  Made' = Made
<1>1. /\ version \in [Ver -> VersionRecord] /\ Made = {}
  BY DEF TypeInv, TypeOK, VersionRecord, DocInv, SaveFirst, Legacy
<1>2. PICK p \in rows :
         version' = [version EXCEPT ![1] = [Version(doc.content, p) EXCEPT !.made = FALSE]]
  BY DEF SaveFirst
<1>3. ~[Version(doc.content, p) EXCEPT !.made = FALSE].made
  BY DEF Version
<1>4. \A n \in Ver : ~version'[n].made
  BY <1>1, <1>2, <1>3 DEF Made
<1> QED BY <1>1, <1>4 DEF Made

\* A commit makes the version of its number and, for a document without versions, version 1.
LEMMA CommitMakes ==
    ASSUME DocInv, NEW q \in Req, CommitUpload(q) \/ CommitEdit(q)
    PROVE  /\ Made' = Made \cup {req[q].num} \cup {m \in Ver : m = 1 /\ req[q].first}
           /\ req[q].num \in Ver \ Made /\ HasNumber(q) /\ q \in Early
<1>1. req[q].num \in Ver \ Made /\ HasNumber(q) /\ q \in Early
  BY AtCommit DEF CommitUpload, CommitEdit, At, Made, Early
<1>2. \E p \in Rev, t \in Text : version' = NewVersions(q, Version(t, p))
  <2>1. None \in Text /\ RowsOf(q) \subseteq Rev /\ rows \subseteq Rev /\ req[q].rev \in Text
    BY AtCommit, BoundsAssumption DEF DocInv, TypeInv, TypeOK, Text, None, CommitUpload,
         CommitEdit, At
  <2> QED BY <2>1 DEF CommitUpload, CommitEdit
<1>3. PICK p \in Rev, t \in Text : version' = NewVersions(q, Version(t, p))
  BY <1>2
<1>4. Version(t, p) \in VersionRecord /\ Version(t, p).made
  BY VersionIs DEF DocInv
<1>5. \A m \in Ver : version'[m].made <=>
         m = req[q].num \/ version[m].made \/ (m = 1 /\ req[q].first)
  BY <1>3, <1>4, NewVersionsAre DEF DocInv
<1> QED BY <1>1, <1>5 DEF Made

\* A text document that is created or overwritten gets its version.
LEMMA TextMakes ==
    ASSUME DocInv, NEW q \in Req, CommitText(q)
    PROVE  /\ Made' = Made \cup {NewNumber} \cup {m \in {1} : Legacy}
           /\ q \in Early /\ \A o \in Req : ~req[o].first
<1>1. q \in Early /\ \A o \in Req : ~req[o].first
  BY DEF CommitText, At, Early
<1> DEFINE now == {NewNumber} \cup IF Legacy THEN {1} ELSE {}
<1>2. NewNumber \in Ver /\ 1 \in Ver
  BY <1>1, NewNumberFits DEF DocInv, NumberInv
<1>3. PICK p \in RowsOf(q) :
         version' = [m \in Ver |-> IF m \in now THEN Version(None, p) ELSE version[m]]
  BY DEF CommitText, NewNumber
<1>4. Version(None, p).made
  BY DEF Version
<1>5. \A m \in Ver : version'[m].made <=> m \in now \/ version[m].made
  BY <1>3, <1>4
<1>6. Made' = Made \cup now
  BY <1>2, <1>5 DEF Made
<1> QED BY <1>1, <1>6

-----------------------------------------------------------------------------
(* The version numbers                                                     *)

\* Who is early
LEMMA EarlyLeaves ==
    ASSUME DocInv, NEW q \in Early, Early' = Early \ {q}
    PROVE  Cardinality(Early') = Cardinality(Early) - 1
  BY EarlyIsFinite, FS_RemoveElement DEF DocInv

\* A request that makes no version, and may get its number.
LEMMA NumberKept ==
    ASSUME DocInv, NEW k \in 0 .. MaxVer, WellNumbered(k), Made' = Made, doc'.there = doc.there,
           NEW q \in Req, NEW c, Moved(q, c),
           q \in Early' => q \in Early,
           HasNumber(q)' => NumberFits(q, k)'
    PROVE  WellNumbered(k)'
<1>1. /\ req' \in [Req -> ReqRecord] /\ req'[q] = c /\ \A o \in Req \ {q} : req'[o] = req[o]
  BY OneRequest DEF DocInv, Moved
<1>2. Early' = Early \/ (q \in Early /\ Early' = Early \ {q})
  BY <1>1 DEF Early
<1>3. Early' # {} => Early # {} /\ Base(k) + Cardinality(Early') <= MaxVer
  <2>1. CASE Early' = Early
    BY <2>1 DEF WellNumbered
  <2>2. CASE q \in Early /\ Early' = Early \ {q}
    <3>1. Cardinality(Early') = Cardinality(Early) - 1 /\ Cardinality(Early) \in Nat
      BY <2>2, EarlyLeaves, EarlyIsFinite DEF DocInv
    <3>2. Base(k) \in Nat
      BY BoundsAssumption DEF Base
    <3> QED BY <2>2, <3>1, <3>2, BoundsAssumption DEF WellNumbered
  <2> QED BY <1>2, <2>1, <2>2
<1>4. \A o \in Req \ {q} : HasNumber(o)' => NumberFits(o, k)'
  BY <1>1 DEF WellNumbered, HasNumber, NumberFits
<1>5. Made' = 1 .. k
  BY DEF WellNumbered
<1> QED BY <1>3, <1>4, <1>5 DEF WellNumbered

\* A request begins: there is room for its number.
LEMMA BeginNumbers ==
    ASSUME DocInv, NEW k \in 0 .. MaxVer, WellNumbered(k), NEW q \in Req,
           NEW op \in Uploads \cup {"edit"}, Begin(q, op), op = "edit" => doc.there
    PROVE  WellNumbered(k)'
<1>1. PICK c \in ReqRecord :
             Moved(q, c) /\ c.op = op /\ c.pc = IF op = "create_text" THEN "unlink" ELSE "number"
  BY BeginMoves
<1>2. /\ req' \in [Req -> ReqRecord] /\ req'[q] = c /\ \A o \in Req \ {q} : req'[o] = req[o]
  BY <1>1, OneRequest DEF DocInv, Moved
<1>3. req[q] = Free /\ Room /\ Made' = Made /\ doc' = doc
  BY DEF Begin, Made
<1>4. Made' = 1 .. k /\ MaxVersion = k /\ (Made = {} <=> k = 0)
  BY <1>3, TopIs, BoundsAssumption DEF WellNumbered
<1>5. \A o \in Req : HasNumber(o)' => NumberFits(o, k)'
  <2>1. ~HasNumber(q)'
    BY <1>1, <1>2 DEF HasNumber
  <2>2. \A o \in Req \ {q} : HasNumber(o)' => NumberFits(o, k)'
    BY <1>2, <1>3 DEF WellNumbered, HasNumber, NumberFits
  <2> QED BY <2>1, <2>2
<1>6. Base(k) + Cardinality(Early') <= MaxVer
  <2> DEFINE busy == {o \in Req : req[o] # Free}
  <2>1. Early \subseteq busy /\ busy \subseteq Req /\ IsFiniteSet(busy)
    BY FS_Subset, BoundsAssumption DEF Early, Free
  <2>2. /\ Cardinality(Early) <= Cardinality(busy) /\ Cardinality(busy) \in Nat
        /\ Cardinality(Early) \in Nat
    BY <2>1, FS_Subset, FS_CardinalityType
  <2>3. Base(k) + Cardinality(busy) < MaxVer /\ Base(k) \in Nat
    BY <1>3, <1>4, BoundsAssumption DEF Room, Base
  <2>4. q \notin Early /\ Early' = Early \cup {q}
    BY <1>1, <1>2, <1>3 DEF Early, Free
  <2>5. Cardinality(Early') = Cardinality(Early) + 1
    BY <2>4, EarlyIsFinite, FS_AddElement DEF DocInv
  <2> HIDE DEF busy
  <2> QED BY <2>2, <2>3, <2>5, BoundsAssumption
<1> QED BY <1>4, <1>5, <1>6 DEF WellNumbered

\* A request takes its number.
LEMMA GetsNumber ==
    ASSUME DocInv, NEW k \in 0 .. MaxVer, WellNumbered(k), NEW q \in Req,
           TakeNumber(q) \/ SaveFirst(q)
    PROVE  WellNumbered(k)'
<1>1. PICK c \in ReqRecord : Moved(q, c) /\ c.num = NewNumber /\ c.first = Legacy
  BY NumberedMoves DEF TakeNumber, SaveFirst
<1>2. req'[q] = c
  BY <1>1, OneRequest DEF DocInv, Moved
<1>3. q \in Early
  BY DEF TakeNumber, SaveFirst, Early
<1>4. Made' = Made
  BY SaveFirstMakesNone DEF TakeNumber, Made
<1>5. doc' = doc
  BY DEF TakeNumber, SaveFirst
<1>6. NumberFits(q, k)'
  <2>1. /\ MaxVersion = k /\ (Legacy => k = 0) /\ NewNumber \in Ver /\ (doc.there => (k = 0 <=> Legacy))
    BY <1>3, NewNumberFits DEF DocInv
  <2>2. Legacy \in BOOLEAN /\ (Legacy => doc.there)
    BY DEF DocInv, TypeInv, TypeOK, Legacy
  <2>3. /\ req'[q].num = NewNumber /\ doc'.there = doc.there
        /\ req'[q].first <=> Legacy
    BY <1>1, <1>2, <1>5
  <2>4. CASE Legacy
    BY <2>1, <2>2, <2>3, <2>4, BoundsAssumption DEF NumberFits, NewNumber
  <2>5. CASE ~Legacy
    BY <2>1, <2>2, <2>3, <2>5, BoundsAssumption DEF NumberFits, NewNumber
  <2> QED BY <2>4, <2>5
<1> QED BY <1>1, <1>3, <1>4, <1>5, <1>6, NumberKept

\* A request goes on with its number.
LEMMA KeepsNumber ==
    ASSUME DocInv, NEW k \in 0 .. MaxVer, WellNumbered(k), NEW q \in Req,
           \/ UnlinkOld(q) \/ WriteBack(q) \/ StartScan(q) \/ ScanClean(q) \/ ScanInfected(q)
           \/ LoseFirst(q) \/ Conflict(q)
    PROVE  WellNumbered(k)'
<1>1. Made' = Made /\ doc'.there = doc.there
  BY DEF UnlinkOld, WriteBack, StartScan, ScanClean, ScanInfected, LoseFirst, Conflict, Made,
    DocInv, TypeInv, TypeOK
<1>2. CASE UnlinkOld(q) \/ WriteBack(q)
  <2>1. PICK c : Moved(q, c) /\ Same(c, q) /\ c.first = req[q].first /\ c.pc = "commit"
    BY <1>2, UnlinkMoves, WriteMoves
  <2>2. req'[q] = c
    BY <2>1, OneRequest DEF DocInv, Moved
  <2>3. q \in Early
    BY <1>2 DEF UnlinkOld, WriteBack, Early, At
  <2>4. HasNumber(q)' => HasNumber(q)
    BY <1>2, <2>1, <2>2 DEF HasNumber, UnlinkOld, WriteBack, At, Same
  <2>5. NumberFits(q, k) => NumberFits(q, k)'
    BY <1>1, <2>1, <2>2 DEF NumberFits, Same
  <2> QED BY <1>1, <2>1, <2>3, <2>4, <2>5, NumberKept DEF WellNumbered
<1>3. CASE StartScan(q)
  <2>1. PICK c : Moved(q, c) /\ Same(c, q) /\ c.pc = "verdict"
    BY <1>3, ScanMoves
  <2>2. req'[q] = c
    BY <2>1, OneRequest DEF DocInv, Moved
  <2>3. q \notin Early' /\ ~HasNumber(q)'
    BY <2>1, <2>2 DEF Early, HasNumber
  <2> QED BY <1>1, <2>1, <2>3, NumberKept
<1>4. CASE ScanClean(q) \/ ScanInfected(q) \/ LoseFirst(q) \/ Conflict(q)
  <2>1. Moved(q, Free)
    BY <1>1, <1>4, AnswerMoves DEF ScanClean, ScanInfected, LoseFirst, Conflict
  <2>2. req'[q] = Free
    BY <2>1, OneRequest DEF DocInv, Moved
  <2>3. q \notin Early' /\ ~HasNumber(q)'
    BY <2>2 DEF Early, HasNumber, Free
  <2> QED BY <1>1, <2>1, <2>3, NumberKept
<1> QED BY <1>2, <1>3, <1>4

\* A request that makes versions leaves the early ones.
LEMMA CommitNumbers ==
    ASSUME DocInv, NEW k \in 0 .. MaxVer, WellNumbered(k), NEW q \in Req,
           CommitUpload(q) \/ CommitEdit(q) \/ CommitText(q)
    PROVE  \E m \in 1 .. MaxVer : WellNumbered(m)'
<1> USE BoundsAssumption
<1>1. q \in Early
  BY CommitMakes, TextMakes
<1>2. /\ MaxVersion = k /\ Made = 1 .. k /\ (Legacy => k = 0)
      /\ NewNumber \in Ver /\ 1 \in Ver /\ 2 \in Ver
  BY <1>1, NewNumberFits DEF DocInv, WellNumbered
<1>3. PICK c : /\ Moved(q, c) /\ c.pc \in {"free", "scan"}
               /\ req' \in [Req -> ReqRecord] /\ req'[q] = c /\ \A o \in Req \ {q} : req'[o] = req[o]
  <2>1. CASE CommitUpload(q) /\ req[q].op = "tus"
    BY <2>1, UploadMoves, OneRequest DEF DocInv, Moved
  <2>2. CASE ~(CommitUpload(q) /\ req[q].op = "tus")
    <3>1. Answer(q) /\ last' = last
      BY <2>2 DEF CommitUpload, CommitEdit, CommitText
    <3>2. doc.there => doc'.there
      BY DEF CommitUpload, CommitEdit, CommitText, Uploaded, DocInv, TypeInv, TypeOK
    <3>3. Moved(q, Free) /\ Free.pc = "free"
      BY <3>1, <3>2, AnswerMoves DEF Free
    <3> QED BY <3>3, OneRequest DEF DocInv, Moved
  <2> QED BY <2>1, <2>2
<1>4. PICK m \in 1 .. MaxVer : Made' = 1 .. m /\ k < m /\ m <= Base(k) + 1
  <2>1. CASE CommitUpload(q) \/ CommitEdit(q)
    <3>1. /\ Made' = Made \cup {req[q].num} \cup {m \in Ver : m = 1 /\ req[q].first}
          /\ req[q].num \in Ver \ Made /\ HasNumber(q)
      BY <2>1, CommitMakes
    <3>2. NumberFits(q, k)
      BY <3>1 DEF WellNumbered
    <3>3. CASE req[q].first
      <4>1. Made' = 1 .. 2 /\ k = 0
        BY <1>2, <3>1, <3>2, <3>3 DEF NumberFits
      <4> QED BY <1>2, <4>1 DEF Base, Ver
    <3>4. CASE ~req[q].first
      <4>1. req[q].num = k + 1
        BY <1>2, <3>1, <3>2, <3>4 DEF NumberFits, Ver
      <4>2. Made' = 1 .. k + 1
        BY <1>2, <3>1, <3>4, <4>1
      <4>3. k + 1 \in 1 .. MaxVer /\ k < k + 1 /\ k + 1 <= Base(k) + 1
        BY <3>1, <4>1 DEF Base, Ver
      <4> QED BY <4>2, <4>3
    <3> QED BY <3>3, <3>4
  <2>2. CASE CommitText(q)
    <3>1. Made' = Made \cup {NewNumber} \cup {m \in {1} : Legacy}
      BY <2>2, TextMakes
    <3>2. CASE Legacy
      <4>1. Made' = 1 .. 2 /\ k = 0
        BY <1>2, <3>1, <3>2 DEF NewNumber
      <4> QED BY <1>2, <4>1 DEF Base, Ver
    <3>3. CASE ~Legacy
      <4>1. Made' = 1 .. k + 1 /\ NewNumber = k + 1
        BY <1>2, <3>1, <3>3 DEF NewNumber
      <4>2. k + 1 \in 1 .. MaxVer /\ k < k + 1 /\ k + 1 <= Base(k) + 1
        BY <1>2, <4>1 DEF Base, Ver
      <4> QED BY <4>1, <4>2
    <3> QED BY <3>2, <3>3
  <2> QED BY <2>1, <2>2
<1>5. ASSUME NEW o \in Req, HasNumber(o)'
      PROVE  NumberFits(o, m)'
  <2>1. o # q /\ req'[o] = req[o] /\ HasNumber(o)
    BY <1>3, <1>5 DEF HasNumber
  <2>2. NumberFits(o, k)
    BY <2>1 DEF WellNumbered
  <2>3. ~req[o].first
    <3>1. CASE CommitText(q)
      BY <3>1, TextMakes
    <3>2. CASE (CommitUpload(q) \/ CommitEdit(q)) /\ req[o].first
      <4>1. k = 0 /\ doc.there
        BY <2>2, <3>2 DEF NumberFits
      <4>2. HasNumber(q) /\ NumberFits(q, k)
        BY <3>2, CommitMakes DEF WellNumbered
      <4>3. req[q].first
        BY <4>1, <4>2 DEF NumberFits
      <4> QED BY <2>1, <3>2, <4>3 DEF DocInv, FirstInv
    <3> QED BY <3>1, <3>2
  <2>4. req[o].num \in Ver /\ req[o].num <= m + 1 /\ m # 0
    BY <1>4, <2>2, <2>3 DEF NumberFits, Ver
  <2> QED BY <2>1, <2>3, <2>4 DEF NumberFits
<1>6. Base(m) + Cardinality(Early') <= MaxVer
  <2>1. Early' = Early \ {q}
    BY <1>3 DEF Early
  <2>2. Cardinality(Early') = Cardinality(Early) - 1 /\ Cardinality(Early) \in Nat
    BY <1>1, <2>1, EarlyLeaves, EarlyIsFinite DEF DocInv
  <2>3. Base(k) + Cardinality(Early) <= MaxVer
    BY <1>1 DEF WellNumbered
  <2>4. Base(m) = m /\ Base(k) \in Nat
    BY <1>4 DEF Base
  <2> QED BY <1>4, <2>2, <2>3, <2>4
<1> QED BY <1>4, <1>5, <1>6 DEF WellNumbered

\* Every other step leaves the numbers alone.
LEMMA OthersNumbers ==
    ASSUME DocInv, NEW k \in 0 .. MaxVer, WellNumbered(k),
           Next \/ UNCHANGED vars, ~\E q \in Req : RequestStep(q)
    PROVE  WellNumbered(k)'
<1>1. req' = req
  BY OthersStay
<1>2. Made' = Made
  <2>1. version' = version \/ \E w \in Worker : SaveText(w)
    BY DEF Next, vars, WorkerStep, FuseCreate, PutFile, Reindex, Restore, Take,
      SetParsing, Parse, ParseRaises, SkipVideo, MarkDone, Kill, Recover
  <2>2. version' = version => Made' = Made
    BY DEF Made
  <2> QED BY <2>1, <2>2, SaveTextMakesNone
<1>3. Early' = Early /\ Made' = 1 .. k
  BY <1>1, <1>2 DEF Early, WellNumbered
<1>4. ASSUME NEW o \in Req, HasNumber(o)'
      PROVE  NumberFits(o, k)'
  <2>1. HasNumber(o) /\ NumberFits(o, k) /\ req[o].num \in Ver
    BY <1>1, <1>4 DEF HasNumber, WellNumbered, NumberFits
  <2>2. CASE FuseCreate
    <3>1. ~doc.there /\ req[o].num = None
      BY <2>2 DEF FuseCreate, OneCreator
    <3> QED BY <2>1, <3>1, BoundsAssumption DEF Ver, None
  <2>3. CASE ~FuseCreate
    <3>1. doc'.there = doc.there
      BY <2>3 DEF Next, vars, WorkerStep, PutFile, Reindex, Restore, Take, SaveText,
        SetParsing, Parse, ParseRaises, SkipVideo, MarkDone, Kill, Recover, DocInv, TypeInv, TypeOK
    <3> QED BY <1>1, <2>1, <3>1 DEF NumberFits
  <2> QED BY <2>2, <2>3
<1> QED BY <1>3, <1>4 DEF WellNumbered

\* The numbers stay without a gap.
LEMMA NumberNext ==
    ASSUME DocInv, [Next]_vars
    PROVE  NumberInv'
<1>1. PICK k \in 0 .. MaxVer : WellNumbered(k)
  BY DEF DocInv, NumberInv
<1>2. ASSUME NEW q \in Req, RequestStep(q)
      PROVE  \E m \in 0 .. MaxVer : WellNumbered(m)'
  <2>1. CASE \/ \E op \in {"tus", "ingest", "create_text"} : Begin(q, op)
             \/ doc.there /\ Begin(q, "edit")
    BY <1>1, <2>1, BeginNumbers DEF Uploads
  <2>2. CASE CommitUpload(q) \/ CommitEdit(q) \/ CommitText(q)
    <3>1. PICK m \in 1 .. MaxVer : WellNumbered(m)'
      BY <1>1, <2>2, CommitNumbers
    <3> QED BY <3>1, BoundsAssumption
  <2> QED BY <1>1, <1>2, <2>1, <2>2, GetsNumber, KeepsNumber DEF RequestStep
<1>3. CASE ~\E q \in Req : RequestStep(q)
  BY <1>1, <1>3, OthersNumbers DEF NumberInv
<1> QED BY <1>2, <1>3 DEF NumberInv

-----------------------------------------------------------------------------
(* The rows, and who commits first                                         *)

\* The path of the document stays one of its rows.
LEMMA PlaceNext ==
    ASSUME DocInv, [Next]_vars
    PROVE  PlaceInv'
<1> USE BoundsAssumption
<1>1. TypeInv /\ PlaceInv /\ last \in 0 .. MaxRev /\ CarriedInv
  BY DEF DocInv, TypeInv, TypeOK
<1>2. ASSUME NEW q \in Req, CommitUpload(q) \/ CommitText(q)
      PROVE  PlaceInv'
  <2>1. req[q].rev \in 1 .. last /\ req[q].pc = "commit"
    BY <1>1, <1>2 DEF CarriedInv, Carries, CommitUpload, CommitText, At
  <2>2. rows' = RowsOf(q) /\ last' = last /\ doc'.there /\ doc'.path = req[q].rev
    BY <1>1, <1>2 DEF CommitUpload, CommitText, Uploaded, TypeInv, TypeOK
  <2> QED BY <1>1, <2>1, <2>2 DEF PlaceInv, RowsOf
<1>3. CASE FuseCreate
  <2>1. last' = last + 1 /\ rows' = {last + 1} /\ doc'.there /\ doc'.path = last + 1
    BY <1>1, <1>3 DEF FuseCreate, Uploaded, TypeInv, TypeOK
  <2> QED BY <1>1, <2>1 DEF PlaceInv
<1>4. ASSUME rows' = rows, doc'.there = doc.there, doc'.path = doc.path, last' \in last .. MaxRev,
             ~doc.there => Made' = Made /\ accepted' \subseteq accepted
      PROVE  PlaceInv'
  <2>1. 1 .. last \subseteq 1 .. last'
    BY <1>1, <1>4
  <2> QED BY <1>1, <1>4, <2>1 DEF PlaceInv
<1>5. ASSUME NEW q \in Req, RequestStep(q), ~(CommitUpload(q) \/ CommitText(q))
      PROVE  PlaceInv'
  <2>1. rows' = rows
    BY <1>5 DEF RequestStep, Begin, TakeNumber, SaveFirst, LoseFirst, UnlinkOld, Conflict,
      StartScan, ScanClean, ScanInfected, WriteBack, CommitEdit
  <2>2. doc'.there = doc.there /\ doc'.path = doc.path
    BY <1>1, <1>5 DEF RequestStep, Begin, TakeNumber, SaveFirst, LoseFirst, UnlinkOld, Conflict,
      StartScan, ScanClean, ScanInfected, WriteBack, CommitEdit, TypeInv, TypeOK
  <2>3. last' \in last .. MaxRev
    BY <1>5, RequestMoves DEF Moved
  <2>4. ~(doc.there) => ~CommitEdit(q) /\ ~ScanClean(q) /\ ~SaveFirst(q)
    BY <1>1 DEF CarriedInv, Carries, CommitEdit, ScanClean, SaveFirst, Legacy, At
  <2>5. ~doc.there => version' = version /\ accepted' = accepted
    BY <1>5, <2>4 DEF RequestStep, Begin, TakeNumber, LoseFirst, UnlinkOld, Conflict,
      StartScan, ScanInfected, WriteBack
  <2> QED BY <1>4, <2>1, <2>2, <2>3, <2>5 DEF Made
<1>6. CASE (Next \/ UNCHANGED vars) /\ ~FuseCreate /\ ~\E q \in Req : RequestStep(q)
  <2>1. rows' = rows
    BY <1>6 DEF Next, vars, WorkerStep, PutFile, Reindex, Restore, Take, SaveText,
        SetParsing, Parse, ParseRaises, SkipVideo, MarkDone, Kill, Recover
  <2>2. doc'.there = doc.there /\ doc'.path = doc.path
    <3>1. CASE doc' = doc
      BY <3>1
    <3>2. CASE Reindex \/ \E n \in Ver : Restore(n)
      BY <1>1, <3>2 DEF Reindex, Restore, TypeInv, TypeOK
    <3>3. CASE \E w \in Worker : SetParsing(w) \/ SaveText(w) \/ SkipVideo(w) \/ MarkDone(w)
      BY <1>1, <3>3 DEF SetParsing, SaveText, SkipVideo, MarkDone, TypeInv, TypeOK
    <3> QED BY <1>6, <3>1, <3>2, <3>3 DEF Next, vars, WorkerStep, PutFile, Take, Parse,
         ParseRaises, Kill, Recover
  <2>3. last' \in last .. MaxRev
    BY <1>6, OthersStay
  <2>4. Made' = Made
    <3>1. version' = version \/ \E w \in Worker : SaveText(w)
      BY <1>6 DEF Next, vars, WorkerStep, PutFile, Reindex, Restore, Take,
        SetParsing, Parse, ParseRaises, SkipVideo, MarkDone, Kill, Recover
    <3> QED BY <3>1, SaveTextMakesNone DEF Made
  <2>5. accepted' \subseteq accepted
    BY <1>6 DEF Next, vars, WorkerStep, PutFile, Reindex, Restore, Take, SaveText,
        SetParsing, Parse, ParseRaises, SkipVideo, MarkDone, Kill, Recover
  <2> QED BY <1>4, <2>1, <2>2, <2>3, <2>4, <2>5
<1> QED BY <1>2, <1>3, <1>5, <1>6

\* One request creates the document, one saves its first version.
LEMMA CreatorNext ==
    ASSUME DocInv, [Next]_vars
    PROVE  CreatorInv' /\ FirstInv'
<1>1. TypeInv /\ CarriedInv /\ CreatorInv /\ FirstInv
  BY DEF DocInv
<1>2. ASSUME NEW q \in Req, NEW c, Moved(q, c),
             \/ doc'.there
             \/ c.pc # "commit" /\ c.num = None
             \/ \A o \in Req \ {q} : ~Creates(o),
             c.first => req[q].first \/ \A o \in Req : ~req[o].first
      PROVE  CreatorInv' /\ FirstInv'
  <2>1. req'[q] = c /\ \A o \in Req \ {q} : req'[o] = req[o]
    BY <1>1, <1>2, OneRequest DEF Moved
  <2>2. FirstInv'
    BY <1>1, <1>2, <2>1 DEF FirstInv
  <2>3. doc.there => doc'.there
    BY <1>2 DEF Moved
  <2>4. \A o \in Req \ {q} : Creates(o)' => Creates(o)
    BY <2>1 DEF Creates
  <2>5. c.pc # "commit" /\ c.num = None => ~Creates(q)'
    BY <2>1 DEF Creates
  <2>6. CreatorInv'
    BY <1>1, <1>2, <2>3, <2>4, <2>5 DEF CreatorInv
  <2> QED BY <2>2, <2>6
<1>3. ASSUME NEW q \in Req, RequestStep(q)
      PROVE  CreatorInv' /\ FirstInv'
  <2>1. CASE \/ \E op \in {"tus", "ingest", "create_text"} : Begin(q, op)
             \/ doc.there /\ Begin(q, "edit")
    <3>1. PICK c : Moved(q, c) /\ c.pc # "commit" /\ c.num = None /\ ~c.first
      BY <2>1, BeginMoves DEF Uploads
    <3> QED BY <1>2, <3>1
  <2>2. CASE TakeNumber(q) \/ SaveFirst(q)
    <3>1. PICK c : Moved(q, c) /\ c.first = Legacy
      BY <2>2, NumberedMoves DEF TakeNumber, SaveFirst
    <3>2. doc' = doc
      BY <2>2 DEF TakeNumber, SaveFirst
    <3>3. Legacy => doc.there /\ \A o \in Req : ~req[o].first
      BY <2>2 DEF TakeNumber, SaveFirst, Legacy
    <3>4. doc.there \/ \A o \in Req \ {q} : ~Creates(o)
      BY <2>2, <3>3 DEF TakeNumber, SaveFirst, OneCreator, Creates
    <3> QED BY <1>2, <3>1, <3>2, <3>3, <3>4
  <2>3. CASE UnlinkOld(q)
    <3>1. PICK c : Moved(q, c) /\ c.first = req[q].first
      BY <2>3, UnlinkMoves
    <3>2. doc'.there \/ \A o \in Req \ {q} : ~Creates(o)
      BY <2>3 DEF UnlinkOld, OneCreator, Creates
    <3> QED BY <1>2, <3>1, <3>2
  <2>4. CASE WriteBack(q) \/ StartScan(q)
    <3>1. PICK c : Moved(q, c) /\ c.first = req[q].first
      BY <2>4, WriteMoves, ScanMoves
    <3>2. doc.there
      BY <1>1, <2>4 DEF CarriedInv, Carries, WriteBack, StartScan, At
    <3> QED BY <1>2, <3>1, <3>2 DEF Moved
  <2>5. CASE CommitUpload(q) /\ req[q].op = "tus"
    <3>1. PICK c : Moved(q, c) /\ ~c.first
      BY <2>5, UploadMoves
    <3>2. doc'.there
      BY <1>1, <2>5 DEF CommitUpload, Uploaded, TypeInv, TypeOK
    <3> QED BY <1>2, <3>1, <3>2
  <2>6. CASE Answer(q)
    <3>1. PICK c : Moved(q, c)
      BY <1>3, RequestMoves
    <3>2. c = Free
      <4>1. req'[q] = c
        BY <1>1, <3>1, OneRequest DEF Moved
      <4> QED BY <1>1, <2>6, <4>1 DEF Answer, TypeInv
    <3> QED BY <1>2, <3>1, <3>2 DEF Free
  <2> QED BY <1>3, <2>1, <2>2, <2>3, <2>4, <2>5, <2>6 DEF RequestStep, LoseFirst, Conflict,
        CommitUpload, ScanClean, ScanInfected, CommitText, CommitEdit
<1>4. CASE ~\E q \in Req : RequestStep(q)
  <2>1. req' = req /\ (doc.there => doc'.there)
    BY <1>4, OthersStay
  <2> QED BY <1>1, <2>1 DEF CreatorInv, FirstInv, Creates
<1> QED BY <1>3, <1>4

-----------------------------------------------------------------------------
(* The versions                                                            *)

\* What the steps do to the row of a version
SameRow(n) == /\ (version'[n].made <=> version[n].made) /\ version'[n].content = version[n].content
              /\ version'[n].kept = version[n].kept

\* The job of a document fills in empty texts and nothing else.
LEMMA SaveTextRows ==
    ASSUME DocInv, NEW w \in Worker, SaveText(w), NEW n \in Ver
    PROVE  /\ version'[n].made = version[n].made /\ version'[n].kept = version[n].kept
           /\ version[n].content # None => version'[n].content = version[n].content
<1>1. /\ version[n] \in VersionRecord
  BY DEF TypeInv, TypeOK, VersionRecord, DocInv
<1>2. \A v \in VersionRecord : \A t : /\ [v EXCEPT !.content = t].made = v.made
                                      /\ [v EXCEPT !.content = t].kept = v.kept
  BY DEF VersionRecord
<1>3. version'[n] = IF version[n].made /\ version[n].content = None
                    THEN [version[n] EXCEPT !.content = run[w].text] ELSE version[n]
  BY DEF SaveText
<1> QED BY <1>1, <1>2, <1>3

\* The first version is saved, and not committed yet.
LEMMA SaveFirstRows ==
    ASSUME DocInv, NEW q \in Req, SaveFirst(q)
    PROVE  /\ Made = {} /\ 1 \in Ver
           /\ \E p \in rows : /\ p \in Rev
                              /\ copy' = CopyFile(1, p)
                              /\ ~version'[1].made /\ version'[1].content = doc.content
                              /\ version'[1].kept <=> disk[p] # None
           /\ \A n \in Ver \ {1} : version'[n] = version[n]
<1>1. /\ version \in [Ver -> VersionRecord] /\ rows \subseteq Rev /\ doc.content \in Text /\ TypeInv
  BY DEF TypeInv, TypeOK, VersionRecord, DocInv
<1>2. 1 \in Ver
  BY NewNumberFits DEF SaveFirst, DocInv, NumberInv, Early
<1>3. PICK p \in rows : /\ copy' = CopyFile(1, p)
                        /\ version' = [version EXCEPT
                              ![1] = [Version(doc.content, p) EXCEPT !.made = FALSE]]
  BY DEF SaveFirst
<1>4. /\ Version(doc.content, p) \in VersionRecord /\ Version(doc.content, p).content = doc.content
      /\ Version(doc.content, p).kept <=> disk[p] # None
  BY <1>1, VersionIs
<1>5. \A v \in VersionRecord : LET x == [v EXCEPT !.made = FALSE] IN
         ~x.made /\ x.content = v.content /\ x.kept = v.kept
  BY DEF VersionRecord
<1>6. version'[1] = [Version(doc.content, p) EXCEPT !.made = FALSE]
  BY <1>1, <1>2, <1>3
<1>7. \A n \in Ver \ {1} : version'[n] = version[n]
  BY <1>1, <1>2, <1>3
<1>8. ~version'[1].made /\ version'[1].content = doc.content /\ (version'[1].kept <=> disk[p] # None)
  BY <1>4, <1>5, <1>6
<1> QED BY <1>1, <1>2, <1>3, <1>7, <1>8 DEF SaveFirst, Legacy

\* An upload or an edit is committed.
LEMMA CommitRows ==
    ASSUME DocInv, NEW q \in Req, CommitUpload(q) \/ CommitEdit(q)
    PROVE  LET n == req[q].num
               t == IF req[q].op = "edit" THEN req[q].rev ELSE None
           IN  /\ n \in Ver \ Made
               /\ \E p \in IF req[q].op = "edit" THEN rows ELSE RowsOf(q) :
                     /\ p \in Rev
                     /\ copy' = CopyFile(n, p)
                     /\ version'[n].made /\ version'[n].content = t
                     /\ version'[n].kept <=> disk[p] # None
               /\ \A m \in Ver \ {n} :
                     /\ version'[m].content = version[m].content
                     /\ version'[m].kept = version[m].kept
                     /\ version'[m].made <=> version[m].made \/ (m = 1 /\ req[q].first)
<1> DEFINE n == req[q].num
           t == IF req[q].op = "edit" THEN req[q].rev ELSE None
           S == IF req[q].op = "edit" THEN rows ELSE RowsOf(q)
<1>1. TypeInv
  BY DEF DocInv
<1>2. n \in Ver \ Made
  BY CommitMakes
<1>3. t \in Text /\ S \subseteq Rev
  BY <1>1, AtCommit, BoundsAssumption DEF TypeInv, TypeOK, Text, None, CommitUpload, CommitEdit, At
<1>4. PICK p \in S : version' = NewVersions(q, Version(t, p)) /\ copy' = CopyFile(n, p)
  <2>1. CASE CommitUpload(q)
    BY <2>1 DEF CommitUpload
  <2>2. CASE CommitEdit(q)
    BY <2>2 DEF CommitEdit, At
  <2> QED BY <2>1, <2>2
<1>5. p \in Rev /\ Version(t, p) \in VersionRecord
      /\ Version(t, p).made /\ Version(t, p).content = t /\ (Version(t, p).kept <=> disk[p] # None)
  BY <1>1, <1>3, <1>4, VersionIs
<1>6. /\ version'[n] = Version(t, p)
      /\ \A m \in Ver \ {n} :
           /\ version'[m].content = version[m].content
           /\ version'[m].kept = version[m].kept
           /\ version'[m].made <=> version[m].made \/ (m = 1 /\ req[q].first)
  BY <1>1, <1>2, <1>4, <1>5, NewVersionsAre
<1>7. p \in S /\ p \in Rev /\ copy' = CopyFile(n, p)
      /\ version'[n].made /\ version'[n].content = t /\ (version'[n].kept <=> disk[p] # None)
  BY <1>4, <1>5, <1>6
<1> HIDE DEF n, t, S
<1>8. \E r \in S : /\ r \in Rev /\ copy' = CopyFile(n, r)
                   /\ version'[n].made /\ version'[n].content = t
                   /\ version'[n].kept <=> disk[r] # None
  BY <1>7
<1> QED BY <1>2, <1>6, <1>8 DEF n, t, S

\* A text document is created or overwritten.
LEMMA TextRows ==
    ASSUME DocInv, NEW q \in Req, CommitText(q)
    PROVE  /\ NewNumber \in Ver \ Made /\ 1 \in Ver
           /\ \E p \in RowsOf(q) :
                 /\ p \in Rev
                 /\ \A m \in Ver : m = NewNumber \/ (Legacy /\ m = 1) =>
                       /\ copy'[m] = CopyFile(m, p)[m]
                       /\ version'[m].made /\ version'[m].content = None
                       /\ version'[m].kept <=> disk[p] # None
           /\ \A m \in Ver \ {NewNumber} : ~(Legacy /\ m = 1) =>
                 version'[m] = version[m] /\ copy'[m] = copy[m]
<1> DEFINE now == {NewNumber} \cup IF Legacy THEN {1} ELSE {}
<1>1. TypeInv
  BY DEF DocInv
<1>2. q \in Early
  BY TextMakes
<1>3. NewNumber \in Ver \ Made /\ 1 \in Ver
  <2>1. PICK k \in 0 .. MaxVer : WellNumbered(k)
    BY DEF DocInv, NumberInv
  <2>2. NewNumber \in Ver /\ 1 \in Ver /\ MaxVersion = k /\ Made = 1 .. k
    BY <1>2, <2>1, NewNumberFits DEF DocInv, WellNumbered
  <2>3. NewNumber \notin Made
    BY <2>1, <2>2, BoundsAssumption DEF NewNumber, Legacy
  <2> QED BY <2>2, <2>3
<1>4. PICK p \in RowsOf(q) :
         /\ version' = [m \in Ver |-> IF m \in now THEN Version(None, p) ELSE version[m]]
         /\ copy' = [m \in Ver |-> IF m \in now THEN CopyFile(m, p)[m] ELSE copy[m]]
  BY DEF CommitText, NewNumber
<1>5. p \in Rev /\ None \in Text
  BY <1>4, AtCommit, BoundsAssumption DEF CommitText, At, Text, None
<1>6. /\ Version(None, p).made /\ Version(None, p).content = None
      /\ (Version(None, p).kept <=> disk[p] # None)
  BY <1>1, <1>5, VersionIs
<1>7. \A m \in Ver : m \in now <=> m = NewNumber \/ (Legacy /\ m = 1)
  OBVIOUS
<1> HIDE DEF now
<1>8. \A m \in Ver : m \in now =>
            /\ copy'[m] = CopyFile(m, p)[m]
            /\ version'[m].made /\ version'[m].content = None
            /\ version'[m].kept <=> disk[p] # None
  BY <1>4, <1>6
<1>9. \A m \in Ver : m \notin now => version'[m] = version[m] /\ copy'[m] = copy[m]
  BY <1>4
<1> QED BY <1>3, <1>4, <1>5, <1>7, <1>8, <1>9

\* A request is refused: the copy it made for a version stays.
LEMMA RefusedCopies ==
    ASSUME DocInv, NEW q \in Req, LoseFirst(q) \/ Conflict(q)
    PROVE  /\ version' = version
           /\ \E n \in Ver, p \in Rev :
                 /\ copy' = CopyFile(n, p)
                 /\ LoseFirst(q) => n = 1 /\ Made = {} /\ p \in rows
                 /\ Conflict(q) => n = req[q].num /\ n \in Made /\ HasNumber(q)
<1>1. TypeInv /\ rows \subseteq Rev
  BY DEF DocInv, TypeInv, TypeOK
<1>2. CASE LoseFirst(q)
  <2>1. 1 \in Ver /\ Made = {}
    BY <1>2, NewNumberFits DEF LoseFirst, DocInv, NumberInv, Early, Legacy
  <2>2. ~Conflict(q)
    BY <1>2 DEF LoseFirst, Conflict
  <2> QED BY <1>1, <1>2, <2>1, <2>2 DEF LoseFirst
<1>3. CASE Conflict(q)
  <2>1. req[q].num \in Made /\ RowsOf(q) \subseteq Rev /\ HasNumber(q)
    BY <1>3, AtCommit DEF Conflict, Made
  <2>2. ~LoseFirst(q)
    BY <1>3 DEF LoseFirst, Conflict
  <2> QED BY <1>1, <1>3, <2>1, <2>2 DEF Conflict, Made
<1> QED BY <1>2, <1>3

\* The steps of requests that touch the versions or their files
Versions(q) == \/ SaveFirst(q) \/ LoseFirst(q) \/ Conflict(q)
               \/ CommitUpload(q) \/ CommitText(q) \/ CommitEdit(q)

\* Every other step leaves the versions and their files alone.
LEMMA VersionsStay ==
    ASSUME [Next]_vars, ~\E q \in Req : Versions(q), ~\E w \in Worker : SaveText(w)
    PROVE  UNCHANGED <<version, copy>>
<1>1. ASSUME NEW q \in Req, RequestStep(q)
      PROVE  UNCHANGED <<version, copy>>
  BY <1>1 DEF Versions, RequestStep, Begin, TakeNumber, UnlinkOld, StartScan, ScanClean,
       ScanInfected, WriteBack
<1>2. ASSUME NEW w \in Worker, WorkerStep(w)
      PROVE  UNCHANGED <<version, copy>>
  BY <1>2 DEF WorkerStep, Take, SetParsing, Parse, ParseRaises, SkipVideo, MarkDone
<1>3. CASE \/ FuseCreate \/ PutFile \/ Reindex \/ (\E n \in Ver : Restore(n))
           \/ Kill \/ Recover \/ UNCHANGED vars
  BY <1>3 DEF FuseCreate, PutFile, Reindex, Restore, Kill, Recover, vars
<1> QED BY <1>1, <1>2, <1>3 DEF Next

\* A version that says a file was kept has one.
LEMMA KeptNext ==
    ASSUME DocInv, [Next]_vars
    PROVE  KeptInv'
<1>1. TypeInv /\ KeptInv
  BY DEF DocInv
<1>2. ASSUME NEW n \in Ver, NEW p \in Rev
      PROVE  \A m \in Ver : copy[m] # None => CopyFile(n, p)[m] # None
  BY <1>1, CopyFileIs
<1>3. ASSUME NEW n \in Ver, NEW p \in Rev, disk[p] # None
      PROVE  CopyFile(n, p)[n] # None
  BY <1>1, <1>3, CopyFileIs
<1>4. ASSUME NEW q \in Req, SaveFirst(q)
      PROVE  KeptInv'
  <2>1. 1 \in Ver /\ \E p \in rows : /\ p \in Rev /\ copy' = CopyFile(1, p)
                                     /\ (version'[1].kept <=> disk[p] # None)
    BY <1>4, SaveFirstRows
  <2>2. \A n \in Ver \ {1} : version'[n] = version[n]
    BY <1>4, SaveFirstRows
  <2> QED BY <1>1, <1>2, <1>3, <2>1, <2>2 DEF KeptInv
<1>5. ASSUME NEW q \in Req, LoseFirst(q) \/ Conflict(q)
      PROVE  KeptInv'
  BY <1>1, <1>2, <1>5, RefusedCopies DEF KeptInv
<1>6. ASSUME NEW q \in Req, CommitUpload(q) \/ CommitEdit(q)
      PROVE  KeptInv'
  <2>1. PICK n \in Ver, p \in Rev :
           /\ copy' = CopyFile(n, p) /\ (version'[n].kept <=> disk[p] # None)
           /\ \A m \in Ver \ {n} : version'[m].kept = version[m].kept
    BY <1>6, CommitRows
  <2> QED BY <1>1, <1>2, <1>3, <2>1 DEF KeptInv
<1>7. ASSUME NEW q \in Req, CommitText(q)
      PROVE  KeptInv'
  <2>1. PICK p \in Rev :
           \A m \in Ver : m = NewNumber \/ (Legacy /\ m = 1) =>
                       /\ copy'[m] = CopyFile(m, p)[m]
                       /\ version'[m].kept <=> disk[p] # None
    BY <1>7, TextRows
  <2>2. \A m \in Ver \ {NewNumber} : ~(Legacy /\ m = 1) =>
                 version'[m] = version[m] /\ copy'[m] = copy[m]
    BY <1>7, TextRows
  <2> QED BY <1>1, <1>3, <2>1, <2>2 DEF KeptInv
<1>8. ASSUME NEW w \in Worker, SaveText(w)
      PROVE  KeptInv'
  BY <1>1, <1>8, SaveTextRows DEF KeptInv, SaveText
<1>9. CASE UNCHANGED <<version, copy>>
  BY <1>1, <1>9 DEF KeptInv
<1> QED BY <1>4, <1>5, <1>6, <1>7, <1>8, <1>9, VersionsStay DEF Versions

\* The invariant is inductive.
LEMMA InvNext ==
    ASSUME DocInv, [Next]_vars
    PROVE  DocInv'
  BY TypesNext, NumberNext, PlaceNext, CreatorNext, KeptNext DEF DocInv

\* Numbers without a gap, one creator, one first version, files behind every version that
\* says so, jobs with attempts left: true of every state, whatever overlaps. (versioning.py,
\* tus_hook, _ingest_single_file, update_document, process_document_job)
THEOREM InvAlways == Spec => []DocInv
<1>1. DocInv /\ [Next]_vars => DocInv'
  BY InvNext
<1> QED BY InvAtInit, <1>1, PTL DEF Spec

\* The rows, files and jobs of a document have their types: no number, no path and no
\* attempt beyond its bound. (ingest.py, documents.py, versioning.py)
THEOREM TypeCorrect == Spec => []TypeOK
<1>1. DocInv => TypeOK
  BY DEF DocInv, TypeInv
<1> QED BY InvAlways, <1>1, PTL

\* The part of VersionsAreFrozen that is about the row
RowFrozen(n) == /\ version'[n].made /\ version'[n].kept = version[n].kept
                /\ version[n].content # None => version'[n].content = version[n].content

\* No step takes a version back or changes its text.
LEMMA RowsNext ==
    ASSUME DocInv, [Next]_vars, NEW n \in Made
    PROVE  RowFrozen(n)
<1>1. n \in Ver /\ version[n].made
  BY DEF Made
<1>2. ASSUME NEW q \in Req, SaveFirst(q) PROVE RowFrozen(n)
  BY <1>2, SaveFirstRows
<1>3. ASSUME NEW q \in Req, LoseFirst(q) \/ Conflict(q) PROVE RowFrozen(n)
  BY <1>1, <1>3, RefusedCopies DEF RowFrozen
<1>4. ASSUME NEW q \in Req, CommitUpload(q) \/ CommitEdit(q) PROVE RowFrozen(n)
  BY <1>1, <1>4, CommitRows DEF RowFrozen
<1>5. ASSUME NEW q \in Req, CommitText(q) PROVE RowFrozen(n)
  <2>1. NewNumber \notin Made /\ (Legacy => Made = {})
    BY <1>5, TextRows DEF Legacy
  <2>2. version'[n] = version[n]
    BY <1>1, <1>5, <2>1, TextRows
  <2> QED BY <1>1, <2>2 DEF RowFrozen
<1>6. ASSUME NEW w \in Worker, SaveText(w) PROVE RowFrozen(n)
  BY <1>1, <1>6, SaveTextRows DEF RowFrozen
<1>7. CASE UNCHANGED <<version, copy>>
  BY <1>1, <1>7 DEF RowFrozen
<1> QED BY <1>2, <1>3, <1>4, <1>5, <1>6, <1>7, VersionsStay DEF Versions

\* Whatever requests and jobs overlap, the row of a version that is there is never taken
\* back: it stays there, and its text is filled in once. (versioning.py)
THEOREM VersionRowsAreFrozen == Spec => [][\A n \in Made : RowFrozen(n)]_vars
<1>1. DocInv /\ [Next]_vars => [\A n \in Made : RowFrozen(n)]_vars
  BY RowsNext
<1> QED BY InvAlways, <1>1, PTL DEF Spec

-----------------------------------------------------------------------------
(* The files                                                               *)

\* No other request runs while an upload does. (Two that overlap lose a file: the run
\* doc_concurrent_uploads shows it.)
UploadsOverlapNothing == Ops \cap Uploads \subseteq Exclusive \/ \A q, r \in Req : q = r

\* An upload is alone.
AloneInv == \A q, r \in Req : q # r /\ req[q].op \in Uploads => req[r] = Free

\* What an upload is about to delete is what it has unlinked; its own file is on disk, and
\* nobody else has its number.
UploadFits(q) ==
    /\ req[q].op = "edit" => req[q].rows = {}
    /\ req[q].op \in Uploads =>
          /\ req[q].pc = "commit" => req[q].rows = rows
          /\ req[q].pc \in {"number", "unlink", "commit"} =>
                req[q].rev \notin rows /\ disk[req[q].rev] = req[q].rev
          /\ HasNumber(q) => req[q].num \notin Made
          /\ req[q].pc \in {"scan", "verdict"} => \A p \in rows : disk[p] # None

\* A document has one row in table files, and its file is on disk, but for an infected one
\* and one that a request has just unlinked.
PresentInv ==
    /\ doc.there => rows = {doc.path}
    /\ \A p \in rows :
          \/ disk[p] # None
          \/ doc.scan = "infected"
          \/ \E q \in Req : req[q].pc = "commit" /\ p \in req[q].rows

FilesInv == AloneInv /\ (\A q \in Req : UploadFits(q)) /\ PresentInv

\* The invariant of the files holds at the start,
LEMMA FilesAtInit == Init => FilesInv
<1> SUFFICES ASSUME Init PROVE FilesInv
  OBVIOUS
<1> QED BY DEF Init, FilesInv, AloneInv, UploadFits, PresentInv, Free, HasNumber, Uploads

\* says what the run checks,
LEMMA FilesPresentThen == DocInv /\ FilesInv => FilesPresent
  BY DEF DocInv, PlaceInv, FilesInv, PresentInv, FilesPresent

\* and is inductive: an upload stays alone.
LEMMA AloneNext ==
    ASSUME UploadsOverlapNothing, DocInv, AloneInv, [Next]_vars
    PROVE  AloneInv'
<1>1. TypeInv /\ CarriedInv
  BY DEF DocInv
<1>2. ASSUME NEW q \in Req, RequestStep(q)
      PROVE  AloneInv'
  <2>1. PICK c : /\ Moved(q, c)
                 /\ \/ c = Free
                    \/ req[q].pc # "free" /\ c.op = req[q].op
                    \/ \E op \in Uploads \cup {"edit"} : Begin(q, op) /\ c.op = op
    BY <1>2, RequestMoves
  <2>2. req'[q] = c /\ \A o \in Req \ {q} : req'[o] = req[o]
    BY <1>1, <2>1, OneRequest DEF Moved
  <2>3. CASE c = Free \/ (req[q].pc # "free" /\ c.op = req[q].op)
    <3>1. Free.op \notin Uploads /\ Free.pc = "free"
      BY DEF Free, Uploads
    <3>2. ASSUME NEW a \in Req, NEW b \in Req, a # b, req'[a].op \in Uploads
          PROVE  req'[b] = Free
      <4>1. CASE a = q
        BY <2>2, <2>3, <3>1, <3>2, <4>1 DEF AloneInv
      <4>2. CASE b = q
        <5>1. req[a].op \in Uploads
          BY <2>2, <3>2, <4>2
        <5>2. req[q] = Free
          BY <3>2, <4>2, <5>1 DEF AloneInv
        <5> QED BY <2>2, <2>3, <3>1, <4>2, <5>2
      <4>3. CASE a # q /\ b # q
        BY <2>2, <3>2, <4>3 DEF AloneInv
      <4> QED BY <4>1, <4>2, <4>3
    <3> QED BY <3>2 DEF AloneInv
  <2>4. ASSUME NEW op \in Uploads \cup {"edit"}, Begin(q, op), c.op = op
        PROVE  AloneInv'
    <3>1. /\ op \in Ops /\ \A r \in Req : req[r] # Free => {op, req[r].op} \cap Exclusive = {}
      BY <2>4 DEF Begin
    <3>2. \A r \in Req : req[r] # Free => req[r].op \in Ops
      BY <1>1 DEF CarriedInv, Carries
    <3>3. ASSUME NEW r \in Req \ {q}, req[r] # Free
          PROVE  op \notin Uploads /\ req[r].op \notin Uploads
      <4>1. Ops \cap Uploads \subseteq Exclusive
        BY <3>3 DEF UploadsOverlapNothing
      <4>2. {op, req[r].op} \cap Exclusive = {} /\ req[r].op \in Ops
        BY <3>1, <3>2, <3>3
      <4>3. op \notin Exclusive /\ req[r].op \notin Exclusive
        BY <4>2
      <4> QED BY <3>1, <4>1, <4>2, <4>3
    <3>4. Free.op \notin Uploads
      BY DEF Free, Uploads
    <3>5. ASSUME NEW a \in Req, NEW b \in Req, a # b, req'[a].op \in Uploads
          PROVE  req'[b] = Free
      <4>1. CASE a = q
        BY <2>2, <2>4, <3>3, <3>5, <4>1
      <4>2. CASE b = q
        BY <2>2, <3>3, <3>4, <3>5, <4>2
      <4>3. CASE a # q /\ b # q
        BY <2>2, <3>5, <4>3 DEF AloneInv
      <4> QED BY <4>1, <4>2, <4>3
    <3> QED BY <3>5 DEF AloneInv
  <2> QED BY <2>1, <2>3, <2>4
<1>3. CASE ~\E q \in Req : RequestStep(q)
  BY <1>3, OthersStay DEF AloneInv
<1> QED BY <1>2, <1>3

\* A request has something to do only if it is under way.
LEMMA RequestBusy ==
    ASSUME DocInv, NEW q \in Req, RequestStep(q)
    PROVE  req[q] # Free \/ req'[q] # Free
<1>1. ASSUME NEW op \in Uploads \cup {"edit"}, Begin(q, op)
      PROVE  req'[q] # Free
  <2>1. req'[q].op = op
    BY <1>1 DEF Begin, DocInv, TypeInv, Free
  <2> QED BY <2>1 DEF Free, Uploads
<1>2. (\A op \in Uploads \cup {"edit"} : ~Begin(q, op)) => req[q] # Free
  BY DEF RequestStep, TakeNumber, SaveFirst, LoseFirst, UnlinkOld, Conflict, CommitUpload,
     StartScan, ScanClean, ScanInfected, CommitText, WriteBack, CommitEdit, At, Free, Uploads
<1> QED BY <1>1, <1>2

\* A step of a request finds no other upload under way.
LEMMA OthersFit ==
    ASSUME UploadsOverlapNothing, DocInv, FilesInv, NEW q \in Req, RequestStep(q)
    PROVE  \A o \in Req \ {q} : /\ req'[o] = req[o] /\ req[o].op \notin Uploads /\ UploadFits(o)'
                                /\ req[q].op \in Uploads => req[o] = Free
<1>1. TypeInv /\ CarriedInv /\ AloneInv
  BY DEF DocInv, FilesInv
<1>2. AloneInv'
  BY AloneNext DEF Next, FilesInv
<1>3. PICK c : /\ Moved(q, c)
               /\ \/ c = Free
                  \/ req[q].pc # "free" /\ c.op = req[q].op
                  \/ \E op \in Uploads \cup {"edit"} : Begin(q, op) /\ c.op = op
  BY RequestMoves
<1>4. req'[q] = c /\ \A o \in Req \ {q} : req'[o] = req[o]
  BY <1>1, <1>3, OneRequest DEF Moved
<1>5. req[q] # Free \/ req'[q] # Free
  BY RequestBusy
<1>6. ASSUME NEW o \in Req \ {q}
      PROVE  req[o].op \notin Uploads
  <2>1. req[o].op \in Uploads => req[q] = Free /\ req'[q] = Free
    BY <1>1, <1>2, <1>4 DEF AloneInv
  <2> QED BY <1>5, <2>1
<1>7. \A o \in Req \ {q} : UploadFits(o)'
  BY <1>4, <1>6 DEF UploadFits, FilesInv
<1> QED BY <1>1, <1>4, <1>6, <1>7 DEF AloneInv

\* A number that is taken now belongs to no version.
LEMMA NewNumberIsFresh ==
    ASSUME DocInv, NEW q \in Early
    PROVE  NewNumber \in Ver \ Made
<1>1. PICK k \in 0 .. MaxVer : WellNumbered(k)
  BY DEF DocInv, NumberInv
<1>2. NewNumber \in Ver /\ MaxVersion = k /\ Made = 1 .. k
  BY <1>1, NewNumberFits DEF DocInv, WellNumbered
<1> QED BY <1>1, <1>2, BoundsAssumption DEF NewNumber, Legacy

\* What is replaced is what was unlinked, and the new file is there.
LEMMA RequestFits ==
    ASSUME UploadsOverlapNothing, DocInv, FilesInv, NEW q \in Req, RequestStep(q)
    PROVE  UploadFits(q)'
<1>1. TypeInv /\ CarriedInv /\ PlaceInv /\ UploadFits(q) /\ Carries(req[q], last, doc.there)
  BY DEF DocInv, FilesInv, CarriedInv
<1>2. ASSUME NEW op \in Uploads \cup {"edit"}, Begin(q, op), op = "edit" => doc.there
      PROVE  UploadFits(q)'
  <2>1. PICK c : /\ Moved(q, c) /\ c.op = op /\ c.rev = last + 1 /\ c.rows = {}
                 /\ c.pc = IF op = "create_text" THEN "unlink" ELSE "number"
    BY <1>2, BeginMoves
  <2>2. req'[q] = c
    BY <1>1, <2>1, OneRequest DEF Moved, DocInv
  <2>3. last + 1 \notin rows /\ rows' = rows /\ last + 1 \in Rev
    BY <1>1, <1>2, BoundsAssumption DEF PlaceInv, Begin, TypeInv, TypeOK, Rev
  <2>4. op \in Uploads => disk'[last + 1] = last + 1
    BY <1>1, <1>2, <2>3 DEF Begin, Uploads, TypeInv, TypeOK
  <2>5. ~HasNumber(q)'
    BY <2>1, <2>2 DEF HasNumber
  <2> QED BY <2>1, <2>2, <2>3, <2>4, <2>5 DEF UploadFits, Uploads
<1>3. CASE TakeNumber(q) \/ SaveFirst(q)
  <2>1. PICK c : /\ Moved(q, c) /\ c.op = req[q].op /\ c.rev = req[q].rev /\ c.num = NewNumber
                 /\ c.pc = IF req[q].op = "edit" THEN "write" ELSE "unlink"
                 /\ c.rows = req[q].rows
    BY <1>3, NumberedMoves DEF TakeNumber, SaveFirst
  <2>2. req'[q] = c
    BY <1>1, <2>1, OneRequest DEF Moved, DocInv
  <2>3. NewNumber \notin Made /\ Made' = Made
    BY <1>3, NewNumberIsFresh, SaveFirstMakesNone DEF TakeNumber, SaveFirst, Early, Made
  <2>4. rows' = rows /\ disk' = disk /\ req[q].pc = "number"
    BY <1>3 DEF TakeNumber, SaveFirst
  <2>5. "edit" \notin Uploads
    BY DEF Uploads
  <2> QED BY <1>1, <2>1, <2>2, <2>3, <2>4, <2>5 DEF UploadFits
<1>4. CASE UnlinkOld(q)
  <2>1. PICK c : Moved(q, c) /\ Same(c, q) /\ c.pc = "commit" /\ c.rows = rows
    BY <1>4, UnlinkMoves
  <2>2. req'[q] = c
    BY <1>1, <2>1, OneRequest DEF Moved, DocInv
  <2>3. /\ req[q].pc = "unlink" /\ rows' = rows /\ Made' = Made
        /\ req[q].op \in Uploads /\ req[q].op # "edit" /\ req[q].rev \in Rev
    BY <1>1, <1>4, AtCommit DEF UnlinkOld, Made, Carries, Uploads
  <2>4. disk'[req[q].rev] = req[q].rev /\ req[q].rev \notin rows
    BY <1>1, <1>4, <2>3 DEF UnlinkOld, UploadFits
  <2>5. HasNumber(q)' => HasNumber(q)
    BY <2>1, <2>2, <2>3 DEF HasNumber, Same
  <2> QED BY <1>1, <2>1, <2>2, <2>3, <2>4, <2>5 DEF UploadFits, Same
<1>5. CASE StartScan(q)
  <2>1. PICK c : Moved(q, c) /\ Same(c, q) /\ c.pc = "verdict" /\ c.rows = req[q].rows
    BY <1>5, ScanMoves
  <2>2. req'[q] = c
    BY <1>1, <2>1, OneRequest DEF Moved, DocInv
  <2>3. req[q].pc = "scan" /\ rows' = rows /\ disk' = disk
    BY <1>5 DEF StartScan, At
  <2>4. ~HasNumber(q)'
    BY <2>1, <2>2 DEF HasNumber
  <2> QED BY <1>1, <2>1, <2>2, <2>3, <2>4 DEF UploadFits, Same
<1>6. CASE WriteBack(q)
  <2>1. PICK c : Moved(q, c) /\ Same(c, q) /\ c.pc = "commit" /\ c.rows = req[q].rows
    BY <1>6, WriteMoves
  <2>2. req'[q] = c
    BY <1>1, <2>1, OneRequest DEF Moved, DocInv
  <2>3. req[q].op = "edit"
    BY <1>6 DEF WriteBack, At
  <2> QED BY <1>1, <2>1, <2>2, <2>3 DEF UploadFits, Same, Uploads
<1>7. CASE CommitUpload(q) /\ req[q].op = "tus"
  <2>1. PICK c : Moved(q, c) /\ Same(c, q) /\ c.pc = "scan" /\ c.rows = req[q].rows
    BY <1>7, UploadMoves
  <2>2. req'[q] = c
    BY <1>1, <2>1, OneRequest DEF Moved, DocInv
  <2>3. req[q].pc = "commit" /\ rows' = RowsOf(q) /\ disk' = disk
    BY <1>7 DEF CommitUpload
  <2>4. rows' = {req[q].rev} /\ disk'[req[q].rev] = req[q].rev
    BY <1>1, <1>7, <2>3 DEF RowsOf, UploadFits, Uploads
  <2>5. ~HasNumber(q)' /\ req[q].rev # None
    BY <2>1, <2>2, <2>3, AtCommit DEF HasNumber
  <2> QED BY <1>7, <2>1, <2>2, <2>4, <2>5 DEF UploadFits, Same
<1>8. CASE Answer(q)
  <2>1. req'[q] = Free
    BY <1>1, <1>8 DEF Answer, TypeInv
  <2> QED BY <2>1 DEF UploadFits, Free, Uploads
<1> QED BY <1>2, <1>3, <1>4, <1>5, <1>6, <1>7, <1>8 DEF RequestStep, LoseFirst, Conflict,
        CommitUpload, ScanClean, ScanInfected, CommitText, CommitEdit, Uploads

\* The file that the row names is on disk after every step of a request,
LEMMA RequestPresent ==
    ASSUME UploadsOverlapNothing, DocInv, FilesInv, NEW q \in Req, RequestStep(q)
    PROVE  PresentInv'
<1>1. /\ TypeInv /\ CarriedInv /\ PlaceInv /\ UploadFits(q) /\ PresentInv
      /\ Carries(req[q], last, doc.there)
  BY DEF DocInv, FilesInv, CarriedInv
<1>2. \A o \in Req \ {q} : req'[o] = req[o] /\ (req[q].op \in Uploads => req[o] = Free)
  BY OthersFit
\* the file of the new row is on disk
<1>3. ASSUME CommitUpload(q) \/ CommitText(q)
      PROVE  PresentInv'
  <2>1. rows' = RowsOf(q) /\ disk' = disk /\ doc'.path = req[q].rev /\ req[q].pc = "commit"
    BY <1>1, <1>3 DEF CommitUpload, CommitText, Uploaded, TypeInv, TypeOK, At
  <2>2. req[q].rows = rows /\ disk[req[q].rev] = req[q].rev /\ req[q].rev # None
    BY <1>1, <1>3, <2>1, AtCommit DEF UploadFits, Uploads, CommitUpload, CommitText, At
  <2>3. rows' = {req[q].rev}
    BY <2>1, <2>2 DEF RowsOf
  <2> QED BY <2>1, <2>2, <2>3 DEF PresentInv
\* nothing is unlinked
<1>4. ASSUME rows' = rows, doc'.there = doc.there, doc'.path = doc.path,
             \A p \in rows : disk[p] # None => disk'[p] # None,
             doc.scan = "infected" => doc'.scan = "infected",
             ~(req[q].pc = "commit" /\ req[q].op \in Uploads)
      PROVE  PresentInv'
  <2>1. req[q].pc = "commit" => req[q].rows = {}
    BY <1>1, <1>4 DEF Carries, UploadFits
  <2>2. \A o \in Req : req[o].pc = "commit" /\ req[o].rows # {} => req'[o] = req[o]
    BY <1>2, <2>1
  <2> QED BY <1>1, <1>4, <2>2 DEF PresentInv
<1>5. ASSUME NEW op \in Uploads \cup {"edit"}, Begin(q, op)
      PROVE  PresentInv'
  <2>1. last + 1 \notin rows /\ req[q].pc = "free"
    BY <1>1, <1>5, BoundsAssumption DEF PlaceInv, Begin, Free, TypeInv, TypeOK
  <2>2. rows \subseteq Rev /\ \A p \in rows : disk'[p] = disk[p]
    BY <1>1, <1>5, <2>1 DEF Begin, TypeInv, TypeOK
  <2> QED BY <1>4, <1>5, <2>1, <2>2 DEF Begin
<1>6. CASE TakeNumber(q) \/ SaveFirst(q) \/ LoseFirst(q) \/ StartScan(q)
  <2>1. doc'.there = doc.there /\ doc'.path = doc.path /\ doc'.scan = doc.scan
    BY <1>1, <1>6 DEF TakeNumber, SaveFirst, LoseFirst, StartScan, TypeInv, TypeOK
  <2> QED BY <1>4, <1>6, <2>1 DEF TakeNumber, SaveFirst, LoseFirst, StartScan, At
<1>7. CASE UnlinkOld(q)
  <2>1. PICK c : Moved(q, c) /\ c.pc = "commit" /\ c.rows = rows
    BY <1>7, UnlinkMoves
  <2>2. req'[q] = c
    BY <1>1, <2>1, OneRequest DEF Moved, DocInv
  <2>3. rows' = rows /\ doc' = doc
    BY <1>7 DEF UnlinkOld
  <2> QED BY <1>1, <2>1, <2>2, <2>3 DEF PresentInv
<1>8. CASE Conflict(q)
  <2>1. req[q].op # "create_text" /\ req[q].pc = "commit" /\ HasNumber(q) /\ req[q].num \in Made
    BY <1>8, RefusedCopies DEF Conflict
  <2>2. req[q].op \notin Uploads
    BY <1>1, <2>1 DEF UploadFits
  <2> QED BY <1>4, <1>8, <2>2 DEF Conflict
<1>9. CASE ScanClean(q) \/ ScanInfected(q)
  <2>1. /\ req[q].pc = "verdict" /\ rows' = rows /\ doc'.there = doc.there /\ doc'.path = doc.path
        /\ req[q].op \in Uploads
    BY <1>1, <1>9 DEF ScanClean, ScanInfected, At, TypeInv, TypeOK, Uploads
  <2>2. CASE ScanClean(q)
    <3>1. \A p \in rows : disk'[p] # None
      BY <1>1, <2>1, <2>2 DEF ScanClean, UploadFits
    <3> QED BY <1>1, <2>1, <3>1 DEF PresentInv
  <2>3. CASE ScanInfected(q)
    <3>1. doc'.scan = "infected"
      BY <1>1, <2>3 DEF ScanInfected, TypeInv, TypeOK
    <3> QED BY <1>1, <2>1, <3>1 DEF PresentInv
  <2> QED BY <1>9, <2>2, <2>3
<1>10. CASE WriteBack(q)
  <2>1. req[q].op = "edit" /\ req[q].pc = "write" /\ rows' = rows /\ doc' = doc /\ req[q].rev # None
    BY <1>10, AtCommit DEF WriteBack, At
  <2>2. \A p \in rows : disk[p] # None => disk'[p] # None
    BY <1>1, <1>10, <2>1 DEF WriteBack, TypeInv, TypeOK
  <2> QED BY <1>4, <2>1, <2>2
<1>11. CASE CommitEdit(q)
  <2>1. /\ req[q].op = "edit" /\ rows' = rows /\ disk' = disk /\ doc'.there = doc.there
        /\ doc'.path = doc.path /\ doc'.scan = doc.scan
    BY <1>1, <1>11 DEF CommitEdit, At, TypeInv, TypeOK
  <2> QED BY <1>4, <2>1 DEF Uploads
<1> QED BY <1>3, <1>5, <1>6, <1>7, <1>8, <1>9, <1>10, <1>11 DEF RequestStep, Uploads

\* Every other step leaves the file names alone, or makes the document; what it writes is
\* a text.
LEMMA OthersFiles ==
    ASSUME DocInv, Next \/ UNCHANGED vars, ~FuseCreate, ~\E q \in Req : RequestStep(q)
    PROVE  /\ rows' = rows /\ doc'.there = doc.there /\ doc'.path = doc.path /\ doc'.scan = doc.scan
           /\ Made' = Made
           /\ \A p \in Rev : /\ p \notin rows => disk'[p] = disk[p]
                             /\ disk[p] # None => disk'[p] # None
<1>1. TypeInv /\ KeptInv /\ rows \subseteq Rev
  BY DEF DocInv, TypeInv, TypeOK
<1>2. CASE PutFile
  <2>1. last + 1 # None
    BY <1>1, BoundsAssumption DEF TypeInv, TypeOK, None
  <2> QED BY <1>1, <1>2, <2>1 DEF PutFile, TypeInv, TypeOK, Made
<1>3. ASSUME NEW n \in Ver, Restore(n)
      PROVE  /\ rows' = rows /\ doc'.there = doc.there /\ doc'.path = doc.path /\ doc'.scan = doc.scan
             /\ Made' = Made
             /\ \A p \in Rev : /\ p \notin rows => disk'[p] = disk[p]
                               /\ disk[p] # None => disk'[p] # None
  <2>1. /\ rows' = rows /\ doc'.there = doc.there /\ doc'.path = doc.path /\ doc'.scan = doc.scan
        /\ Made' = Made
    BY <1>1, <1>3 DEF Restore, TypeInv, TypeOK, Made
  <2>2. PICK p \in rows : disk' = [disk EXCEPT ![p] = IF version[n].kept THEN copy[n] ELSE disk[p]]
    BY <1>1, <1>3 DEF Restore, TypeInv, TypeOK
  <2>3. version[n].kept => copy[n] # None
    BY <1>1 DEF KeptInv
  <2> QED BY <1>1, <2>1, <2>2, <2>3 DEF TypeInv, TypeOK
<1>4. ASSUME doc'.there = doc.there, doc'.path = doc.path, doc'.scan = doc.scan,
             UNCHANGED <<rows, disk>>, Made' = Made
      PROVE  /\ rows' = rows /\ doc'.there = doc.there /\ doc'.path = doc.path /\ doc'.scan = doc.scan
             /\ Made' = Made
             /\ \A p \in Rev : /\ p \notin rows => disk'[p] = disk[p]
                               /\ disk[p] # None => disk'[p] # None
  BY <1>4
<1>5. CASE Reindex
  BY <1>1, <1>4, <1>5 DEF Reindex, TypeInv, TypeOK, Made
<1>6. ASSUME NEW w \in Worker, WorkerStep(w)
      PROVE  /\ doc'.there = doc.there /\ doc'.path = doc.path /\ doc'.scan = doc.scan
             /\ UNCHANGED <<rows, disk>> /\ Made' = Made
  <2>1. UNCHANGED <<rows, disk>>
    BY <1>6 DEF WorkerStep, Take, SetParsing, Parse, ParseRaises, SaveText, SkipVideo, MarkDone
  <2>2. Made' = Made
    BY <1>6, SaveTextMakesNone DEF WorkerStep, Take, SetParsing, Parse, ParseRaises, SkipVideo,
         MarkDone, Made
  <2>3. doc'.there = doc.there /\ doc'.path = doc.path /\ doc'.scan = doc.scan
    BY <1>1, <1>6 DEF WorkerStep, Take, SetParsing, Parse, ParseRaises, SaveText, SkipVideo,
         MarkDone, TypeInv, TypeOK
  <2> QED BY <2>1, <2>2, <2>3
<1>7. CASE Kill \/ Recover \/ UNCHANGED vars
  BY <1>4, <1>7 DEF Kill, Recover, vars, Made
<1> QED BY <1>2, <1>3, <1>4, <1>5, <1>6, <1>7 DEF Next

\* and after every other step.
LEMMA OthersFilesInv ==
    ASSUME UploadsOverlapNothing, DocInv, FilesInv, Next \/ UNCHANGED vars,
           ~\E q \in Req : RequestStep(q)
    PROVE  (\A q \in Req : UploadFits(q)') /\ PresentInv'
<1>1. req' = req
  BY OthersStay
<1>2. /\ TypeInv /\ CarriedInv /\ PlaceInv /\ PresentInv /\ \A q \in Req : UploadFits(q)
      /\ rows \subseteq Rev /\ last \in Nat
  BY BoundsAssumption DEF DocInv, FilesInv, TypeInv, TypeOK
<1>3. CASE FuseCreate
  <2>1. /\ ~doc.there /\ last + 1 \in Rev /\ rows' = {last + 1} /\ doc'.path = last + 1
        /\ version' = version /\ disk' = [disk EXCEPT ![last + 1] = last + 1]
        /\ \A q \in Req : req[q].num = None /\ req[q].pc # "commit"
    BY <1>2, <1>3, BoundsAssumption DEF FuseCreate, OneCreator, Uploaded, TypeInv, TypeOK, Rev
  <2>2. PresentInv'
    BY <1>2, <2>1 DEF PresentInv, TypeInv, TypeOK, None
  <2>3. ASSUME NEW q \in Req
        PROVE  UploadFits(q)'
    <3>1. Carries(req[q], last, doc.there) /\ UploadFits(q)
      BY <1>2 DEF CarriedInv
    <3>2. req[q].pc # "free" => req[q].rev \in 1 .. last /\ req[q].rev # last + 1 /\ req[q].rev \in Rev
      BY <1>2, <3>1, AtCommit, BoundsAssumption DEF Carries
    <3>3. ~HasNumber(q)
      BY <2>1, AtCommit, BoundsAssumption DEF HasNumber, Ver, None
    <3>4. req[q].pc \notin {"scan", "verdict"}
      BY <2>1, <3>1 DEF Carries
    <3> QED BY <1>1, <1>2, <2>1, <3>1, <3>2, <3>3, <3>4 DEF UploadFits, HasNumber, TypeInv, TypeOK
  <2> QED BY <2>2, <2>3
<1>4. CASE ~FuseCreate
  <2>1. /\ rows' = rows /\ doc'.there = doc.there /\ doc'.path = doc.path /\ doc'.scan = doc.scan
        /\ Made' = Made
        /\ \A p \in Rev : /\ p \notin rows => disk'[p] = disk[p]
                          /\ disk[p] # None => disk'[p] # None
    BY <1>4, OthersFiles
  <2>2. PresentInv'
    BY <1>1, <1>2, <2>1 DEF PresentInv
  <2>3. ASSUME NEW q \in Req
        PROVE  UploadFits(q)'
    <3>1. UploadFits(q) /\ (req[q].pc # "free" => req[q].rev \in Rev)
      BY <1>2, AtCommit
    <3> QED BY <1>1, <1>2, <2>1, <3>1 DEF UploadFits, HasNumber
  <2> QED BY <2>2, <2>3
<1> QED BY <1>3, <1>4

\* The invariant of the files is inductive.
LEMMA FilesNext ==
    ASSUME UploadsOverlapNothing, DocInv, FilesInv, [Next]_vars
    PROVE  FilesInv'
<1>1. AloneInv'
  BY AloneNext DEF FilesInv
<1>2. ASSUME NEW q \in Req, RequestStep(q)
      PROVE  (\A o \in Req : UploadFits(o)') /\ PresentInv'
  BY <1>2, OthersFit, RequestFits, RequestPresent
<1> QED BY <1>1, <1>2, OthersFilesInv DEF FilesInv

\* If no other request overlaps an upload, the row of a document names a file that is on
\* disk, unless it was infected or a request has just unlinked it, whatever edits, saves,
\* restores and jobs overlap. (the unlink and delete of old files)
THEOREM FilesStayPresent ==
    ASSUME UploadsOverlapNothing
    PROVE  Spec => []FilesPresent
<1>1. DocInv /\ FilesInv /\ [Next]_vars => DocInv' /\ FilesInv'
  BY InvNext, FilesNext
<1>2. Spec => [](DocInv /\ FilesInv)
  BY <1>1, InvAtInit, FilesAtInit, PTL DEF Spec
<1> QED BY <1>2, FilesPresentThen, PTL

-----------------------------------------------------------------------------
(* The files of the versions                                               *)

\* No two requests run together.
NothingOverlaps == Ops \subseteq Exclusive \/ \A q, r \in Req : q = r

\* At most one request is under way, with a number of its own.
LoneInv == \A q, r \in Req : q # r => req[q] = Free \/ req[r] = Free
FreshInv == \A q \in Req : HasNumber(q) => req[q].num \notin Made

\* Requests that overlap nothing stay alone.
LEMMA LoneNext ==
    ASSUME NothingOverlaps, DocInv, LoneInv, [Next]_vars
    PROVE  LoneInv'
<1>1. TypeInv /\ CarriedInv
  BY DEF DocInv
<1>2. ASSUME NEW q \in Req, RequestStep(q)
      PROVE  LoneInv'
  <2>1. PICK c : /\ Moved(q, c)
                 /\ \/ c = Free
                    \/ req[q].pc # "free" /\ c.op = req[q].op
                    \/ \E op \in Uploads \cup {"edit"} : Begin(q, op) /\ c.op = op
    BY <1>2, RequestMoves
  <2>2. req'[q] = c /\ \A o \in Req \ {q} : req'[o] = req[o]
    BY <1>1, <2>1, OneRequest DEF Moved
  <2>3. CASE c = Free \/ req[q].pc # "free"
    <3>1. Free.pc = "free"
      BY DEF Free
    <3> QED BY <2>2, <2>3, <3>1 DEF LoneInv
  <2>4. ASSUME NEW op \in Uploads \cup {"edit"}, Begin(q, op)
        PROVE  LoneInv'
    <3>1. /\ op \in Ops /\ \A r \in Req : req[r] # Free => {op, req[r].op} \cap Exclusive = {}
      BY <2>4 DEF Begin
    <3>2. ASSUME NEW r \in Req \ {q}
          PROVE  req[r] = Free
      BY <3>1 DEF NothingOverlaps
    <3> QED BY <2>2, <3>2 DEF LoneInv
  <2> QED BY <2>1, <2>3, <2>4
<1>3. CASE ~\E q \in Req : RequestStep(q)
  BY <1>3, OthersStay DEF LoneInv
<1> QED BY <1>2, <1>3

\* A request that is alone holds a number that no version has.
LEMMA FreshNext ==
    ASSUME NothingOverlaps, DocInv, LoneInv, FreshInv, [Next]_vars
    PROVE  FreshInv'
<1>1. ASSUME NEW q \in Req, RequestStep(q)
      PROVE  FreshInv'
  <2>1. TypeInv /\ CarriedInv
    BY DEF DocInv
  <2>2. \A o \in Req \ {q} : req'[o] = Free
    <3>1. PICK c : Moved(q, c)
      BY <1>1, RequestMoves
    <3>2. \A o \in Req \ {q} : req'[o] = req[o]
      BY <2>1, <3>1, OneRequest DEF Moved
    <3> QED BY <1>1, <3>2, RequestBusy, LoneNext DEF LoneInv, Next
  <2>3. Free.pc = "free"
    BY DEF Free
  <2>4. \A o \in Req \ {q} : ~HasNumber(o)'
    BY <2>2, <2>3 DEF HasNumber
  <2>5. CASE TakeNumber(q) \/ SaveFirst(q)
    <3>1. PICK c : Moved(q, c) /\ c.num = NewNumber
      BY <2>5, NumberedMoves DEF TakeNumber, SaveFirst
    <3>2. req'[q] = c
      BY <2>1, <3>1, OneRequest DEF Moved
    <3>3. NewNumber \notin Made /\ Made' = Made
      BY <2>5, NewNumberIsFresh, SaveFirstMakesNone DEF TakeNumber, SaveFirst, Early, Made
    <3> QED BY <2>4, <3>1, <3>2, <3>3 DEF FreshInv
  <2>6. CASE UnlinkOld(q) \/ WriteBack(q)
    <3>1. PICK c : Moved(q, c) /\ Same(c, q)
      BY <2>6, UnlinkMoves, WriteMoves
    <3>2. req'[q] = c
      BY <2>1, <3>1, OneRequest DEF Moved
    <3>3. Made' = Made /\ req[q].pc \in {"unlink", "write"}
      BY <2>6 DEF UnlinkOld, WriteBack, At, Made
    <3> QED BY <2>4, <3>1, <3>2, <3>3 DEF FreshInv, HasNumber, Same
  <2>7. ASSUME req'[q].pc \in {"free", "number", "scan", "verdict"} \/ req'[q].op = "create_text"
        PROVE  FreshInv'
    BY <2>4, <2>7 DEF FreshInv, HasNumber
  <2>8. ASSUME NEW op \in Uploads \cup {"edit"}, Begin(q, op), op = "edit" => doc.there
        PROVE  FreshInv'
    <3>1. PICK c : Moved(q, c) /\ c.op = op /\ c.pc = IF op = "create_text" THEN "unlink" ELSE "number"
      BY <2>8, BeginMoves
    <3>2. req'[q] = c
      BY <2>1, <3>1, OneRequest DEF Moved
    <3> QED BY <2>7, <3>1, <3>2
  <2>9. CASE StartScan(q) \/ (CommitUpload(q) /\ req[q].op = "tus")
    <3>1. PICK c : Moved(q, c) /\ c.pc \in {"scan", "verdict"}
      BY <2>9, ScanMoves, UploadMoves
    <3>2. req'[q] = c
      BY <2>1, <3>1, OneRequest DEF Moved
    <3> QED BY <2>7, <3>1, <3>2
  <2>10. CASE Answer(q)
    <3>1. req'[q] = Free
      BY <2>1, <2>10 DEF Answer, TypeInv
    <3> QED BY <2>3, <2>7, <3>1
  <2> QED BY <1>1, <2>5, <2>6, <2>8, <2>9, <2>10 DEF RequestStep, LoseFirst, Conflict,
        CommitUpload, ScanClean, ScanInfected, CommitText, CommitEdit, Uploads
<1>2. CASE ~\E q \in Req : RequestStep(q)
  <2>1. req' = req
    BY <1>2, OthersStay
  <2>2. Made' = Made
    BY <1>2, OthersFiles DEF FuseCreate, Made
  <2> QED BY <2>1, <2>2 DEF FreshInv, HasNumber
<1> QED BY <1>1, <1>2

\* No step writes over the file of a version whose number no request holds.
LEMMA CopiesStay ==
    ASSUME DocInv, [Next]_vars, NEW n \in Made,
           ~\E q \in Req : HasNumber(q) /\ req[q].num = n
    PROVE  copy'[n] = copy[n]
<1>1. n \in Ver /\ TypeInv
  BY DEF Made, DocInv
<1>2. ASSUME NEW q \in Req, SaveFirst(q) \/ LoseFirst(q)
      PROVE  copy'[n] = copy[n]
  BY <1>2 DEF SaveFirst, LoseFirst, Legacy
<1>3. ASSUME NEW q \in Req, Conflict(q)
      PROVE  copy'[n] = copy[n]
  <2>1. PICK m \in Ver, p \in Rev : copy' = CopyFile(m, p) /\ m = req[q].num /\ HasNumber(q)
    BY <1>3, RefusedCopies
  <2> QED BY <1>1, <2>1, CopyFileIs
<1>4. ASSUME NEW q \in Req, CommitUpload(q) \/ CommitEdit(q)
      PROVE  copy'[n] = copy[n]
  <2>1. PICK m \in Ver \ Made, p \in Rev : copy' = CopyFile(m, p)
    BY <1>4, CommitRows
  <2> QED BY <1>1, <2>1, CopyFileIs
<1>5. ASSUME NEW q \in Req, CommitText(q)
      PROVE  copy'[n] = copy[n]
  <2>1. NewNumber \notin Made /\ (Legacy => Made = {})
    BY <1>5, TextRows DEF Legacy
  <2> QED BY <1>1, <1>5, <2>1, TextRows
<1>6. ASSUME NEW w \in Worker, SaveText(w)
      PROVE  copy'[n] = copy[n]
  BY <1>6 DEF SaveText
<1> QED BY <1>2, <1>3, <1>4, <1>5, <1>6, VersionsStay DEF Versions

\* If no request overlaps another, a version is never changed once it is there: neither its
\* row nor the file kept for it. (versioning.py, process_document_job)
THEOREM VersionsStayFrozen ==
    ASSUME NothingOverlaps
    PROVE  Spec => VersionsAreFrozen
<1>1. Init => LoneInv /\ FreshInv
  BY DEF Init, LoneInv, FreshInv, HasNumber, Free
<1>2. DocInv /\ LoneInv /\ FreshInv /\ [Next]_vars => DocInv' /\ LoneInv' /\ FreshInv'
  BY InvNext, LoneNext, FreshNext
<1>3. DocInv /\ FreshInv /\ [Next]_vars =>
        [\A n \in Made :
          /\ version'[n].made /\ version'[n].kept = version[n].kept
          /\ version[n].content # None => version'[n].content = version[n].content
          /\ version[n].kept => copy'[n] = copy[n]]_vars
  BY RowsNext, CopiesStay DEF RowFrozen, FreshInv
<1> QED BY InvAtInit, <1>1, <1>2, <1>3, PTL DEF Spec, VersionsAreFrozen

-----------------------------------------------------------------------------
(* What was accepted                                                       *)

\* A document that came through FUSE has no versions until its first change. create_text
\* saves the new text as version 1, and of two first edits of an .md file the refused one
\* copies the new file over version 1: in both cases the text that came through FUSE is gone.
FirstChangeIsSafe ==
    "fuse" \in Ops => /\ "create_text" \notin Ops
                      /\ "md" \notin FileTypes \/ NothingOverlaps

\* A version holds a text in its row, or in its file while no request can copy over it.
Claimed(n) == \E q \in Req : HasNumber(q) /\ req[q].num = n
Held(r) == \E n \in Made : \/ version[n].content = r
                           \/ version[n].kept /\ copy[n] = r /\ ~Claimed(n)

\* Requests that write over or unlink the file of the document
Replaces(q) == req[q].first /\ (doc.type = "md" \/ req[q].op \in Uploads)

\* A document without versions: the file holds the text, and so does the first version as
\* soon as it is saved.
HeldByFile(r) ==
    /\ Legacy
    /\ \A q \in Req : req[q].first => version[1].kept /\ copy[1] = r
    /\ disk[doc.path] = r \/ \E q \in Req : Replaces(q)

\* The invariant of what was accepted
LossInv ==
    /\ Legacy => "fuse" \in Ops
    /\ \A q \in Req : req[q].pc \in {"scan", "verdict"} => Held(req[q].rev)
    /\ \A r \in accepted : Held(r) \/ HeldByFile(r)

\* Nothing is accepted at the start.
LEMMA LossAtInit == Init => LossInv
<1> SUFFICES ASSUME Init PROVE LossInv
  OBVIOUS
<1> QED BY DEF Init, LossInv, Legacy, Free

\* A request that saves the first version has a number, and version 1 is not there yet.
LEMMA FirstHasNumber ==
    ASSUME DocInv, NEW q \in Req, req[q].first
    PROVE  HasNumber(q) /\ req[q].num = 2 /\ Legacy /\ 1 \in Ver /\ req[q].op # "create_text"
<1>1. Carries(req[q], last, doc.there) /\ req[q] \in ReqRecord
  BY DEF DocInv, CarriedInv, TypeInv
<1>2. HasNumber(q) /\ req[q].op # "create_text"
  BY <1>1 DEF Carries, HasNumber, ReqRecord, Free
<1>3. PICK k \in 0 .. MaxVer : WellNumbered(k)
  BY DEF DocInv, NumberInv
<1>4. k = 0 /\ req[q].num = 2 /\ doc.there /\ 2 \in Ver /\ Made = {}
  BY <1>2, <1>3 DEF WellNumbered, NumberFits
<1> QED BY <1>2, <1>4, BoundsAssumption DEF Legacy, Ver

\* A request that has a number in a document without versions saves the first.
LEMMA LegacyIsFirst ==
    ASSUME DocInv, NEW q \in Req, HasNumber(q), Legacy
    PROVE  req[q].first
<1>1. PICK k \in 0 .. MaxVer : WellNumbered(k)
  BY DEF DocInv, NumberInv
<1>2. k = 0
  BY <1>1, BoundsAssumption DEF WellNumbered, Legacy
<1> QED BY <1>1, <1>2 DEF WellNumbered, NumberFits, Legacy

\* What is held can be had.
LEMMA LossThen == DocInv /\ LossInv => NoAcceptedChangeIsLost
<1> SUFFICES ASSUME DocInv, LossInv, NEW r \in accepted PROVE Kept(r)
  BY DEF NoAcceptedChangeIsLost
<1>1. CASE Held(r)
  BY <1>1 DEF Held, Kept, Saved
<1>2. CASE HeldByFile(r)
  <2>1. doc.path \in rows
    BY <1>2 DEF HeldByFile, Legacy, DocInv, PlaceInv
  <2>2. ASSUME NEW q \in Req, req[q].first
        PROVE  Kept(r)
    <3>1. 1 \in Saved
      BY <2>2, FirstHasNumber DEF Saved
    <3> QED BY <1>2, <2>2, <3>1 DEF HeldByFile, Kept
  <2> QED BY <1>2, <2>1, <2>2 DEF HeldByFile, Replaces, Kept
<1> QED BY <1>1, <1>2 DEF LossInv

\* A version that holds a text goes on holding it, unless a request takes its number.
LEMMA HeldStays ==
    ASSUME DocInv, [Next]_vars, NEW r \in Rev, Held(r),
           \A n \in Made : Claimed(n)' => Claimed(n)
    PROVE  Held(r)'
<1>1. PICK n \in Made : version[n].content = r \/ (version[n].kept /\ copy[n] = r /\ ~Claimed(n))
  BY DEF Held
<1>2. RowFrozen(n) /\ n \in Ver /\ r # None
  BY RowsNext, BoundsAssumption DEF Made, Rev, None
<1>3. n \in Made'
  BY <1>2 DEF RowFrozen, Made
<1>4. CASE version[n].content = r
  BY <1>2, <1>3, <1>4 DEF RowFrozen, Held
<1>5. CASE version[n].kept /\ copy[n] = r /\ ~Claimed(n)
  <2>1. copy'[n] = r /\ version'[n].kept
    BY <1>2, <1>5, CopiesStay DEF RowFrozen, Claimed
  <2> QED BY <1>3, <1>5, <2>1 DEF Held
<1> QED BY <1>1, <1>4, <1>5

\* No request takes the number of a version that is there.
LEMMA ClaimsStay ==
    ASSUME DocInv, [Next]_vars, NEW n \in Made, Claimed(n)'
    PROVE  Claimed(n)
<1>1. PICK o \in Req : HasNumber(o)' /\ req'[o].num = n
  BY DEF Claimed
<1>2. ASSUME NEW q \in Req, RequestStep(q)
      PROVE  Claimed(n)
  <2>1. TypeInv /\ CarriedInv
    BY DEF DocInv
  <2>2. PICK d : Moved(q, d)
    BY <1>2, RequestMoves
  <2>3. o # q => req'[o] = req[o]
    BY <2>1, <2>2, OneRequest DEF Moved
  <2>4. CASE o # q
    BY <1>1, <2>3, <2>4 DEF Claimed, HasNumber
  <2>5. CASE o = q /\ (TakeNumber(q) \/ SaveFirst(q))
    <3>1. PICK c : Moved(q, c) /\ c.num = NewNumber
      BY <2>5, NumberedMoves DEF TakeNumber, SaveFirst
    <3>2. req'[q] = c
      BY <2>1, <3>1, OneRequest DEF Moved
    <3>3. NewNumber \notin Made
      BY <2>5, NewNumberIsFresh DEF TakeNumber, SaveFirst, Early
    <3> QED BY <1>1, <2>5, <3>1, <3>2, <3>3
  <2>6. CASE o = q /\ (UnlinkOld(q) \/ WriteBack(q))
    <3>1. PICK c : Moved(q, c) /\ Same(c, q)
      BY <2>6, UnlinkMoves, WriteMoves
    <3>2. req'[q] = c
      BY <2>1, <3>1, OneRequest DEF Moved
    <3>3. req[q].pc \in {"unlink", "write"}
      BY <2>6 DEF UnlinkOld, WriteBack, At
    <3> QED BY <1>1, <2>6, <3>1, <3>2, <3>3 DEF HasNumber, Same, Claimed
  <2>7. ASSUME NEW op \in Uploads \cup {"edit"}, Begin(q, op), op = "edit" => doc.there, o = q
        PROVE  FALSE
    <3>1. PICK c : Moved(q, c) /\ c.op = op /\ c.pc = IF op = "create_text" THEN "unlink" ELSE "number"
      BY <2>7, BeginMoves
    <3>2. req'[q] = c
      BY <2>1, <3>1, OneRequest DEF Moved
    <3> QED BY <1>1, <2>7, <3>1, <3>2 DEF HasNumber
  <2>8. ASSUME StartScan(q) \/ (CommitUpload(q) /\ req[q].op = "tus"), o = q
        PROVE  FALSE
    <3>1. PICK c : Moved(q, c) /\ c.pc \in {"scan", "verdict"}
      BY <2>8, ScanMoves, UploadMoves
    <3>2. req'[q] = c
      BY <2>1, <3>1, OneRequest DEF Moved
    <3> QED BY <1>1, <2>8, <3>1, <3>2 DEF HasNumber
  <2>9. ASSUME Answer(q), o = q
        PROVE  FALSE
    <3>1. req'[q] = Free /\ Free.pc = "free"
      BY <2>1, <2>9 DEF Answer, TypeInv, Free
    <3> QED BY <1>1, <2>9, <3>1 DEF HasNumber
  <2> QED BY <1>2, <2>4, <2>5, <2>6, <2>7, <2>8, <2>9 DEF RequestStep, LoseFirst, Conflict,
        CommitUpload, ScanClean, ScanInfected, CommitText, CommitEdit, Uploads
<1>3. CASE ~\E q \in Req : RequestStep(q)
  BY <1>1, <1>3, OthersStay DEF Claimed, HasNumber
<1> QED BY <1>2, <1>3

\* At most one request is under way where nothing overlaps.
Alone == NothingOverlaps => LoneInv

\* Every step of a request but the commit of an upload leaves the place of the file alone.
LEMMA PlaceStays ==
    ASSUME DocInv, NEW q \in Req, RequestStep(q), ~CommitUpload(q), ~CommitText(q)
    PROVE  /\ rows' = rows /\ doc'.there = doc.there /\ doc'.path = doc.path
           /\ doc'.type = doc.type
<1>1. TypeInv
  BY DEF DocInv
<1> QED BY <1>1 DEF TypeInv, TypeOK, RequestStep, Begin, TakeNumber, SaveFirst, LoseFirst,
        UnlinkOld, Conflict, StartScan, ScanClean, ScanInfected, WriteBack, CommitEdit

\* A document keeps its type.
LEMMA TypeStays ==
    ASSUME DocInv, Next \/ UNCHANGED vars, ~\E q \in Req : RequestStep(q)
    PROVE  doc'.type = doc.type
<1>1. TypeInv
  BY DEF DocInv
<1> QED BY <1>1 DEF TypeInv, TypeOK, Next, FuseCreate, Uploaded, PutFile, Reindex, Restore,
        WorkerStep, Take, SetParsing, Parse, ParseRaises, SaveText, SkipVideo, MarkDone,
        Kill, Recover, vars

\* The commit of a change makes a version of it; in a document without versions it commits
\* the first one too.
LEMMA CommitHolds ==
    ASSUME UploadsOverlapNothing, FirstChangeIsSafe, DocInv, FilesInv, LossInv,
           NEW q \in Req, CommitUpload(q) \/ CommitText(q) \/ CommitEdit(q),
           NEW new \in Rev, new = req[q].rev
    PROVE  /\ Held(new)' /\ Made' # {}
           /\ \A r \in Rev : HeldByFile(r) => Held(r)'
<1>1. RequestStep(q) /\ [Next]_vars /\ TypeInv /\ CarriedInv /\ UploadFits(q)
  BY DEF RequestStep, Next, DocInv, FilesInv
<1>2. req[q].pc = "commit" /\ req[q].rev \in Rev /\ req[q].rev # None
  BY AtCommit DEF CommitUpload, CommitText, CommitEdit, At
<1>3. ~HasNumber(q)'
  <2>1. CASE Answer(q)
    <3>1. req'[q] = Free /\ Free.pc = "free"
      BY <1>1, <2>1 DEF Answer, TypeInv, Free
    <3> QED BY <3>1 DEF HasNumber
  <2>2. CASE CommitUpload(q) /\ req[q].op = "tus"
    <3>1. PICK c : Moved(q, c) /\ c.pc = "scan"
      BY <2>2, UploadMoves
    <3>2. req'[q] = c
      BY <1>1, <3>1, OneRequest DEF Moved
    <3> QED BY <3>1, <3>2 DEF HasNumber
  <2> QED BY <2>1, <2>2 DEF CommitUpload, CommitText, CommitEdit
<1>4. \A o \in Req \ {q} : req'[o] = req[o] /\ (req[q].op \in Uploads => req[o] = Free)
  BY <1>1, OthersFit
<1>5. CASE CommitUpload(q)
  <2>1. req[q].op \in Uploads /\ req[q].op # "edit" /\ RowsOf(q) = {req[q].rev}
    BY <1>1, <1>2, <1>5 DEF CommitUpload, Uploads, UploadFits, RowsOf
  <2>2. disk[req[q].rev] = req[q].rev
    BY <1>1, <1>2, <2>1 DEF UploadFits
  <2>3. Free.pc = "free"
    BY DEF Free
  <2>4. \A n : ~Claimed(n)'
    BY <1>3, <1>4, <2>1, <2>3 DEF Claimed, HasNumber
  <2>5. PICK n \in Ver : /\ n = req[q].num /\ n \notin Made
                         /\ copy' = CopyFile(n, req[q].rev)
                         /\ version'[n].made /\ (version'[n].kept <=> disk[req[q].rev] # None)
                         /\ \A m \in Ver \ {n} :
                              /\ version'[m].kept = version[m].kept
                              /\ version'[m].made <=> version[m].made \/ (m = 1 /\ req[q].first)
    BY <1>5, <2>1, CommitRows
  <2>6. copy'[n] = req[q].rev /\ \A m \in Ver \ {n} : copy'[m] = copy[m]
    BY <1>1, <1>2, <2>2, <2>5, CopyFileIs
  <2>7. Held(new)' /\ Made' # {}
    BY <1>2, <2>2, <2>4, <2>5, <2>6 DEF Held, Made
  <2>8. ASSUME NEW r \in Rev, HeldByFile(r)
        PROVE  Held(r)'
    <3>1. req[q].first
      BY <1>5, <2>8, CommitMakes, LegacyIsFirst DEF HeldByFile
    <3>2. version[1].kept /\ copy[1] = r /\ 1 \in Ver \ {n}
      BY <2>5, <2>8, <3>1, FirstHasNumber DEF HeldByFile
    <3> QED BY <2>4, <2>5, <2>6, <3>1, <3>2 DEF Held, Made
  <2> QED BY <2>7, <2>8
<1>6. CASE CommitEdit(q)
  <2>1. req[q].op = "edit"
    BY <1>6 DEF CommitEdit, At
  <2>2. PICK n \in Ver, p \in Rev :
           /\ n = req[q].num /\ n \notin Made
           /\ copy' = CopyFile(n, p) /\ version'[n].made /\ version'[n].content = req[q].rev
           /\ \A m \in Ver \ {n} :
                /\ version'[m].kept = version[m].kept
                /\ version'[m].made <=> version[m].made \/ (m = 1 /\ req[q].first)
    BY <1>6, <2>1, CommitRows
  <2>3. Held(new)' /\ Made' # {}
    BY <2>2 DEF Held, Made
  <2>4. ASSUME NEW r \in Rev, HeldByFile(r)
        PROVE  Held(r)'
    <3>1. req[q].first
      BY <1>6, <2>4, CommitMakes, LegacyIsFirst DEF HeldByFile
    <3>2. version[1].kept /\ copy[1] = r /\ 1 \in Ver \ {n}
      BY <2>2, <2>4, <3>1, FirstHasNumber DEF HeldByFile
    <3>3. copy'[1] = r /\ version'[1].kept /\ version'[1].made
      BY <1>1, <2>2, <3>1, <3>2, CopyFileIs
    <3>4. ~Claimed(1)'
      <4>1. \A o \in Req \ {q} : ~HasNumber(o)
        BY <2>4, <3>1, LegacyIsFirst DEF HeldByFile, DocInv, FirstInv
      <4> QED BY <1>3, <1>4, <4>1 DEF Claimed, HasNumber
    <3> QED BY <3>2, <3>3, <3>4 DEF Held, Made
  <2> QED BY <2>3, <2>4
<1>7. CASE CommitText(q)
  <2>1. req[q].op = "create_text" /\ req[q].op \in Uploads /\ RowsOf(q) = {req[q].rev}
    BY <1>1, <1>2, <1>7 DEF CommitText, At, Uploads, UploadFits, RowsOf
  <2>2. disk[req[q].rev] = req[q].rev
    BY <1>1, <1>2, <2>1 DEF UploadFits
  <2>3. Free.pc = "free"
    BY DEF Free
  <2>4. \A n : ~Claimed(n)'
    BY <1>3, <1>4, <2>1, <2>3 DEF Claimed, HasNumber
  <2>5. /\ NewNumber \in Ver /\ copy'[NewNumber] = CopyFile(NewNumber, req[q].rev)[NewNumber]
        /\ version'[NewNumber].made /\ (version'[NewNumber].kept <=> disk[req[q].rev] # None)
    BY <1>7, <2>1, TextRows
  <2>6. copy'[NewNumber] = req[q].rev
    BY <1>1, <1>2, <2>2, <2>5, CopyFileIs
  <2>7. Held(new)' /\ Made' # {}
    BY <1>2, <2>2, <2>4, <2>5, <2>6 DEF Held, Made
  <2>8. "create_text" \in Ops
    BY <1>1, <1>2, <2>1 DEF CarriedInv, Carries
  <2>9. ~Legacy
    BY <2>8 DEF FirstChangeIsSafe, LossInv
  <2> QED BY <2>7, <2>9 DEF HeldByFile
<1> QED BY <1>5, <1>6, <1>7

\* A step that changes neither the file nor the first version leaves HeldByFile alone.
LEMMA SameFile ==
    ASSUME NEW r, HeldByFile(r), Made' = Made, doc'.there = doc.there, doc'.path = doc.path,
           disk'[doc.path] = disk[doc.path], copy'[1] = copy[1], version'[1].kept = version[1].kept,
           \A q \in Req : /\ req'[q].first => req[q].first
                          /\ Replaces(q) => Replaces(q)'
    PROVE  HeldByFile(r)'
  BY DEF HeldByFile, Legacy

\* Until the document has a version, the file holds what was accepted: a request that
\* replaces the file has saved the first version before.
LEMMA FileHolds ==
    ASSUME UploadsOverlapNothing, FirstChangeIsSafe, DocInv, FilesInv, Alone, LossInv,
           NEW q \in Req, RequestStep(q), NEW r \in accepted, HeldByFile(r), Made' = {}
    PROVE  HeldByFile(r)'
<1>1. /\ TypeInv /\ CarriedInv /\ PlaceInv /\ PresentInv /\ r \in Rev
      /\ Carries(req[q], last, doc.there) /\ req[q] \in ReqRecord
  BY DEF DocInv, FilesInv, CarriedInv, TypeInv, TypeOK
<1>2. /\ Made = {} /\ doc.there /\ Legacy /\ rows = {doc.path} /\ doc.path \in Rev
      /\ "fuse" \in Ops /\ r # None
  BY <1>1, BoundsAssumption DEF HeldByFile, Legacy, PresentInv, LossInv, TypeInv, TypeOK, Rev, None
<1>3. ~CommitUpload(q) /\ ~CommitText(q) /\ ~CommitEdit(q)
  BY CommitMakes, TextMakes
<1>4. /\ rows' = rows /\ doc'.there = doc.there /\ doc'.path = doc.path /\ doc'.type = doc.type
  BY <1>3, PlaceStays
<1>5. \A o \in Req \ {q} : req'[o] = req[o] /\ req[o].op \notin Uploads
  BY OthersFit
<1>6. Free.first = FALSE /\ Free.pc = "free"
  BY DEF Free
<1>7. HasNumber(q) => req[q].first
  BY <1>2, LegacyIsFirst
<1>8. ASSUME NEW op \in Uploads \cup {"edit"}, Begin(q, op), op = "edit" => doc.there
      PROVE  HeldByFile(r)'
  <2>1. PICK c : Moved(q, c) /\ ~c.first
    BY <1>8, BeginMoves
  <2>2. req'[q] = c /\ ~req[q].first
    BY <1>1, <1>6, <1>8, <2>1, OneRequest DEF Moved, Begin
  <2>3. disk'[doc.path] = disk[doc.path]
    <3>1. doc.path \in 1 .. last /\ last \in Nat
      BY <1>1, <1>2, BoundsAssumption DEF PlaceInv, TypeInv, TypeOK
    <3>2. doc.path # last + 1
      BY <3>1
    <3> QED BY <1>1, <1>2, <1>8, <3>2 DEF Begin, TypeInv, TypeOK
  <2>4. UNCHANGED <<version, copy>> /\ Made' = Made
    BY <1>8 DEF Begin, Made
  <2> QED BY <1>4, <1>5, <2>1, <2>2, <2>3, <2>4, SameFile DEF Replaces
<1>9. CASE SaveFirst(q)
  <2>1. \A o \in Req : ~req[o].first
    BY <1>9 DEF SaveFirst
  <2>2. disk[doc.path] = r
    BY <2>1 DEF HeldByFile, Replaces
  <2>3. copy' = CopyFile(1, doc.path) /\ 1 \in Ver /\ (version'[1].kept <=> disk[doc.path] # None)
    BY <1>2, <1>9, SaveFirstRows
  <2>4. copy'[1] = r /\ version'[1].kept
    BY <1>1, <1>2, <2>2, <2>3, CopyFileIs
  <2>5. disk' = disk
    BY <1>9 DEF SaveFirst
  <2> QED BY <1>2, <1>4, <2>2, <2>4, <2>5 DEF HeldByFile, Legacy
<1>10. CASE LoseFirst(q)
  <2>1. PICK o \in Req : req[o].first
    BY <1>10 DEF LoseFirst
  <2>2. req[q].pc = "number" /\ o # q /\ req[o] # Free /\ req[q] # Free
    BY <1>1, <1>6, <1>10, <2>1 DEF LoseFirst, Carries
  <2>3. disk[doc.path] = r
    <3>1. ASSUME NEW a \in Req, Replaces(a)
          PROVE  FALSE
      <4>1. a = o /\ req[o].op \notin Uploads
        BY <1>5, <2>1, <2>2, <3>1 DEF Replaces, DocInv, FirstInv
      <4>2. doc.type = "md"
        BY <3>1, <4>1 DEF Replaces
      <4>3. NothingOverlaps
        BY <1>1, <1>2, <4>2 DEF FirstChangeIsSafe, TypeInv, TypeOK
      <4> QED BY <2>2, <4>3 DEF Alone, LoneInv
    <3> QED BY <3>1 DEF HeldByFile
  <2>4. version' = version /\ copy' = CopyFile(1, doc.path) /\ disk' = disk
    BY <1>2, <1>10 DEF LoseFirst
  <2>5. copy'[1] = r /\ version'[1].kept
    BY <1>1, <1>2, <2>1, <2>3, <2>4, FirstHasNumber, CopyFileIs DEF HeldByFile
  <2> QED BY <1>2, <1>4, <2>3, <2>4, <2>5 DEF HeldByFile, Legacy
<1>11. CASE UnlinkOld(q) \/ WriteBack(q)
  <2>1. PICK c : Moved(q, c) /\ Same(c, q) /\ c.first = req[q].first
    BY <1>11, UnlinkMoves, WriteMoves
  <2>2. req'[q] = c
    BY <1>1, <2>1, OneRequest DEF Moved
  <2>3. UNCHANGED <<version, copy>> /\ Made' = Made
    BY <1>11 DEF UnlinkOld, WriteBack, Made
  <2>4. \A o \in Req : /\ req'[o].first => req[o].first
                       /\ Replaces(o) => Replaces(o)'
    BY <1>4, <1>5, <2>1, <2>2 DEF Replaces, Same
  <2>5. CASE UnlinkOld(q)
    <3>1. req[q].op \in Uploads /\ req[q].op \in Ops /\ req[q].pc = "unlink"
      BY <1>1, <2>5 DEF UnlinkOld, Carries
    <3>2. HasNumber(q)
      BY <1>2, <3>1 DEF HasNumber, FirstChangeIsSafe
    <3>3. Replaces(q)'
      BY <1>7, <2>4, <3>1, <3>2 DEF Replaces
    <3> QED BY <1>2, <1>4, <2>3, <2>4, <3>3 DEF HeldByFile, Legacy
  <2>6. CASE WriteBack(q)
    <3>1. HasNumber(q)
      BY <2>6 DEF WriteBack, HasNumber, At
    <3>2. CASE doc.type = "md"
      <4>1. Replaces(q)'
        BY <1>7, <2>4, <3>1, <3>2 DEF Replaces
      <4> QED BY <1>2, <1>4, <2>3, <2>4, <4>1 DEF HeldByFile, Legacy
    <3>3. CASE doc.type # "md"
      <4>1. disk' = disk
        BY <2>6, <3>3 DEF WriteBack
      <4> QED BY <1>4, <2>3, <2>4, <4>1, SameFile
    <3> QED BY <3>2, <3>3
  <2> QED BY <1>11, <2>5, <2>6
<1>12. ASSUME Conflict(q) PROVE FALSE
  BY <1>2, <1>12, RefusedCopies
<1>13. ASSUME StartScan(q) \/ ScanClean(q) \/ ScanInfected(q) PROVE FALSE
  BY <1>2, <1>13 DEF StartScan, ScanClean, ScanInfected, At, LossInv, Held
<1>14. ASSUME TakeNumber(q) PROVE FALSE
  BY <1>2, <1>14 DEF TakeNumber
<1> QED BY <1>3, <1>8, <1>9, <1>10, <1>11, <1>12, <1>13, <1>14 DEF RequestStep, Uploads

\* The same for the other steps: a saved file is not counted as accepted any more.
LEMMA FileStaysHeld ==
    ASSUME DocInv, FilesInv, Next \/ UNCHANGED vars, ~\E q \in Req : RequestStep(q),
           NEW r \in accepted, r \in accepted', HeldByFile(r)
    PROVE  HeldByFile(r)'
<1>1. /\ TypeInv /\ PresentInv /\ PlaceInv
  BY DEF DocInv, FilesInv
<1>2. /\ Made = {} /\ doc.there /\ rows = {doc.path} /\ doc.path \in Rev
  BY <1>1 DEF HeldByFile, Legacy, PresentInv, TypeInv, TypeOK
<1>3. ~FuseCreate /\ \A n \in Ver : ~Restore(n)
  BY <1>2 DEF FuseCreate, Restore, Made
<1>4. /\ doc'.there = doc.there /\ doc'.path = doc.path /\ Made' = Made /\ req' = req
      /\ doc'.type = doc.type
  BY <1>3, OthersFiles, OthersStay, TypeStays
<1>5. \A q \in Req : /\ req'[q].first => req[q].first
                     /\ Replaces(q) => Replaces(q)'
  BY <1>4 DEF Replaces
<1>6. CASE PutFile
  <2>1. UNCHANGED <<version, copy>> /\ disk[doc.path] # r
    BY <1>2, <1>6 DEF PutFile
  <2>2. \E q \in Req : Replaces(q)
    BY <2>1 DEF HeldByFile
  <2> QED BY <1>2, <1>4, <1>5, <2>1, <2>2 DEF HeldByFile, Legacy
<1>7. ASSUME NEW w \in Worker, WorkerStep(w)
      PROVE  HeldByFile(r)'
  <2>1. UNCHANGED <<disk, copy>>
    BY <1>7 DEF WorkerStep, Take, SetParsing, Parse, ParseRaises, SaveText, SkipVideo, MarkDone
  <2>2. (\E q \in Req : req[q].first) => version'[1].kept = version[1].kept
    <3>1. SaveText(w) /\ (\E q \in Req : req[q].first) => version'[1].kept = version[1].kept
      BY FirstHasNumber, SaveTextRows
    <3> QED BY <1>7, <3>1 DEF WorkerStep, Take, SetParsing, Parse, ParseRaises, SkipVideo, MarkDone
  <2> QED BY <1>2, <1>4, <1>5, <2>1, <2>2 DEF HeldByFile, Legacy
<1>8. CASE Reindex \/ Kill \/ Recover \/ UNCHANGED vars
  <2>1. UNCHANGED <<disk, copy, version>>
    BY <1>8 DEF Reindex, Kill, Recover, vars
  <2> QED BY <1>4, <1>5, <2>1, SameFile
<1> QED BY <1>3, <1>6, <1>7, <1>8 DEF Next

\* What was accepted, before or by this step, is held after it.
LEMMA AcceptedNext ==
    ASSUME UploadsOverlapNothing, FirstChangeIsSafe, DocInv, FilesInv, Alone, LossInv,
           [Next]_vars, NEW r \in accepted'
    PROVE  Held(r)' \/ HeldByFile(r)'
<1>1. /\ TypeInv /\ CarriedInv /\ PlaceInv /\ rows \subseteq Rev
  BY DEF DocInv, TypeInv, TypeOK
<1>2. ASSUME NEW x \in Rev, Held(x)
      PROVE  Held(x)'
  BY <1>2, HeldStays, ClaimsStay
<1>3. CASE r \in accepted
  <2>1. r \in Rev
    BY <1>1, <1>3 DEF TypeInv, TypeOK
  <2>2. CASE Held(r)
    BY <1>2, <2>1, <2>2
  <2>3. CASE HeldByFile(r)
    <3>1. ASSUME NEW q \in Req, RequestStep(q)
          PROVE  Held(r)' \/ HeldByFile(r)'
      <4>1. CASE CommitUpload(q) \/ CommitText(q) \/ CommitEdit(q)
        <5>1. req[q].rev \in Rev
          BY <4>1, AtCommit DEF CommitUpload, CommitText, CommitEdit, At
        <5> QED BY <2>1, <2>3, <4>1, <5>1, CommitHolds
      <4>2. CASE ~(CommitUpload(q) \/ CommitText(q) \/ CommitEdit(q))
        <5>1. Made' = Made
          BY <3>1, <4>2, SaveFirstMakesNone DEF RequestStep, Begin, TakeNumber, LoseFirst,
             UnlinkOld, Conflict, StartScan, ScanClean, ScanInfected, WriteBack, Made
        <5>2. Made = {}
          BY <2>3 DEF HeldByFile, Legacy
        <5> QED BY <1>3, <2>3, <3>1, <5>1, <5>2, FileHolds
      <4> QED BY <4>1, <4>2
    <3>2. CASE ~\E q \in Req : RequestStep(q)
      BY <1>3, <2>3, <3>2, FileStaysHeld
    <3> QED BY <3>1, <3>2
  <2> QED BY <1>3, <2>2, <2>3 DEF LossInv
<1>4. CASE r \notin accepted
  <2>1. ASSUME NEW q \in Req, RequestStep(q)
        PROVE  Held(r)'
    <3>1. CASE CommitUpload(q) \/ CommitText(q) \/ CommitEdit(q)
      <4>1. r = req[q].rev
        BY <1>4, <3>1 DEF CommitUpload, CommitText, CommitEdit
      <4>2. req[q].rev \in Rev
        BY <3>1, AtCommit DEF CommitUpload, CommitText, CommitEdit, At
      <4> QED BY <3>1, <4>1, <4>2, CommitHolds
    <3>2. CASE ScanClean(q)
      <4>1. r = req[q].rev /\ req[q].pc = "verdict"
        BY <1>4, <3>2 DEF ScanClean, At
      <4>2. req[q].rev \in Rev
        BY <4>1, AtCommit
      <4> QED BY <1>2, <4>1, <4>2 DEF LossInv
    <3>3. CASE accepted' = accepted
      BY <1>4, <3>3
    <3> QED BY <2>1, <3>1, <3>2, <3>3 DEF RequestStep, Begin, TakeNumber, SaveFirst, LoseFirst,
             UnlinkOld, Conflict, StartScan, ScanInfected, WriteBack
  <2>2. CASE FuseCreate
    <3>1. /\ ~doc.there /\ r = last + 1 /\ last + 1 \in Rev /\ doc'.there /\ doc'.path = last + 1
          /\ UNCHANGED <<version, req>> /\ disk' = [disk EXCEPT ![last + 1] = last + 1]
          /\ \A q \in Req : req[q].num = None
      BY <1>1, <1>4, <2>2, BoundsAssumption DEF FuseCreate, Uploaded, OneCreator, PlaceInv,
         TypeInv, TypeOK, Rev
    <3>2. \A q \in Req : ~req[q].first
      BY <3>1, FirstHasNumber DEF None
    <3>3. Made' = {}
      BY <1>1, <3>1 DEF Made, PlaceInv
    <3> QED BY <1>1, <3>1, <3>2, <3>3 DEF HeldByFile, Legacy, TypeInv, TypeOK
  <2>3. CASE ~FuseCreate /\ ~\E q \in Req : RequestStep(q)
    <3>1. accepted' \subseteq accepted
      BY <2>3 DEF Next, vars, PutFile, Reindex, Restore, WorkerStep, Take, SetParsing, Parse,
             ParseRaises, SaveText, SkipVideo, MarkDone, Kill, Recover
    <3> QED BY <1>4, <3>1
  <2> QED BY <2>1, <2>2, <2>3
<1> QED BY <1>3, <1>4

\* The text of an upload that is being scanned is held by its version.
LEMMA ScannedNext ==
    ASSUME UploadsOverlapNothing, FirstChangeIsSafe, DocInv, FilesInv, LossInv,
           [Next]_vars, NEW o \in Req, req'[o].pc \in {"scan", "verdict"}
    PROVE  \E r \in Rev : req'[o].rev = r /\ Held(r)'
<1>1. TypeInv /\ CarriedInv
  BY DEF DocInv
<1>2. ASSUME req[o].pc \in {"scan", "verdict"}, req'[o].rev = req[o].rev
      PROVE  \E r \in Rev : req'[o].rev = r /\ Held(r)'
  <2>1. PICK r \in Rev : r = req[o].rev
    BY <1>2, AtCommit
  <2>2. Held(r)
    BY <1>2, <2>1 DEF LossInv
  <2> QED BY <1>2, <2>1, <2>2, HeldStays, ClaimsStay
<1>3. ASSUME NEW q \in Req, RequestStep(q)
      PROVE  \E r \in Rev : req'[o].rev = r /\ Held(r)'
  <2>1. PICK d : Moved(q, d)
    BY <1>3, RequestMoves
  <2>2. o # q => req'[o] = req[o]
    BY <1>1, <2>1, OneRequest DEF Moved
  <2>3. CASE o # q
    BY <1>2, <2>2, <2>3
  <2>4. CASE o = q /\ StartScan(q)
    <3>1. PICK c : Moved(q, c) /\ Same(c, q)
      BY <2>4, ScanMoves
    <3>2. req'[q] = c
      BY <1>1, <3>1, OneRequest DEF Moved
    <3> QED BY <1>2, <2>4, <3>1, <3>2 DEF Same, StartScan, At
  <2>5. CASE o = q /\ CommitUpload(q) /\ req[q].op = "tus"
    <3>1. PICK c : Moved(q, c) /\ Same(c, q)
      BY <2>5, UploadMoves
    <3>2. req'[q] = c
      BY <1>1, <3>1, OneRequest DEF Moved
    <3>3. PICK r \in Rev : r = req[q].rev
      BY <2>5, AtCommit DEF CommitUpload
    <3>4. Held(r)'
      BY <2>5, <3>3, CommitHolds
    <3> QED BY <2>5, <3>1, <3>2, <3>3, <3>4 DEF Same
  <2>6. ASSUME o = q, Answer(q)
        PROVE  FALSE
    BY <1>1, <2>6 DEF Answer, TypeInv, Free
  <2>7. ASSUME o = q, TakeNumber(q) \/ SaveFirst(q)
        PROVE  FALSE
    <3>1. PICK c : Moved(q, c) /\ c.pc \in {"write", "unlink"}
      BY <2>7, NumberedMoves DEF TakeNumber, SaveFirst
    <3>2. req'[q] = c
      BY <1>1, <3>1, OneRequest DEF Moved
    <3> QED BY <2>7, <3>1, <3>2
  <2>8. ASSUME o = q, UnlinkOld(q) \/ WriteBack(q)
        PROVE  FALSE
    <3>1. PICK c : Moved(q, c) /\ c.pc = "commit"
      BY <2>8, UnlinkMoves, WriteMoves
    <3>2. req'[q] = c
      BY <1>1, <3>1, OneRequest DEF Moved
    <3> QED BY <2>8, <3>1, <3>2
  <2>9. ASSUME o = q, NEW op \in Uploads \cup {"edit"}, Begin(q, op), op = "edit" => doc.there
        PROVE  FALSE
    <3>1. PICK c : Moved(q, c) /\ c.pc \in {"unlink", "number"}
      BY <2>9, BeginMoves
    <3>2. req'[q] = c
      BY <1>1, <3>1, OneRequest DEF Moved
    <3> QED BY <2>9, <3>1, <3>2
  <2> QED BY <1>3, <2>3, <2>4, <2>5, <2>6, <2>7, <2>8, <2>9 DEF RequestStep, LoseFirst,
        Conflict, CommitUpload, ScanClean, ScanInfected, CommitText, CommitEdit, Uploads
<1>4. CASE ~\E q \in Req : RequestStep(q)
  BY <1>2, <1>4, OthersStay
<1> QED BY <1>3, <1>4

\* Only FUSE makes a document without versions.
LEMMA LegacyNext ==
    ASSUME UploadsOverlapNothing, FirstChangeIsSafe, DocInv, FilesInv, LossInv, [Next]_vars, Legacy'
    PROVE  "fuse" \in Ops
<1>1. Made \subseteq Made'
  BY RowsNext DEF RowFrozen, Made
<1>2. Made' = {} /\ doc'.there
  BY DEF Legacy
<1>3. ASSUME NEW q \in Req, RequestStep(q)
      PROVE  doc'.there = doc.there
  <2>1. CASE CommitUpload(q) \/ CommitText(q)
    BY <1>2, <2>1, CommitMakes, TextMakes
  <2> QED BY <1>3, <2>1, PlaceStays
<1>4. CASE FuseCreate
  BY <1>4 DEF FuseCreate
<1>5. CASE ~FuseCreate /\ ~\E q \in Req : RequestStep(q)
  <2>1. doc'.there = doc.there
    BY <1>5, OthersFiles
  <2> QED BY <1>1, <1>2, <2>1 DEF Legacy, LossInv
<1> QED BY <1>1, <1>2, <1>3, <1>4, <1>5 DEF Legacy, LossInv

\* The invariant of what was accepted is inductive.
LEMMA LossNext ==
    ASSUME UploadsOverlapNothing, FirstChangeIsSafe, DocInv, FilesInv, Alone, LossInv, [Next]_vars
    PROVE  LossInv'
<1>1. \A q \in Req : req'[q].pc \in {"scan", "verdict"} => Held(req[q].rev)'
  BY ScannedNext DEF Held
<1> QED BY <1>1, LegacyNext, AcceptedNext DEF LossInv

\* If no other request overlaps an upload, and a FUSE document gets its first version from
\* one change at a time that is no new text, then whatever edits, saves, restores, jobs and
\* kills overlap, a text whose upload or edit was answered with success can still be had.
\* (versioning.py, tus_hook, _ingest_single_file, update_document)
THEOREM NothingIsLost ==
    ASSUME UploadsOverlapNothing, FirstChangeIsSafe
    PROVE  Spec => []NoAcceptedChangeIsLost
<1>1. Init => Alone
  BY DEF Init, Alone, LoneInv
<1>2. DocInv /\ FilesInv /\ Alone /\ LossInv /\ [Next]_vars =>
        DocInv' /\ FilesInv' /\ Alone' /\ LossInv'
  BY InvNext, FilesNext, LoneNext, LossNext DEF Alone
<1>3. Spec => [](DocInv /\ FilesInv /\ Alone /\ LossInv)
  BY InvAtInit, FilesAtInit, LossAtInit, <1>1, <1>2, PTL DEF Spec
<1> QED BY <1>3, LossThen, PTL

-----------------------------------------------------------------------------
(* The index                                                               *)

\* One worker that is not killed, documents whose text is extracted, uploads that are alone,
\* and no change of a text that leaves the file or the index behind by itself.
OneByOne ==
    /\ UploadsOverlapNothing
    /\ \A v, w \in Worker : v = w
    /\ MaxKilled = 0
    /\ Ops \cap {"edit", "wopi"} = {}
    /\ "video" \notin FileTypes

\* Jobs run in the order in which they were created, each until it ends.
LineInv ==
    /\ Created = 1 .. Cardinality(Created)
    /\ \A i, j \in Job : i < j /\ stage[j] \in {"taken", "ended"} => stage[i] = "ended"
    /\ \A j \in Job : stage[j] = "taken" => holders[j] # {} /\ tries[j] # 0
    /\ \A j \in Job : \A w \in holders[j] : run[w].pc # "off" /\ run[w].job = j
    /\ \A w \in Worker :
          /\ run[w].pc = "off" => run[w] = Off
          /\ run[w].pc # "off" => stage[run[w].job] = "taken" /\ holders[run[w].job] = {w}

\* The newest job has the path of the document, unless an upload is about to create it. (An
\* infected document may have none for its file.)
Newest(j) == j \in Created /\ \A i \in Created : i <= j
ScanInv == \A q \in Req : req[q].pc \in {"scan", "verdict"} => doc.path = req[q].rev
NewestInv ==
    /\ doc.there /\ doc.scan # "infected"
    /\ \A q \in Req : req[q].pc \notin {"scan", "verdict"}
    => \E j \in Job : Newest(j) /\ path[j] = doc.path

\* Work is to come: a job waits, or an upload is past the unlinking of the old file.
Replacing(q) == req[q].op \in Uploads /\ req[q].pc \in {"commit", "scan", "verdict"}
ToCome == (\E j \in Job : stage[j] = "waiting") \/ \E q \in Req : Replacing(q)

\* With no work to come, the worker has the text of the file, then the search has it, and a
\* document that is done has been indexed.
Indexed == doc.content = disk[doc.path] /\ doc.chunks = {doc.content}
WorkInv ==
    doc.there /\ doc.scan # "infected" /\ ~ToCome =>
       /\ \A w \in Worker : /\ run[w].pc = "save" => run[w].text = disk[doc.path]
                            /\ run[w].pc = "summarize" => Indexed
       /\ (\A w \in Worker : run[w].pc = "off") /\ doc.status = "done" => Indexed
StatusInv == \A w \in Worker : run[w].pc \in {"parse", "save", "summarize"} => doc.status # "done"

IndexInv == LineInv /\ ScanInv /\ NewestInv /\ WorkInv /\ StatusInv

\* It holds at the start.
LEMMA IndexAtInit == Init => IndexInv
<1> SUFFICES ASSUME Init PROVE IndexInv
  OBVIOUS
<1>1. Created = {} /\ Cardinality(Created) = 0
  BY FS_EmptySet DEF Init, Created, Queue!Init
<1>2. Created = 1 .. Cardinality(Created)
  BY <1>1
<1>3. LineInv
  BY <1>2 DEF Init, LineInv, Queue!Init, Off
<1> QED  BY <1>3 DEF Init, IndexInv, ScanInv, NewestInv, WorkInv, StatusInv, Free, Off

\* The jobs that were created are numbered 1 to some k.
LEMMA CreatedIs ==
    ASSUME DocInv, LineInv
    PROVE  \E k \in Nat : Created = 1 .. k /\ k = Cardinality(Created)
<1>1. IsFiniteSet(Created)
  BY FS_Interval, FS_Subset, BoundsAssumption DEF Created, Job
<1> QED  BY <1>1, FS_CardinalityType DEF LineInv

\* A new job is the newest, and waits.
LEMMA NewJobWaits ==
    ASSUME DocInv, LineInv, NEW p \in Rev, CreateJob(p), run' = run
    PROVE  LineInv' /\ \E j \in Job : Newest(j)' /\ path'[j] = p /\ stage'[j] = "waiting"
<1>1. PICK k \in Nat : Created = 1 .. k /\ k = Cardinality(Created)
  BY CreatedIs
<1>2. PICK j \in Job :
         /\ j = k + 1 /\ stage[j] = "absent" /\ stage' = [stage EXCEPT ![j] = "waiting"]
         /\ holders' = holders /\ path' = [path EXCEPT ![j] = p] /\ tries' = tries
  BY <1>1 DEF CreateJob, Queue!Submit
<1>3. /\ stage \in [Job -> {"absent", "waiting", "taken", "ended"}]
      /\ path \in [Job -> 0 .. MaxRev] /\ run \in [Worker -> RunRecord]
  BY DEF DocInv, TypeInv, TypeOK
<1>4. stage'[j] = "waiting" /\ path'[j] = p /\ \A i \in Job : i # j => stage'[i] = stage[i]
  BY <1>2, <1>3
<1>5. Created' = 1 .. k + 1
  <2>1. Created' = Created \cup {j}
    <3>1. \A i \in Job : i \in Created' <=> i \in Created \/ i = j
      BY <1>4 DEF Created
    <3>2. Created \subseteq Job /\ Created' \subseteq Job
      BY DEF Created
    <3> QED  BY <3>1, <3>2
  <2>2. Created = 1 .. k /\ j = k + 1
    BY <1>1, <1>2
  <2>3. (1 .. k) \cup {k + 1} = 1 .. k + 1
    OBVIOUS
  <2> QED  BY <2>1, <2>2, <2>3
<1>6. Cardinality(Created') = k + 1
  BY <1>1, <1>5, FS_Interval
<1>7. ASSUME NEW i \in Job, NEW l \in Job, i < l, stage'[l] \in {"taken", "ended"}
      PROVE  stage'[i] = "ended"
  <2>1. l # j /\ stage[l] \in {"taken", "ended"}
    BY <1>4, <1>7
  <2>2. stage[i] = "ended"
    BY <1>7, <2>1 DEF LineInv
  <2> QED  BY <1>2, <1>4, <2>2
<1>8. LineInv'
  <2>1. \A w \in Worker : run[w].pc # "off" => run[w].job \in Job /\ run[w].job # j
    BY <1>2 DEF DocInv, JobInv, LineInv
  <2> QED  BY <1>2, <1>4, <1>5, <1>6, <1>7, <2>1 DEF LineInv
<1>9. Newest(j)'
  BY <1>1, <1>2, <1>5 DEF Newest
<1> QED  BY <1>4, <1>8, <1>9

\* A step that gives the document its path and a job for it keeps the index.
LEMMA JobComes ==
    ASSUME DocInv, IndexInv, NEW p \in Rev, CreateJob(p), run' = run, doc'.path = p,
           doc'.status = "done" => doc.status = "done"
    PROVE  LineInv' /\ NewestInv' /\ WorkInv' /\ StatusInv'
<1>1. LineInv' /\ \E j \in Job : Newest(j)' /\ path'[j] = p /\ stage'[j] = "waiting"
  BY NewJobWaits DEF IndexInv
<1>2. NewestInv'
  BY <1>1 DEF NewestInv
<1>3. ToCome'
  BY <1>1 DEF ToCome
<1> QED  BY <1>1, <1>2, <1>3 DEF IndexInv, WorkInv, StatusInv

\* A step that leaves the queue and the workers alone
LEMMA QueueKeepsIndex ==
    ASSUME DocInv, IndexInv, UNCHANGED <<queue, run>>, doc'.status = "done" => doc.status = "done"
    PROVE  /\ LineInv' /\ StatusInv'
           /\ \A j \in Job : Newest(j)' <=> Newest(j)
BY DEF IndexInv, LineInv, StatusInv, Newest, Created, queue

\* A request of whose step the index notices nothing
LEMMA RequestKeepsIndex ==
    ASSUME DocInv, IndexInv, UNCHANGED <<queue, run, doc>>, NEW q \in Req,
           \A o \in Req \ {q} : req'[o] = req[o],
           ~Replacing(q), req'[q].pc \notin {"scan", "verdict"}, req[q].pc \notin {"scan", "verdict"},
           doc.there => disk'[doc.path] = disk[doc.path]
    PROVE  IndexInv'
<1>1. LineInv' /\ StatusInv' /\ \A j \in Job : Newest(j)' <=> Newest(j)
  BY QueueKeepsIndex
<1>2. ScanInv' /\ NewestInv'
  BY <1>1 DEF IndexInv, ScanInv, NewestInv, queue
<1>3. ToCome => ToCome'
  BY DEF ToCome, Replacing, queue
<1>4. WorkInv'
  BY <1>3 DEF IndexInv, WorkInv, Indexed
<1> QED  BY <1>1, <1>2, <1>4 DEF IndexInv

\* Requests: what begins, reads and copies touches no text of the index; what unlinks or
\* replaces a file has a job to come.
LEMMA RequestIndex ==
    ASSUME OneByOne, DocInv, FilesInv, IndexInv, NEW q \in Req, RequestStep(q)
    PROVE  IndexInv'
<1>1. /\ TypeInv /\ CarriedInv /\ PlaceInv /\ UploadFits(q) /\ Carries(req[q], last, doc.there)
      /\ UploadsOverlapNothing /\ "edit" \notin Ops
      /\ req[q].pc # "free" => req[q].rev \in Rev
  BY AtCommit DEF DocInv, FilesInv, CarriedInv, OneByOne
<1>2. \A o \in Req \ {q} : req'[o] = req[o] /\ req[o].op \notin Uploads
  BY <1>1, OthersFit
<1>3. \A o \in Req \ {q} : req[o].pc \notin {"scan", "verdict"}
  BY <1>2 DEF DocInv, CarriedInv, Carries, Uploads
<1>4. ASSUME NEW op \in Uploads, Begin(q, op)
      PROVE  IndexInv'
  <2>1. PICK c : Moved(q, c) /\ c.pc = IF op = "create_text" THEN "unlink" ELSE "number"
    BY <1>4, BeginMoves DEF Uploads
  <2>2. req'[q] = c /\ req[q] = Free
    BY <1>1, <1>4, <2>1, OneRequest DEF Moved, DocInv, Begin
  <2>3. doc.there => disk'[doc.path] = disk[doc.path]
    <3>1. last + 1 \notin rows /\ rows \subseteq Rev
      BY <1>1, BoundsAssumption DEF PlaceInv, TypeInv, TypeOK
    <3> QED  BY <1>1, <1>4, <3>1 DEF Begin, PlaceInv, TypeInv, TypeOK
  <2> QED  BY <1>2, <1>4, <2>1, <2>2, <2>3, RequestKeepsIndex DEF Begin, Free, Replacing
<1>5. CASE TakeNumber(q) \/ SaveFirst(q)
  <2>1. PICK c : Moved(q, c) /\ c.pc = IF req[q].op = "edit" THEN "write" ELSE "unlink"
    BY <1>5, NumberedMoves DEF TakeNumber, SaveFirst
  <2>2. req'[q] = c
    BY <1>1, <2>1, OneRequest DEF Moved, DocInv
  <2> QED  BY <1>2, <1>5, <2>1, <2>2, RequestKeepsIndex DEF TakeNumber, SaveFirst, Replacing
<1>6. CASE LoseFirst(q)
  <2>1. req'[q] = Free
    BY <1>1, <1>6 DEF LoseFirst, Answer, TypeInv
  <2> QED  BY <1>2, <1>6, <2>1, RequestKeepsIndex DEF LoseFirst, Replacing, Free
<1>7. CASE UnlinkOld(q)
  <2>1. PICK c : Moved(q, c) /\ Same(c, q) /\ c.pc = "commit"
    BY <1>7, UnlinkMoves
  <2>2. req'[q] = c
    BY <1>1, <2>1, OneRequest DEF Moved, DocInv
  <2>3. req[q].pc = "unlink" /\ doc' = doc /\ UNCHANGED <<queue, run>> /\ req[q].op \in Uploads
    BY <1>1, <1>7 DEF UnlinkOld, Carries
  <2>4. ToCome'
    BY <2>1, <2>2, <2>3 DEF ToCome, Replacing, Same
  <2>5. LineInv' /\ StatusInv' /\ \A j \in Job : Newest(j)' <=> Newest(j)
    BY <2>3, QueueKeepsIndex
  <2>6. ScanInv' /\ NewestInv'
    BY <1>2, <1>3, <2>1, <2>2, <2>3, <2>5 DEF IndexInv, ScanInv, NewestInv, queue
  <2> QED  BY <2>4, <2>5, <2>6 DEF IndexInv, WorkInv
<1>8. CASE CommitUpload(q) /\ req[q].op = "tus"
  <2>1. PICK c : Moved(q, c) /\ Same(c, q) /\ c.pc = "scan"
    BY <1>8, UploadMoves
  <2>2. req'[q] = c
    BY <1>1, <2>1, OneRequest DEF Moved, DocInv
  <2>3. /\ UNCHANGED <<queue, run>> /\ doc'.path = req[q].rev /\ doc'.status = "pending"
        /\ req[q].pc = "commit"
    BY <1>1, <1>8 DEF CommitUpload, Uploaded, TypeInv, TypeOK
  <2>4. LineInv' /\ StatusInv'
    BY <2>3, QueueKeepsIndex
  <2>5. ScanInv' /\ NewestInv' /\ ToCome'
    BY <1>2, <1>3, <1>8, <2>1, <2>2, <2>3 DEF ScanInv, NewestInv, ToCome, Replacing, Same, Uploads
  <2> QED  BY <2>4, <2>5 DEF IndexInv, WorkInv
<1>9. CASE StartScan(q)
  <2>1. PICK c : Moved(q, c) /\ Same(c, q) /\ c.pc = "verdict"
    BY <1>9, ScanMoves
  <2>2. req'[q] = c
    BY <1>1, <2>1, OneRequest DEF Moved, DocInv
  <2>3. /\ UNCHANGED <<queue, run>> /\ doc'.path = doc.path /\ doc'.status = "scanning"
        /\ req[q].pc = "scan" /\ req[q].op = "tus"
    BY <1>1, <1>9 DEF StartScan, At, TypeInv, TypeOK
  <2>4. LineInv' /\ StatusInv'
    BY <2>3, QueueKeepsIndex
  <2>5. doc'.path = req[q].rev
    BY <2>3 DEF IndexInv, ScanInv
  <2>6. ScanInv' /\ NewestInv' /\ ToCome'
    BY <1>2, <1>3, <2>1, <2>2, <2>3, <2>5 DEF ScanInv, NewestInv, ToCome, Replacing, Same, Uploads
  <2> QED  BY <2>4, <2>6 DEF IndexInv, WorkInv
<1>10. CASE ScanInfected(q)
  <2>1. /\ UNCHANGED <<queue, run>> /\ doc'.status = "error" /\ doc'.scan = "infected"
        /\ req'[q] = Free
    BY <1>1, <1>10 DEF ScanInfected, Answer, TypeInv, TypeOK
  <2>2. LineInv' /\ StatusInv'
    BY <2>1, QueueKeepsIndex
  <2>3. ScanInv' /\ NewestInv' /\ WorkInv'
    BY <1>2, <1>3, <2>1 DEF ScanInv, NewestInv, WorkInv, Free
  <2> QED  BY <2>2, <2>3 DEF IndexInv
<1>11. ASSUME Answer(q), CreateJob(req[q].rev), run' = run, doc'.path = req[q].rev,
              req[q].pc # "free", doc'.status = "done" => doc.status = "done"
       PROVE  IndexInv'
  <2>1. LineInv' /\ NewestInv' /\ WorkInv' /\ StatusInv'
    BY <1>1, <1>11, JobComes
  <2>2. req'[q] = Free
    BY <1>1, <1>11 DEF Answer, TypeInv
  <2>3. ScanInv'
    BY <1>2, <1>3, <2>2 DEF ScanInv, Free
  <2> QED  BY <2>1, <2>3 DEF IndexInv
<1>12. CASE ScanClean(q)
  <2>1. /\ Answer(q) /\ CreateJob(req[q].rev) /\ run' = run /\ doc'.path = doc.path
        /\ req[q].pc = "verdict" /\ doc'.status = doc.status
    BY <1>1, <1>12 DEF ScanClean, At, TypeInv, TypeOK
  <2>2. doc'.path = req[q].rev
    BY <2>1 DEF IndexInv, ScanInv
  <2> QED  BY <1>11, <2>1, <2>2
<1>13. CASE CommitUpload(q) /\ req[q].op # "tus"
  <2>1. /\ Answer(q) /\ CreateJob(req[q].rev) /\ run' = run /\ doc'.path = req[q].rev
        /\ req[q].pc = "commit" /\ doc'.status = "pending"
    BY <1>1, <1>13 DEF CommitUpload, Uploaded, TypeInv, TypeOK
  <2> QED  BY <1>11, <2>1
<1>14. CASE CommitText(q)
  <2>1. /\ Answer(q) /\ CreateJob(req[q].rev) /\ run' = run /\ doc'.path = req[q].rev
        /\ req[q].pc = "commit" /\ doc'.status = "pending"
    BY <1>1, <1>14 DEF CommitText, At, Uploaded, TypeInv, TypeOK
  <2> QED  BY <1>11, <2>1
\* No upload is refused, since it is alone, and nobody edits.
<1>15. CASE Conflict(q)
  <2>1. req[q].op # "create_text" /\ req[q].pc = "commit" /\ HasNumber(q) /\ req[q].num \in Made
    BY <1>15, RefusedCopies DEF Conflict
  <2>2. req[q].op \in Uploads
    BY <1>1, <2>1 DEF Carries
  <2> QED  BY <1>1, <2>1, <2>2 DEF UploadFits
<1>16. ~Begin(q, "edit") /\ ~WriteBack(q) /\ ~CommitEdit(q)
  BY <1>1 DEF Begin, WriteBack, CommitEdit, At, Carries
<1> QED  BY <1>4, <1>5, <1>6, <1>7, <1>8, <1>9, <1>10, <1>12, <1>13, <1>14, <1>15, <1>16
         DEF RequestStep, Uploads

\* The queue under the worker: it takes the jobs in their order, and ends each.
LEMMA WorkerLine ==
    ASSUME OneByOne, DocInv, LineInv, NEW w \in Worker, WorkerStep(w)
    PROVE  LineInv' /\ Created' = Created
<1>1. /\ stage \in [Job -> {"absent", "waiting", "taken", "ended"}]
      /\ holders \in [Job -> SUBSET Worker] /\ tries \in [Job -> Nat]
      /\ run \in [Worker -> RunRecord] /\ JobInv
  BY BoundsAssumption DEF DocInv, TypeInv, TypeOK
<1>2. \A v \in Worker : v = w
  BY DEF OneByOne
<1>3. PICK k \in Nat : Created = 1 .. k /\ k = Cardinality(Created)
  BY CreatedIs
<1>4. ASSUME NEW j \in Job, Take(w, j)
      PROVE  LineInv' /\ Created' = Created
  <2>1. /\ stage[j] = "waiting" /\ \A i \in Job : w \notin holders[i]
        /\ stage' = [stage EXCEPT ![j] = "taken"] /\ holders' = [holders EXCEPT ![j] = {w}]
        /\ tries' = [tries EXCEPT ![j] = @ + 1]
        /\ run' = [run EXCEPT ![w] = [pc |-> "begin", job |-> j, text |-> None]]
        /\ \A i \in Job : stage[i] = "waiting" => j <= i
    BY <1>4 DEF Take, Oldest, Queue!Take
  <2>2. /\ stage'[j] = "taken" /\ holders'[j] = {w} /\ tries'[j] # 0
        /\ \A i \in Job : i # j => /\ stage'[i] = stage[i] /\ holders'[i] = holders[i]
                                    /\ tries'[i] = tries[i]
        /\ run'[w].pc = "begin" /\ run'[w].job = j
    BY <1>1, <2>1
  <2>3. \A i \in Job : stage[i] # "taken"
    BY <1>1, <1>2, <2>1 DEF LineInv
  <2>4. ASSUME NEW i \in Job, i < j PROVE stage[i] = "ended"
    <3>1. j \in Created
      BY <2>1 DEF Created
    <3>2. i \in Created
      BY <1>3, <2>4, <3>1, BoundsAssumption DEF Job
    <3>3. stage[i] # "absent" /\ stage[i] # "waiting"
      BY <2>1, <2>4, <3>2, BoundsAssumption DEF Created, Job
    <3> QED  BY <1>1, <2>3, <3>3
  <2>5. Created' = Created
    BY <2>1, <2>2 DEF Created
  <2>6. ASSUME NEW i \in Job, NEW l \in Job, i < l, stage'[l] \in {"taken", "ended"}
        PROVE  stage'[i] = "ended"
    <3>1. CASE l = j
      BY <2>2, <2>4, <2>6, <3>1, BoundsAssumption DEF Job
    <3>2. CASE l # j
      <4>1. stage[i] = "ended"
        BY <2>2, <2>6, <3>2 DEF LineInv
      <4> QED  BY <2>1, <2>2, <4>1
    <3> QED  BY <3>1, <3>2
  <2>7. LineInv'
    BY <1>1, <1>2, <2>1, <2>2, <2>3, <2>5, <2>6 DEF LineInv
  <2> QED  BY <2>5, <2>7
<1>5. ASSUME UNCHANGED queue, run[w].pc # "off", run'[w].pc # "off", run'[w].job = run[w].job
      PROVE  LineInv' /\ Created' = Created
  BY <1>1, <1>2, <1>5 DEF LineInv, Created, queue
<1>6. ASSUME NEW to \in {"waiting", "ended"}, run[w].pc # "off", Finish(w, to)
      PROVE  LineInv' /\ Created' = Created
  <2>1. PICK j \in Job : j = run[w].job /\ stage[j] = "taken"
    BY <1>1, <1>6 DEF JobInv, LineInv
  <2>2. /\ holders' = [holders EXCEPT ![j] = {}] /\ stage' = [stage EXCEPT ![j] = to]
        /\ run' = [run EXCEPT ![w] = Off] /\ tries' = tries
    BY <1>1, <1>6, <2>1 DEF Finish, Queue!Release
  <2>3. /\ stage'[j] = to /\ holders'[j] = {} /\ run'[w] = Off
        /\ \A i \in Job : i # j => stage'[i] = stage[i] /\ holders'[i] = holders[i]
    BY <1>1, <2>2
  <2>4. Created' = Created
    BY <2>1, <2>3 DEF Created
  <2>5. ASSUME NEW i \in Job, NEW l \in Job, i < l, stage'[l] \in {"taken", "ended"}
        PROVE  stage'[i] = "ended"
    <3>1. stage[l] \in {"taken", "ended"}
      BY <2>1, <2>3, <2>5
    <3>2. stage[i] = "ended"
      BY <2>5, <3>1 DEF LineInv
    <3> QED  BY <2>1, <2>3, <3>2
  <2>6. LineInv'
    <3>1. \A i \in Job : i # j => holders[i] = {}
      BY <1>1, <1>2, <2>1 DEF LineInv
    <3> QED  BY <1>1, <1>2, <2>1, <2>2, <2>3, <2>4, <2>5, <3>1 DEF LineInv, Off
  <2> QED  BY <2>4, <2>6
<1>7. CASE SetParsing(w) \/ SaveText(w) \/ Parse(w)
  <2>1. UNCHANGED queue /\ run[w].pc # "off" /\ run'[w].pc # "off" /\ run'[w].job = run[w].job
    BY <1>1, <1>7 DEF SetParsing, SaveText, Parse, Goto, Step, RunRecord
  <2> QED  BY <1>5, <2>1
<1>8. CASE ParseRaises(w)
  BY <1>6, <1>8 DEF ParseRaises, Again, Step
<1>9. CASE SkipVideo(w) \/ MarkDone(w)
  BY <1>6, <1>9 DEF SkipVideo, MarkDone, Step
<1> QED  BY <1>4, <1>7, <1>8, <1>9 DEF WorkerStep

\* A worker that has a job while none waits has the newest.
LEMMA WorkerHasNewest ==
    ASSUME OneByOne, DocInv, LineInv, NEW w \in Worker, run[w].pc # "off",
           \A j \in Job : stage[j] # "waiting", NEW n \in Job, Newest(n)
    PROVE  run[w].job = n
<1>1. stage \in [Job -> {"absent", "waiting", "taken", "ended"}] /\ run[w].job \in Job
  BY DEF DocInv, TypeInv, TypeOK, JobInv
<1>2. stage[run[w].job] = "taken" /\ run[w].job \in Created /\ run[w].job <= n
  BY <1>1 DEF LineInv, Created, Newest
<1>3. stage[n] \in {"taken", "ended"}
  BY <1>1 DEF Newest, Created
<1>4. ~(run[w].job < n)
  BY <1>1, <1>2, <1>3 DEF LineInv
<1> QED  BY <1>1, <1>2, <1>4, BoundsAssumption DEF Job

\* The worker: what it reads is the file of the document, what it saves is what it has read.
LEMMA WorkerIndex ==
    ASSUME OneByOne, DocInv, IndexInv, NEW w \in Worker, WorkerStep(w)
    PROVE  IndexInv'
<1>1. /\ TypeInv /\ JobInv /\ PlaceInv /\ doc \in DocRecord /\ run[w] \in RunRecord
      /\ \A v \in Worker : v = w
      /\ stage \in [Job -> {"absent", "waiting", "taken", "ended"}] /\ doc.type # "video"
  BY DEF DocInv, TypeInv, TypeOK, DocRecord, OneByOne
<1>2. LineInv' /\ Created' = Created
  BY WorkerLine DEF IndexInv
<1>3. UNCHANGED <<rows, disk, req, path>>
  BY DEF WorkerStep, Take, SetParsing, Parse, ParseRaises, SaveText, SkipVideo, MarkDone, Finish, queue
<1>4. doc'.there = doc.there /\ doc'.path = doc.path /\ doc'.scan = doc.scan
  BY <1>1 DEF WorkerStep, Take, SetParsing, Parse, ParseRaises, SaveText, SkipVideo, MarkDone, DocRecord
<1>5. ScanInv' /\ NewestInv'
  BY <1>2, <1>3, <1>4 DEF IndexInv, ScanInv, NewestInv, Newest
<1>6. SUFFICES WorkInv' /\ StatusInv'
  BY <1>2, <1>5 DEF IndexInv
<1>7. ASSUME NEW j \in Job, Take(w, j)
      PROVE  WorkInv' /\ StatusInv'
  <2>1. run'[w].pc = "begin" /\ doc' = doc
    BY <1>7 DEF Take, DocInv, TypeInv
  <2> QED  BY <1>1, <2>1 DEF WorkInv, StatusInv
\* no job begins or stops to wait
<1>8. ASSUME UNCHANGED queue PROVE ToCome' <=> ToCome
  BY <1>3, <1>8 DEF ToCome, Replacing, queue
<1>9. CASE SetParsing(w)
  <2>1. run'[w].pc = "parse" /\ doc'.status = "parsing"
    BY <1>1, <1>9 DEF SetParsing, Goto, TypeInv, DocRecord
  <2> QED  BY <1>1, <2>1 DEF WorkInv, StatusInv
<1>10. CASE Parse(w)
  <2>1. /\ run'[w].pc = "save" /\ run'[w].text = disk[path[run[w].job]]
        /\ UNCHANGED <<queue, doc>> /\ run[w].pc = "parse"
    BY <1>1, <1>10 DEF Parse, Step, TypeInv, RunRecord
  <2>2. StatusInv'
    BY <1>1, <2>1 DEF IndexInv, StatusInv
  <2>3. ASSUME doc.there, doc.scan # "infected", ~ToCome
        PROVE  path[run[w].job] = doc.path
    <3>1. \A q \in Req : req[q].pc \notin {"scan", "verdict"}
      BY <2>3 DEF ToCome, Replacing, DocInv, CarriedInv, Carries, Uploads
    <3>2. PICK n \in Job : Newest(n) /\ path[n] = doc.path
      BY <2>3, <3>1 DEF IndexInv, NewestInv
    <3>3. run[w].job = n
      BY <2>1, <2>3, <3>2, WorkerHasNewest DEF IndexInv, ToCome
    <3> QED  BY <3>2, <3>3
  <2> QED  BY <1>1, <1>3, <1>4, <1>8, <2>1, <2>2, <2>3 DEF WorkInv
<1>11. CASE SaveText(w)
  <2>1. /\ run'[w].pc = "summarize" /\ doc'.status = "summarizing" /\ UNCHANGED queue
        /\ doc'.content = run[w].text /\ doc'.chunks = {run[w].text} /\ run[w].pc = "save"
    BY <1>1, <1>11 DEF SaveText, Step, Goto, TypeInv, DocRecord
  <2> QED  BY <1>1, <1>3, <1>4, <1>8, <2>1 DEF IndexInv, WorkInv, StatusInv, Indexed
<1>12. ASSUME NEW to \in {"waiting", "ended"}, run[w].pc # "off", Finish(w, to)
       PROVE  run'[w] = Off /\ (ToCome => ToCome')
  <2>1. PICK j \in Job : j = run[w].job /\ stage[j] = "taken"
    BY <1>1, <1>12 DEF JobInv, IndexInv, LineInv
  <2>2. stage' = [stage EXCEPT ![j] = to] /\ run'[w] = Off
    BY <1>1, <1>12, <2>1 DEF Finish, Queue!Release, TypeInv
  <2> QED  BY <1>1, <1>3, <2>1, <2>2 DEF ToCome, Replacing
<1>13. CASE ParseRaises(w)
  <2>1. run[w].pc = "parse" /\ doc' = doc /\ Finish(w, Again(run[w].job))
        /\ Again(run[w].job) \in {"waiting", "ended"}
    BY <1>13 DEF ParseRaises, Step, Again
  <2>2. run'[w].pc = "off" /\ doc'.status # "done"
    BY <1>1, <1>12, <2>1 DEF IndexInv, StatusInv, Off
  <2> QED  BY <1>1, <2>2 DEF WorkInv, StatusInv
<1>14. CASE MarkDone(w)
  <2>1. /\ run[w].pc = "summarize" /\ Finish(w, "ended")
        /\ doc'.content = doc.content /\ doc'.chunks = doc.chunks
    BY <1>1, <1>14 DEF MarkDone, Step, DocRecord
  <2>2. run'[w].pc = "off" /\ (ToCome => ToCome')
    BY <1>12, <2>1 DEF Off
  <2> QED  BY <1>1, <1>3, <1>4, <2>1, <2>2 DEF IndexInv, WorkInv, StatusInv, Indexed
<1>15. ~SkipVideo(w)
  BY <1>1 DEF SkipVideo
<1> QED  BY <1>7, <1>9, <1>10, <1>11, <1>13, <1>14, <1>15 DEF WorkerStep

\* What is one step: a document through the drive, a reindex and a restore have a job; an
\* editor does not save, and no worker dies.
LEMMA OthersIndex ==
    ASSUME OneByOne, DocInv, FilesInv, IndexInv, Next \/ UNCHANGED vars, ~\E q \in Req : RequestStep(q)
    PROVE  IndexInv'
<1>1. /\ TypeInv /\ PlaceInv /\ PresentInv /\ rows \subseteq Rev /\ doc \in DocRecord
      /\ last \in 0 .. MaxRev
  BY DEF DocInv, FilesInv, TypeInv, TypeOK, DocRecord
<1>2. req' = req
  BY OthersStay
<1>3. ASSUME NEW p \in Rev, CreateJob(p), run' = run, doc'.path = p, doc'.status # "done",
             doc.there => doc'.path = doc.path
      PROVE  IndexInv'
  <2>1. LineInv' /\ NewestInv' /\ WorkInv' /\ StatusInv'
    BY <1>3, JobComes
  <2>2. ScanInv'
    BY <1>2, <1>3 DEF IndexInv, ScanInv, DocInv, CarriedInv, Carries
  <2> QED  BY <2>1, <2>2 DEF IndexInv
<1>4. CASE FuseCreate
  <2>1. /\ last + 1 \in Rev /\ CreateJob(last + 1) /\ run' = run /\ ~doc.there
        /\ doc'.path = last + 1 /\ doc'.status = "pending"
    BY <1>1, <1>4, BoundsAssumption DEF FuseCreate, Uploaded, Rev, DocRecord
  <2> QED  BY <1>3, <2>1
<1>5. CASE Reindex
  <2>1. /\ doc.path \in Rev /\ CreateJob(doc.path) /\ run' = run
        /\ doc'.path = doc.path /\ doc'.status = "queued"
    BY <1>1, <1>5 DEF Reindex, PlaceInv, DocRecord
  <2> QED  BY <1>3, <2>1
<1>6. ASSUME NEW n \in Ver, Restore(n)
      PROVE  IndexInv'
  <2>1. /\ doc.path \in Rev /\ CreateJob(doc.path) /\ run' = run
        /\ doc'.path = doc.path /\ doc'.status = "pending"
    BY <1>1, <1>6 DEF Restore, PlaceInv, PresentInv, DocRecord
  <2> QED  BY <1>3, <2>1
<1>7. ~PutFile
  BY DEF PutFile, OneByOne
<1>8. ~Kill
  <2> SUFFICES ASSUME Kill PROVE FALSE
    OBVIOUS
  <2>1. PICK w \in Worker : run[w] # Off
    BY DEF Kill
  <2>2. /\ run[w].job \in Job /\ holders[run[w].job] = {w} /\ stage[run[w].job] = "taken"
    BY <2>1 DEF DocInv, JobInv, IndexInv, LineInv
  <2>3. tries[run[w].job] <= 0 /\ tries[run[w].job] # 0 /\ tries[run[w].job] \in Nat
    BY <2>2, BoundsAssumption DEF Kill, OneByOne, IndexInv, LineInv, TypeInv, TypeOK, DocInv
  <2> QED  BY <2>3
<1>9. ~Recover
  BY DEF Recover, IndexInv, LineInv
<1>10. CASE UNCHANGED vars
  BY <1>10 DEF vars, queue, IndexInv, LineInv, ScanInv, NewestInv, WorkInv, StatusInv, Created,
               Newest, ToCome, Replacing, Indexed
<1> QED  BY <1>4, <1>5, <1>6, <1>7, <1>8, <1>9, <1>10, WorkerIndex DEF Next

\* The invariant of the index is inductive,
LEMMA IndexNext ==
    ASSUME OneByOne, DocInv, FilesInv, IndexInv, [Next]_vars
    PROVE  IndexInv'
BY RequestIndex, OthersIndex

\* and says what the run checks.
LEMMA IndexThen == DocInv /\ IndexInv => SettledContentIsLive
<1> SUFFICES ASSUME DocInv, IndexInv, Quiet, doc.there, doc.status = "done", doc.scan # "infected"
             PROVE  Indexed
  BY DEF SettledContentIsLive, Indexed
<1>1. ~ToCome
  BY DEF Quiet, ToCome, Replacing, Free
<1>2. \A w \in Worker : run[w].pc = "off"
  BY DEF Quiet, DocInv, JobInv, IndexInv, LineInv
<1> QED  BY <1>1, <1>2 DEF IndexInv, WorkInv

\* With one worker that is not killed, uploads that overlap nothing, and no change that leaves
\* file or index behind, what the search finds of a settled document is the text of its file.
\* (process_document_job)
THEOREM SearchIsLive ==
    ASSUME OneByOne
    PROVE  Spec => []SettledContentIsLive
<1>1. UploadsOverlapNothing
  BY DEF OneByOne
<1>2. DocInv /\ FilesInv /\ IndexInv /\ [Next]_vars => DocInv' /\ FilesInv' /\ IndexInv'
  BY <1>1, InvNext, FilesNext, IndexNext
<1>3. Spec => [](DocInv /\ FilesInv /\ IndexInv)
  BY <1>2, InvAtInit, FilesAtInit, IndexAtInit, PTL DEF Spec
<1> QED  BY <1>3, IndexThen, PTL
=============================================================================
