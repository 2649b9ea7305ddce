----------------------------- MODULE SearchRun -----------------------------
(***************************************************************************)
(* One search (services/search.py, routers/search.py): the signals of the  *)
(* metadata, of the text and of the title's vector are read by sessions of *)
(* their own while documents change, fused into one score by ranks, and    *)
(* the documents of the page are read once more.                           *)
(* A text is the set of the words in it (a word is in one tag of a         *)
(* document), a document has one chunk, the signals are not cut at         *)
(* max_candidates and the user's groups stay.                              *)
(***************************************************************************)
EXTENDS Naturals, FiniteSets, Sequences, SequencesExt, FiniteSetsExt

CONSTANTS
  Candidates, Words,
  MetaOrder,    \* the metadata signals, in the order they are read
  Scale,        \* a common multiple of the ranks' divisors, for whole scores
  MaxEdits      \* bound: changes of documents during the search

RrfK == 60      \* _K

ASSUME SearchAssumption ==
  /\ IsFiniteSet(Candidates) /\ IsFiniteSet(Words) /\ MaxEdits \in Nat /\ "?" \notin Candidates
  /\ Scale \in Nat \ {0} /\ \A i \in 1..Cardinality(Candidates) : Scale % (RrfK + i) = 0
  /\ MetaOrder \in Seq({"title", "filename", "memo", "summary", "tag"})

VARIABLES
  candidate,    \* rows: texts, near (title vector), fresh (updated_at), state, readable
  query,        \* words of the query
  read,         \* number of metadata signals read
  ranks,        \* signal -> documents in their order, "?" while it is not read
  hits,         \* doc_match_count
  bestChunk,    \* doc_best_chunk: "none", or the age the row had when it was read
  phase, shown,
  docEdits,     \* changes so far
  edited,       \* history: some document changed during the search
  seen          \* history: documents live and readable at a read of the search

resultVars == <<phase, shown>>
editVars == <<docEdits, edited>>
searchVars == <<candidate, query, read, ranks, hits, bestChunk, resultVars, editVars, seen>>

-----------------------------------------------------------------------------
Metadata == Range(MetaOrder)
Signals == Metadata \cup {"title_full", "fulltext", "vector"}
Unread == <<"?">>
Weight(s) ==
  CASE s = "title" -> 8 [] s = "title_full" -> 10 [] s = "filename" -> 4 [] s = "tag" -> 3
    [] s \in {"memo", "summary"} -> 2 [] s = "fulltext" -> 1 [] s = "vector" -> 6

\* Mutant: the vector's sessions forget who asks.
OpenLive(d) == candidate[d].state = "live"

\* deleted_at and the visibility of the user, as every signal asks for them.
Open(d) == candidate[d].state = "live" /\ candidate[d].readable
OpenNow == {d \in Candidates : Open(d)}

\* The orders a query with ORDER BY key, then fresh, may return; equals come in any order.
Ordered(S, Key(_)) ==
  {q \in SetToSeqs(S) : \A i, j \in DOMAIN q : i < j => Key(q[i]) >= Key(q[j])}

Texts(d, s) == IF s = "title" THEN candidate[d].title ELSE candidate[d].other
Count(d, s) == Cardinality(Texts(d, s) \cap query)
Newer(d) == IF candidate[d].fresh THEN 1 ELSE 0
Age(d) == IF candidate[d].fresh THEN "new" ELSE "old"
MetaKey(d, s) == 2 * Count(d, s) + Newer(d)
TextCount(d) == Cardinality((candidate[d].content \cup candidate[d].title) \cap query)
Informed == {d \in Candidates : bestChunk[d] # "none"}

AtLeast(d, n) == IF n > hits[d] THEN n ELSE hits[d]

\* Mutant: the count of the last signal instead of the best.
LastCount(d, n) == n

\* Mutant: the counts of the signals add up.
SumOfCounts(d, n) == hits[d] + n

BestCount(d, n) == AtLeast(d, n)

Place(q, d) == CHOOSE i \in DOMAIN q : q[i] = d
InOrderOf(t, q) == \A i, j \in DOMAIN t : i < j => Place(q, t[i]) < Place(q, t[j])

-----------------------------------------------------------------------------
\* _metadata_signals: one query for each signal, on one session.
ReadMetadata ==
  /\ phase = "reading" /\ query # {} /\ read < Len(MetaOrder)
  /\ LET s == MetaOrder[read + 1]
         found == {d \in OpenNow : Count(d, s) > 0}
         key(d) == MetaKey(d, s) IN
       /\ \E q \in Ordered(found, key), full \in SetToSeqs({d \in found : query \subseteq Texts(d, s)}) :
            /\ InOrderOf(full, q)
            /\ ranks' = IF s = "title" THEN [ranks EXCEPT !["title"] = q, !["title_full"] = full]
                       ELSE [ranks EXCEPT ![s] = q]
       /\ hits' = [d \in Candidates |-> IF d \in found THEN BestCount(d, Count(d, s)) ELSE hits[d]]
  /\ read' = read + 1
  /\ seen' = seen \cup OpenNow
  /\ UNCHANGED <<candidate, query, bestChunk, resultVars, editVars>>

\* fulltext_search: chunks with a word, by the words in the chunk or the title.
ReadFulltext ==
  /\ phase = "reading" /\ ranks["fulltext"] = Unread
  /\ LET found == {d \in OpenNow : candidate[d].content \cap query # {}} IN
       /\ \E q \in Ordered(found, TextCount) : ranks' = [ranks EXCEPT !["fulltext"] = q]
       /\ hits' = [d \in Candidates |-> IF d \in found THEN AtLeast(d, TextCount(d)) ELSE hits[d]]
       /\ bestChunk' = [d \in Candidates |-> IF d \in found THEN Age(d) ELSE bestChunk[d]]
  /\ seen' = seen \cup OpenNow
  /\ UNCHANGED <<candidate, query, read, resultVars, editVars>>

\* run_title_vector
VectorOpen(d) == Open(d)

ReadVector ==
  /\ phase = "reading" /\ ranks["vector"] = Unread
  /\ LET found == {d \in Candidates : VectorOpen(d) /\ candidate[d].near} IN
       /\ \E q \in SetToSeqs(found) : ranks' = [ranks EXCEPT !["vector"] = q]
       /\ bestChunk' =
            [d \in Candidates |-> IF d \in found \ Informed THEN Age(d) ELSE bestChunk[d]]
  /\ seen' = seen \cup OpenNow
  /\ UNCHANGED <<candidate, query, read, hits, resultVars, editVars>>

\* The embedding server does not answer, or the query has no word, for which the metadata signals
\* return one value where two are unpacked: gather raises, and so does the search.
SearchFails ==
  /\ phase = "reading" /\ (query = {} \/ ranks["vector"] = Unread)
  /\ phase' = "failed"
  /\ UNCHANGED <<candidate, query, read, ranks, hits, bestChunk, shown, editVars, seen>>

-----------------------------------------------------------------------------
(* merged_search: the score, times 20 * Scale * |query|^2                  *)

Matched == {d \in Candidates : \E s \in Signals : d \in Range(ranks[s])}
VectorOnly(d) == hits[d] = 0 /\ d \in Range(ranks["vector"])
FromRank(s, d) ==
  IF s \in Signals /\ d \in Range(ranks[s])
  THEN Weight(s) * (Scale \div (RrfK + Place(ranks[s], d))) ELSE 0
Fused(d) ==
  FromRank("title", d) + FromRank("title_full", d) + FromRank("filename", d) + FromRank("tag", d)
  + FromRank("memo", d) + FromRank("summary", d) + FromRank("fulltext", d) + FromRank("vector", d)

Square(n) == n * n
MatchRatio(d) ==
  IF Cardinality(query) = 1 THEN 1 ELSE Square(Min({hits[d], Cardinality(query)}))
Penalty(d) == IF VectorOnly(d) THEN Square(Cardinality(query)) ELSE MatchRatio(d)
Freshness(d) ==      \* half as much after _FRESHNESS_HALF_LIFE_DAYS
  IF VectorOnly(d) THEN 0 ELSE (IF bestChunk[d] = "new" THEN 4 ELSE 2) * Scale * MatchRatio(d)
Score(d) == 20 * Fused(d) * Penalty(d) + Freshness(d)

AllRead == read = Len(MetaOrder) /\ \A s \in {"fulltext", "vector"} : ranks[s] # Unread

\* Mutant: documents of which only the metadata matched are left out.
NoFetch == {}

\* Documents of the metadata alone are read by their numbers, whoever may see them now.
FetchMissing == {d \in Matched \ Informed : candidate[d].state # "gone"}

Fuse ==
  /\ phase = "reading" /\ AllRead /\ query # {}
  /\ bestChunk' = [d \in Candidates |-> IF d \in FetchMissing THEN Age(d) ELSE bestChunk[d]]
  /\ phase' = "page"
  /\ UNCHANGED <<candidate, query, read, ranks, hits, shown, editVars, seen>>

\* The route: the rows of the page that are not deleted, by score.
ShowPage ==
  /\ phase = "page"
  /\ LET rows == {d \in Matched \cap Informed : candidate[d].state = "live"} IN
       \E q \in Ordered(rows, Score) : shown' = q
  /\ phase' = "done"
  /\ UNCHANGED <<candidate, query, read, ranks, hits, bestChunk, editVars, seen>>

-----------------------------------------------------------------------------
\* Others: into the trash and out of it, purged, permissions changed, a new title.
EditDocument(d) ==
  /\ phase \in {"reading", "page"} /\ docEdits < MaxEdits
  /\ docEdits' = docEdits + 1 /\ edited' = TRUE
  /\ \E r \in {[candidate[d] EXCEPT !.state = "trash"], [candidate[d] EXCEPT !.state = "live"],
               [candidate[d] EXCEPT !.state = "gone"], [candidate[d] EXCEPT !.readable = ~@]}
              \cup {[candidate[d] EXCEPT !.title = t, !.fresh = TRUE] : t \in SUBSET query} :
       /\ candidate[d].state # "gone" /\ r # candidate[d]
       /\ candidate' = [candidate EXCEPT ![d] = r]
  /\ UNCHANGED <<query, read, ranks, hits, bestChunk, resultVars, seen>>

SearchEnded == phase \in {"done", "failed"} /\ UNCHANGED searchVars

Rows == [title : SUBSET Words, other : SUBSET Words, content : SUBSET Words, near : BOOLEAN,
         fresh : BOOLEAN, state : {"live", "trash", "gone"}, readable : BOOLEAN]

SearchStart ==
  /\ read = 0 /\ phase = "reading" /\ shown = <<>> /\ seen = {} /\ ~edited
  /\ ranks = [s \in Signals |-> IF s \in {"fulltext", "vector"} THEN Unread ELSE <<>>]
  /\ hits = [d \in Candidates |-> 0] /\ bestChunk = [d \in Candidates |-> "none"]

SearchInit ==
  /\ candidate \in [Candidates -> Rows] /\ query \in SUBSET Words /\ docEdits = 0
  /\ edited = FALSE
  /\ SearchStart

SearchNext ==
  \/ ReadMetadata \/ ReadFulltext \/ ReadVector \/ SearchFails \/ Fuse \/ ShowPage
  \/ \E d \in Candidates : EditDocument(d)
  \/ SearchEnded

SearchSpec == SearchInit /\ [][SearchNext]_searchVars

-----------------------------------------------------------------------------
(* Properties                                                              *)

\* Every variable has its type, and a document's hits are the words of its best signal, never more
\* than the query has.
SearchTypeOK ==
  /\ candidate \in [Candidates -> Rows] /\ query \in SUBSET Words /\ read \in 0..Len(MetaOrder)
  /\ phase \in {"reading", "page", "done", "failed"} /\ docEdits \in 0..MaxEdits
  /\ edited \in BOOLEAN /\ bestChunk \in [Candidates -> {"none", "old", "new"}]
  /\ \A d \in Candidates : hits[d] <= Cardinality(query)
  /\ Range(shown) \subseteq Matched /\ Len(shown) = Cardinality(Range(shown))

\* Every document of the page was live and readable for the user at some moment of the search,
\* though the signals read at different moments and the last reads ask for no permission.
ShownWasOpen == Range(shown) \subseteq seen

\* If no document changes, the page has every live and readable document with a word of the query
\* or a near title, and no other.
QuietSearchIsComplete ==
  phase = "done" /\ ~edited =>
    Range(shown) = {d \in OpenNow : \/ candidate[d].near
                                    \/ candidate[d].content \cap query # {}
                                    \/ \E s \in Metadata : Count(d, s) > 0}

\* A document stands before another, if nothing changes, when each signal that finds the other puts
\* it first (the metadata by more words, or as many and newer; the text by more words; the title's
\* vector by its distance) and it is not the older one.  One that matches by its vector alone
\* keeps the whole weight of it, which a few words can cost: it stands before others of its kind.
MatchesWord(d) ==
  candidate[d].content \cap query # {} \/ \E s \in Metadata : Count(d, s) > 0

AheadEverywhere(a, b) ==
  /\ \A s \in Metadata : Count(b, s) > 0 => MetaKey(a, s) > MetaKey(b, s)
  /\ candidate[b].content \cap query # {} =>
       candidate[a].content \cap query # {} /\ TextCount(a) > TextCount(b)
  /\ candidate[b].near =>
       candidate[a].near /\ Place(ranks["vector"], a) < Place(ranks["vector"], b)
  /\ candidate[b].fresh => candidate[a].fresh
  /\ MatchesWord(a) => MatchesWord(b)

BetterComesFirst ==
  phase = "done" /\ ~edited =>
    \A i, j \in DOMAIN shown : AheadEverywhere(shown[i], shown[j]) => i < j

\* A page of results: nothing the user may not see, all there is when nothing changes, the better
\* document first.
PageIsRight == ShownWasOpen /\ QuietSearchIsComplete /\ BetterComesFirst
=============================================================================
