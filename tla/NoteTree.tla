------------------------------ MODULE NoteTree ------------------------------
(***************************************************************************)
(* Notes: documents with a place in a tree of their own (routers/notes.py, *)
(* with what the trash of routers/documents.py does to them).              *)
(*                                                                         *)
(* A request is one session: it reads first, and its writes are seen by    *)
(* others at its commit; a column that has the value it was read with is   *)
(* not written.  Each user may read and change his own set of notes; the   *)
(* sets stay as they are.                                                  *)
(***************************************************************************)
EXTENDS Integers, FiniteSets, Sequences

CONSTANTS
  NoteIds,       \* documents that are notes, have been or will be
  NoteUsers,
  Reads, Writes, \* user -> notes he may read, notes he may change
  TitleRank,     \* the order of titles
  Top,           \* parent_note_id IS NULL
  NoteSlots,     \* requests in flight at a time
  Lo, Hi,        \* ends of the INTEGER column note_order
  Positions,     \* places among the siblings that are asked for, 0 for none
  MaxNoteRequests \* bound: requests started in a behaviour

ASSUME NoteAssumption ==
  /\ Top \notin NoteIds
  /\ Reads \in [NoteUsers -> SUBSET NoteIds] /\ Writes \in [NoteUsers -> SUBSET NoteIds]
  /\ \A u \in NoteUsers : Writes[u] \subseteq Reads[u]
  /\ TitleRank \in [NoteIds -> Nat]
  /\ \A n, m \in NoteIds : TitleRank[n] = TitleRank[m] => n = m
  /\ Lo \in Int /\ Hi \in Int /\ Lo <= 0 /\ 0 <= Hi
  /\ IsFiniteSet(NoteIds) /\ Cardinality(NoteIds) <= Hi + 1
  /\ Positions \subseteq Nat
  /\ MaxNoteRequests \in Nat

VARIABLES
  above,      \* documents.parent_note_id
  isNote,     \* documents.is_note
  stands,     \* the row: unused, live, trash (deleted_at is set) or gone
  order,      \* documents.note_order
  noteReq,    \* what each request has read and is about to write
  asked,      \* requests started so far
  crossed,    \* history: a move was committed over a path that had changed since it was read
  looped      \* history: a document was made a note below itself

noteVars == <<above, isNote, stands, order, noteReq, asked, crossed, looped>>
noteRows == <<above, isNote, stands, order>>

-----------------------------------------------------------------------------
Present(n) == n \in NoteIds /\ stands[n] \in {"live", "trash"}
Note(n) == n \in NoteIds /\ stands[n] = "live" /\ isNote[n]
ReadableParent(u, p) == Note(p) /\ p \in Reads[u]

\* The notes on the way up from n, n with them; none from the top.
Path(n) == {a \in NoteIds :
             /\ n # Top
             /\ \A S \in SUBSET NoteIds :
                  (n \in S /\ \A m \in S : above[m] \in NoteIds => above[m] \in S) => a \in S}

NoCircle == \A S \in SUBSET NoteIds : S # {} => \E n \in S : above[n] \notin S

Before(n, m) == order[n] < order[m] \/ (order[n] = order[m] /\ TitleRank[n] < TitleRank[m])
Sorted(S) == CHOOSE s \in [1..Cardinality(S) -> S] :
               \A i, j \in 1..Cardinality(S) : i < j => Before(s[i], s[j])

\* max(note_order) of the siblings, -1 without one; "or 0" of the code only changes None.
NextOrder(p) ==
  LET orders == {order[n] : n \in {m \in NoteIds : Note(m) /\ above[m] = p}}
  IN IF orders = {} THEN 0 ELSE (CHOOSE o \in orders : \A x \in orders : x <= o) + 1

\* list_notes of a user: a note whose parent he does not see is shown at the top.
Seen(u) == {n \in Reads[u] : Note(n)}
ShownBelow(u, n) == IF above[n] \in Seen(u) THEN above[n] ELSE Top

-----------------------------------------------------------------------------
(* _place_orders: orders for siblings in the wanted sequence               *)

Fixed(items) == {i \in 1..Len(items) : ~items[i].writable}
NeighbourBelow(items, i) ==
  {p \in Fixed(items) : p < i /\ \A x \in Fixed(items) : x < i => x <= p}

PlacedOrder(items, i) ==
  LET first == CHOOSE p \in Fixed(items) : \A x \in Fixed(items) : p <= x
      p == CHOOSE p \in NeighbourBelow(items, i) : TRUE
  IN IF Fixed(items) = {} THEN i - 1
     ELSE IF i \in Fixed(items) THEN items[i].order
     ELSE IF i < first THEN items[first].order - (first - i)
     ELSE items[p].order + (i - p)

\* Mutant: one free value too few will do.
RoomAtEdge(items) ==
  \E p, q \in Fixed(items) :
     /\ p < q - 1 /\ \A x \in Fixed(items) : ~(p < x /\ x < q)
     /\ items[q].order - items[p].order < q - p - 1
\* Between two fixed notes next to each other there are more notes than free values.
NoRoom(items) ==
  \E p, q \in Fixed(items) :
     /\ p < q - 1 /\ \A x \in Fixed(items) : ~(p < x /\ x < q)
     /\ items[q].order - items[p].order - 1 < q - p - 1

\* Mutant: the places are given without a look at the ends of the column.
PlaceOrdersAny(items) ==
  IF NoRoom(items) THEN <<>> ELSE [i \in 1..Len(items) |-> PlacedOrder(items, i)]
PlaceOrders(items) ==
  LET out == [i \in 1..Len(items) |-> PlacedOrder(items, i)]
  IN IF NoRoom(items) \/ \E i \in 1..Len(items) : out[i] \notin Lo..Hi THEN <<>> ELSE out

-----------------------------------------------------------------------------
NoteIdle == [op |-> "none", pc |-> "idle", u |-> CHOOSE u \in NoteUsers : TRUE, n |-> Top,
             p |-> Top, at |-> Top, edges |-> {}, position |-> 0, row |-> <<>>,
             items |-> <<>>, free |-> {}, order |-> 0]

MayAsk(r) == noteReq[r].pc = "idle" /\ asked < MaxNoteRequests

Ask(r, fields) ==
  /\ MayAsk(r)
  /\ asked' = asked + 1
  /\ noteReq' = [noteReq EXCEPT ![r] = fields]

Finish(r) == noteReq' = [noteReq EXCEPT ![r] = NoteIdle]

-----------------------------------------------------------------------------
(* POST /notes and POST /notes/from-document/{id}                          *)

CreateNote(r, u, p) ==
  /\ p = Top \/ ReadableParent(u, p)
  /\ Ask(r, [NoteIdle EXCEPT !.op = "create", !.pc = "commit", !.u = u, !.p = p,
                             !.order = NextOrder(p)])
  /\ UNCHANGED <<noteRows, crossed, looped>>

\* The row of the parent may have been purged: its foreign key refuses the insert.
CreateNoteCommit(r) ==
  LET q == noteReq[r]
      fits == q.p = Top \/ Present(q.p)
  IN /\ q.op = "create" /\ q.pc = "commit"
     /\ \/ /\ fits /\ q.order <= Hi
           /\ \E n \in Writes[q.u] :
                /\ stands[n] = "unused"
                /\ stands' = [stands EXCEPT ![n] = "live"]
                /\ isNote' = [isNote EXCEPT ![n] = TRUE]
                /\ above' = [above EXCEPT ![n] = q.p]
                /\ order' = [order EXCEPT ![n] = q.order]
        \/ /\ ~(fits /\ q.order <= Hi)
           /\ UNCHANGED noteRows
     /\ Finish(r)
     /\ UNCHANGED <<asked, crossed, looped>>

\* No walk to the root here: a document that is no note is taken to have none below it.
Convert(r, u, n, p) ==
  /\ stands[n] = "live" /\ ~isNote[n] /\ n \in Writes[u]
  /\ p = Top \/ ReadableParent(u, p)
  /\ Ask(r, [NoteIdle EXCEPT !.op = "convert", !.pc = "commit", !.u = u, !.n = n, !.p = p,
                             !.at = above[n], !.order = NextOrder(p)])
  /\ UNCHANGED <<noteRows, crossed, looped>>

ConvertCommit(r) ==
  LET q == noteReq[r]
      fits == Present(q.n) /\ (q.p = Top \/ Present(q.p)) /\ q.order <= Hi
  IN /\ q.op = "convert" /\ q.pc = "commit"
     /\ \/ /\ fits
           /\ isNote' = [isNote EXCEPT ![q.n] = TRUE]
           /\ above' = [above EXCEPT ![q.n] = IF q.p = q.at THEN @ ELSE q.p]
           /\ order' = [order EXCEPT ![q.n] = q.order]
           /\ looped' = (looped \/ q.n \in Path(above'[q.n]))
        \/ /\ ~fits
           /\ UNCHANGED <<isNote, above, order, looped>>
     /\ Finish(r)
     /\ UNCHANGED <<stands, asked, crossed>>

-----------------------------------------------------------------------------
(* PATCH /notes/{id}/move                                                  *)

\* position 0: the place among the siblings is not given (the code counts from 0, here from 1).
MoveNote(r, u, n, p, position) ==
  /\ Note(n) /\ n \in Writes[u] /\ p # n
  /\ p = Top \/ p = above[n] \/ ReadableParent(u, p)
  /\ p # above[n] \/ position > 0
  /\ Ask(r, [NoteIdle EXCEPT
               !.op = IF p = above[n] THEN "reorder" ELSE "move",
               !.u = u, !.n = n, !.p = p, !.position = position,
               !.pc = IF p \in {Top, above[n]} \/ above[p] = Top THEN "place" ELSE "walk",
               !.at = IF p \in {Top, above[n]} THEN Top ELSE above[p],
               !.edges = IF p \in {Top, above[n]} THEN {} ELSE {<<p, above[p]>>}])
  /\ UNCHANGED <<noteRows, crossed, looped>>

\* Mutant: the new parent is compared instead of the note.
CircleAtParent(q) == q.at = q.p
CircleAtNote(q) == q.at = q.n

\* while check_id: the walk keeps no record of where it has been.
WalkUp(r) ==
  LET q == noteReq[r]
      next == IF Present(q.at) THEN above[q.at] ELSE Top
  IN /\ q.pc = "walk"
     /\ \/ /\ CircleAtNote(q)                        \* 400
           /\ Finish(r)
        \/ /\ ~CircleAtNote(q)
           /\ noteReq' = [noteReq EXCEPT ![r].at = next, ![r].edges = @ \cup {<<q.at, next>>},
                                         ![r].pc = IF next = Top THEN "place" ELSE "walk"]
     /\ UNCHANGED <<noteRows, asked, crossed, looped>>

\* The siblings as the user sees them, with the note put in at its place.
Siblings(q) ==
  LET p == IF q.p \in Seen(q.u) THEN q.p ELSE Top
      others == Sorted({m \in Seen(q.u) \ {q.n} : ShownBelow(q.u, m) = p})
      k == IF q.position - 1 < Len(others) THEN q.position - 1 ELSE Len(others)
  IN SubSeq(others, 1, k) \o <<q.n>> \o SubSeq(others, k + 1, Len(others))

PlaceNote(r) ==
  LET q == noteReq[r]
      row == IF q.position = 0 THEN <<>> ELSE Siblings(q)
      items == [i \in 1..Len(row) |-> [writable |-> row[i] \in Writes[q.u],
                                         order |-> order[row[i]]]]
  IN /\ q.pc = "place"
     /\ noteReq' = [noteReq EXCEPT ![r].pc = "commit", ![r].row = row, ![r].items = items]
     /\ UNCHANGED <<noteRows, asked, crossed, looped>>

PathChanged(q) == \E e \in q.edges : above[e[1]] \in NoteIds /\ above[e[1]] # e[2]

MoveNoteCommit(r) ==
  LET q == noteReq[r]
      placed == PlaceOrders(q.items)
      fits == /\ Present(q.n) /\ (q.op = "move" /\ q.p # Top => Present(q.p))
              /\ q.row # <<>> =>
                   /\ placed # <<>>
                   /\ \A i \in 1..Len(q.row) : placed[i] # q.items[i].order => Present(q.row[i])
  IN /\ q.op \in {"move", "reorder"} /\ q.pc = "commit"
     /\ \/ /\ fits
           /\ above' = IF q.op = "move" THEN [above EXCEPT ![q.n] = q.p] ELSE above
           /\ order' = [m \in NoteIds |->
                IF \E i \in 1..Len(q.row) : q.row[i] = m /\ placed[i] # q.items[i].order
                THEN placed[CHOOSE i \in 1..Len(q.row) : q.row[i] = m] ELSE order[m]]
           /\ crossed' = (crossed \/ PathChanged(q))
        \/ /\ ~fits                                    \* 409, or a row that is gone
           /\ UNCHANGED <<above, order, crossed>>
     /\ Finish(r)
     /\ UNCHANGED <<isNote, stands, asked, looped>>

-----------------------------------------------------------------------------
(* Notes that end: the flag taken off, the trash, purge and restore        *)

\* /remove, /delete-with-file (only children the user may change are freed), DELETE of the
\* document and the admin's bulk delete (all are), the bulk action delete (none is).
EndNote(r, u, n, how) ==
  LET children == {m \in NoteIds : Present(m) /\ isNote[m] /\ above[m] = n}
  IN /\ stands[n] = "live" /\ n \in Writes[u]
     /\ how = "remove" => isNote[n]
     /\ Ask(r, [NoteIdle EXCEPT !.op = how, !.pc = "commit", !.u = u, !.n = n, !.order = order[n],
                  !.free = CASE how = "remove" ->
                               (children \cap Writes[u]) \cup {m \in {n} : above[m] # Top}
                             [] how = "trash with file" -> children \cap Writes[u]
                             [] how = "trash document" -> IF isNote[n] THEN children ELSE {}
                             [] how = "trash in bulk" -> {}])
     /\ UNCHANGED <<noteRows, crossed, looped>>

EndNoteCommit(r) ==
  LET q == noteReq[r]
      fits == Present(q.n) /\ \A m \in q.free : Present(m)
  IN /\ q.op \in {"remove", "trash with file", "trash document", "trash in bulk"} /\ q.pc = "commit"
     /\ \/ /\ fits /\ q.op = "remove"
           /\ above' = [m \in NoteIds |-> IF m \in q.free THEN Top ELSE above[m]]
           /\ isNote' = [isNote EXCEPT ![q.n] = FALSE]
           /\ order' = [order EXCEPT ![q.n] = IF q.order # 0 THEN 0 ELSE @]
           /\ UNCHANGED stands
        \/ /\ fits /\ q.op # "remove"
           /\ above' = [m \in NoteIds |-> IF m \in q.free THEN Top ELSE above[m]]
           /\ stands' = [stands EXCEPT ![q.n] = "trash"]
           /\ UNCHANGED <<isNote, order>>
        \/ /\ ~fits
           /\ UNCHANGED noteRows
     /\ Finish(r)
     /\ UNCHANGED <<asked, crossed, looped>>

RestoreNote(n) ==
  /\ asked < MaxNoteRequests /\ stands[n] = "trash"
  /\ asked' = asked + 1
  /\ stands' = [stands EXCEPT ![n] = "live"]
  /\ UNCHANGED <<above, isNote, order, noteReq, crossed, looped>>

\* ON DELETE SET NULL of parent_note_id.
PurgeNote(n) ==
  /\ asked < MaxNoteRequests /\ stands[n] = "trash"
  /\ asked' = asked + 1
  /\ stands' = [stands EXCEPT ![n] = "gone"]
  /\ above' = [m \in NoteIds |-> IF m = n \/ above[m] = n THEN Top ELSE above[m]]
  /\ UNCHANGED <<isNote, order, noteReq, crossed, looped>>

-----------------------------------------------------------------------------
NoteInit ==
  /\ above \in [NoteIds -> NoteIds \cup {Top}]
  /\ NoCircle
  /\ isNote \in [NoteIds -> BOOLEAN]
  /\ stands \in [NoteIds -> {"unused", "live", "trash"}]
  /\ \A n \in NoteIds : stands[n] = "unused" \/ ~isNote[n] => above[n] = Top
  /\ \A n \in NoteIds : above[n] # Top => Present(above[n])
  /\ order \in [NoteIds -> Lo..Hi]
  /\ noteReq = [r \in NoteSlots |-> NoteIdle]
  /\ asked = 0
  /\ crossed = FALSE
  /\ looped = FALSE

NoteStart(r) ==
  \E u \in NoteUsers :
     \/ \E p \in NoteIds \cup {Top} : CreateNote(r, u, p)
     \/ \E n \in NoteIds, p \in NoteIds \cup {Top} :
          \/ Convert(r, u, n, p)
          \/ \E position \in Positions : MoveNote(r, u, n, p, position)
     \/ \E n \in NoteIds, how \in {"remove", "trash with file", "trash document", "trash in bulk"} :
          EndNote(r, u, n, how)

NoteStep(r) ==
  \/ CreateNoteCommit(r) \/ ConvertCommit(r)
  \/ WalkUp(r) \/ PlaceNote(r) \/ MoveNoteCommit(r)
  \/ EndNoteCommit(r)

NoteNext ==
  \/ \E r \in NoteSlots : (MayAsk(r) /\ NoteStart(r)) \/ NoteStep(r)
  \/ \E n \in NoteIds : RestoreNote(n) \/ PurgeNote(n)

NoteSpec == NoteInit /\ [][NoteNext]_noteVars

-----------------------------------------------------------------------------
(* Properties                                                              *)

NoteTypeOK ==
  /\ above \in [NoteIds -> NoteIds \cup {Top}]
  /\ isNote \in [NoteIds -> BOOLEAN]
  /\ stands \in [NoteIds -> {"unused", "live", "trash", "gone"}]
  /\ order \in [NoteIds -> Lo..Hi]
  /\ \A r \in NoteSlots :
       /\ noteReq[r].pc \in {"idle", "walk", "place", "commit"}
       /\ noteReq[r].at \in NoteIds \cup {Top}
       /\ noteReq[r].edges \subseteq NoteIds \X (NoteIds \cup {Top})
       /\ noteReq[r].free \subseteq NoteIds
  /\ asked \in 0..MaxNoteRequests
  /\ crossed \in BOOLEAN /\ looped \in BOOLEAN

\* Whatever is moved, removed, thrown away and restored, each user's list shows every note he
\* may read: following the parents he sees, one comes to the top.  The exceptions, both made
\* by the code: a move committed over a path that had changed since it was read, and a
\* document made a note again below a note that had stayed below it.
EveryNoteIsListed ==
  crossed \/ looped \/
  \A u \in NoteUsers : \A S \in SUBSET Seen(u) :
     S # {} => \E n \in S : ShownBelow(u, n) \notin S

\* The walk of a move comes to the same note twice only when another request has changed the
\* path behind it (it has no memory, and on a circle it never ends).
WalkDoesNotReturn ==
  \A r \in NoteSlots :
    noteReq[r].pc = "walk" /\ (\E e \in noteReq[r].edges : e[1] = noteReq[r].at) =>
      crossed \/ looped \/ PathChanged(noteReq[r]) \/ \E e \in noteReq[r].edges : above[e[1]] # e[2]

\* Reordering keeps the notes of others where they are and puts all in the wanted sequence;
\* it is refused only when no choice of orders in the column could do so.
Wanted(items, o) ==
  \A i \in 1..Len(items) :
    /\ i \in Fixed(items) => o[i] = items[i].order
    /\ \A j \in 1..Len(items) : i < j /\ ~{i, j} \subseteq Fixed(items) => o[i] < o[j]

PlacesAreRight ==
  \A r \in NoteSlots :
    LET items == noteReq[r].items
        placed == PlaceOrders(items)
    IN items # <<>> =>
         IF placed # <<>> THEN Wanted(items, placed)
         ELSE \A o \in [1..Len(items) -> Lo..Hi] : ~Wanted(items, o)

\* The notes of a user's list are a tree, and the walk of a move comes to its end.
NotesAreATree == EveryNoteIsListed /\ WalkDoesNotReturn
=============================================================================
