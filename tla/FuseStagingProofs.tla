-------------------------- MODULE FuseStagingProofs --------------------------
(***************************************************************************)
(* Theorems about FuseStaging: types, that a text that was closed under a  *)
(* smooth name stays there, that a document has its file, and what holds   *)
(* when the sync is idle, for every set of names and handles, every choice *)
(* of calls and every bound.                                               *)
(*                                                                         *)
(* IInv is the inductive invariant: BaseInv is what the program always     *)
(* keeps, SmoothInv what it keeps of the smooth names.                     *)
(***************************************************************************)
EXTENDS FuseStaging, FiniteSetTheorems, WellFoundedInduction, TLAPS

\* The item x is in the sequence, and at one place only.
In(seq, x) == \E i \in 1 .. Len(seq) : seq[i] = x
Once(seq, x) == \A i, j \in 1 .. Len(seq) : seq[i] = x /\ seq[j] = x => i = j

\* A set of numbers that is not empty has a smallest one.
LEMMA SmallestExists ==
    ASSUME NEW S \in SUBSET Nat, S # {}
    PROVE  \E m \in S : \A k \in S : m <= k
<1>1. \E x \in S : \A y \in S : ~(<<y, x>> \in OpToRel(<, Nat))
  BY NatLessThanWellFounded, WFMin, Zenon
<1>2. PICK m \in S : \A k \in S : ~(<<k, m>> \in OpToRel(<, Nat))
  BY <1>1
<1>3. ASSUME NEW k \in S PROVE m <= k
  <2>1. ~(k < m)
    BY <1>2 DEF OpToRel
  <2> QED  BY <2>1
<1> QED  BY <1>3

\* p lists what is picked from the first items of seq, for each number of them up to k.
Picks(p, seq, items, k) ==
    p = [i \in 0 .. k |->
            IF i = 0 THEN <<>>
            ELSE IF seq[i] \in items THEN Append(p[i - 1], seq[i]) ELSE p[i - 1]]

\* There is such a list: one for k - 1 items is made one for k.
LEMMA PicksExist ==
    ASSUME NEW seq, NEW items, NEW n \in Nat
    PROVE  \E p : Picks(p, seq, items, n)
<1> DEFINE Bad == {k \in Nat : ~ \E p : Picks(p, seq, items, k)}
<1> SUFFICES ASSUME Bad # {} PROVE FALSE
  OBVIOUS
<1>1. PICK k \in Bad : \A l \in Bad : k <= l
  BY SmallestExists
<1>2. CASE k = 0
  <2> DEFINE p == [i \in 0 .. 0 |-> <<>>]
  <2>1. Picks(p, seq, items, 0)
    BY DEF Picks
  <2> QED  BY <1>2, <2>1
<1>3. CASE k # 0
  <2>1. k - 1 \in Nat /\ ~(k <= k - 1)
    BY <1>3
  <2>2. PICK p : Picks(p, seq, items, k - 1)
    BY <1>1, <2>1
  <2> DEFINE more == IF seq[k] \in items THEN Append(p[k - 1], seq[k]) ELSE p[k - 1]
             q == [i \in 0 .. k |-> IF i = k THEN more ELSE p[i]]
  <2>3. ASSUME NEW i \in 0 .. k
        PROVE  q[i] = IF i = 0 THEN <<>>
                      ELSE IF seq[i] \in items THEN Append(q[i - 1], seq[i]) ELSE q[i - 1]
    <3>1. CASE i = k
      BY <1>3, <3>1
    <3>2. CASE i = 0
      BY <1>3, <2>2, <3>2 DEF Picks
    <3>3. CASE i # k /\ i # 0
      <4>1. i \in 0 .. (k - 1) /\ i - 1 \in 0 .. k /\ i - 1 # k
        BY <3>3
      <4>2. q[i] = p[i] /\ q[i - 1] = p[i - 1]
        BY <3>3, <4>1
      <4> QED  BY <2>2, <3>3, <4>1, <4>2 DEF Picks
    <3> QED  BY <3>1, <3>2, <3>3
  <2>4. Picks(q, seq, items, k)
    <3> HIDE DEF more
    <3>1. q = [i \in 0 .. k |-> q[i]]
      OBVIOUS
    <3> HIDE DEF q
    <3> QED  BY <2>3, <3>1, Zenon DEF Picks
  <2> QED  BY <2>4
<1> QED  BY <1>2, <1>3

\* Picked is what such a list has for the whole sequence.
LEMMA PickedIsLast ==
    ASSUME NEW X, NEW seq \in Seq(X), NEW items
    PROVE  \E p : Picks(p, seq, items, Len(seq)) /\ Picked(seq, items) = p[Len(seq)]
<1> DEFINE p == CHOOSE p : Picks(p, seq, items, Len(seq))
<1>1. Picks(p, seq, items, Len(seq))
  BY PicksExist
<1>2. Picked(seq, items) = p[Len(seq)]
  BY DEF Picked, Picks
<1> QED  BY <1>1, <1>2

\* The list begins with nothing, and each item adds itself or nothing.
LEMMA PicksNext ==
    ASSUME NEW X, NEW seq \in Seq(X), NEW items, NEW p, Picks(p, seq, items, Len(seq))
    PROVE  /\ p[0] = <<>>
           /\ \A i \in 1 .. Len(seq) :
                 p[i] = IF seq[i] \in items THEN Append(p[i - 1], seq[i]) ELSE p[i - 1]
<1>1. Len(seq) \in Nat
  OBVIOUS
<1>2. ASSUME NEW i \in 1 .. Len(seq) PROVE i \in 0 .. Len(seq) /\ i # 0
  BY <1>1
<1>3. p[0] = <<>>
  BY <1>1 DEF Picks
<1>4. ASSUME NEW i \in 1 .. Len(seq)
      PROVE  p[i] = IF seq[i] \in items THEN Append(p[i - 1], seq[i]) ELSE p[i - 1]
  BY <1>2 DEF Picks
<1> QED  BY <1>3, <1>4

\* What was picked up to i: items of the set that were there, in their order.
Picked1(p, seq, items, i, X) ==
    /\ p[i] \in Seq(X)
    /\ \A a \in 1 .. Len(p[i]) : p[i][a] \in items /\ \E k \in 1 .. i : seq[k] = p[i][a]
    /\ \A k \in 1 .. i : seq[k] \in items => In(p[i], seq[k])
    /\ \A a, b \in 1 .. Len(p[i]) : a < b =>
          \E k, l \in 1 .. i : k < l /\ p[i][a] = seq[k] /\ p[i][b] = seq[l]

\* What is said of the list for i - 1 items holds for i.
LEMMA PickedStep ==
    ASSUME NEW X, NEW seq \in Seq(X), NEW items, NEW p,
           Picks(p, seq, items, Len(seq)),
           NEW i \in 1 .. Len(seq), Picked1(p, seq, items, i - 1, X)
    PROVE  Picked1(p, seq, items, i, X)
<1> DEFINE s == p[i - 1]
           t == p[i]
<1>1. t = IF seq[i] \in items THEN Append(s, seq[i]) ELSE s
  BY PicksNext
<1>2. seq[i] \in X /\ s \in Seq(X) /\ i \in Nat /\ i # 0
  BY DEF Picked1
<1>3. CASE seq[i] \notin items
  <2>1. t = s
    BY <1>1, <1>3
  <2> QED  BY <1>2, <1>3, <2>1 DEF Picked1
<1>4. CASE seq[i] \in items
  <2>1. t = Append(s, seq[i])
    BY <1>1, <1>4
  <2>2. /\ t \in Seq(X) /\ Len(t) = Len(s) + 1 /\ t[Len(t)] = seq[i]
        /\ \A a \in 1 .. Len(s) : t[a] = s[a]
    BY <1>2, <2>1
  <2>3. ASSUME NEW a \in 1 .. Len(t)
        PROVE  t[a] \in items /\ \E k \in 1 .. i : seq[k] = t[a]
    <3>1. CASE a = Len(t)
      BY <1>2, <1>4, <2>2, <3>1
    <3>2. CASE a # Len(t)
      <4>1. a \in 1 .. Len(s)
        BY <1>2, <2>2, <3>2
      <4>2. s[a] \in items /\ \E k \in 1 .. i - 1 : seq[k] = s[a]
        BY <4>1 DEF Picked1
      <4>3. PICK k \in 1 .. i - 1 : seq[k] = s[a]
        BY <4>2
      <4>4. k \in 1 .. i /\ t[a] = s[a]
        BY <1>2, <2>2, <4>1
      <4> QED  BY <4>2, <4>3, <4>4
    <3> QED  BY <3>1, <3>2
  <2>4. ASSUME NEW k \in 1 .. i, seq[k] \in items PROVE In(t, seq[k])
    <3>1. CASE k = i
      BY <1>2, <2>2, <3>1 DEF In
    <3>2. CASE k # i
      <4>1. In(s, seq[k])
        BY <1>2, <2>4, <3>2 DEF Picked1
      <4> QED  BY <1>2, <2>2, <4>1 DEF In
    <3> QED  BY <3>1, <3>2
  <2>5. ASSUME NEW a \in 1 .. Len(t), NEW b \in 1 .. Len(t), a < b
        PROVE  \E k, l \in 1 .. i : k < l /\ t[a] = seq[k] /\ t[b] = seq[l]
    <3>1. a \in 1 .. Len(s)
      BY <1>2, <2>2, <2>5
    <3>2. CASE b = Len(t)
      <4>1. PICK k \in 1 .. i - 1 : seq[k] = s[a]
        BY <3>1 DEF Picked1
      <4>2. k \in 1 .. i /\ i \in 1 .. i /\ k < i
        BY <1>2
      <4> QED  BY <2>2, <3>1, <3>2, <4>1, <4>2
    <3>3. CASE b # Len(t)
      <4>1. b \in 1 .. Len(s)
        BY <1>2, <2>2, <3>3
      <4>2. PICK k \in 1 .. i - 1, l \in 1 .. i - 1 : k < l /\ s[a] = seq[k] /\ s[b] = seq[l]
        BY <2>5, <3>1, <4>1 DEF Picked1
      <4>3. k \in 1 .. i /\ l \in 1 .. i
        BY <1>2
      <4> QED  BY <2>2, <3>1, <4>1, <4>2, <4>3
    <3> QED  BY <3>2, <3>3
  <2> QED  BY <2>2, <2>3, <2>4, <2>5 DEF Picked1
<1> QED  BY <1>3, <1>4

\* And so for the whole sequence.
LEMMA PickedAll ==
    ASSUME NEW X, NEW seq \in Seq(X), NEW items, NEW p,
           Picks(p, seq, items, Len(seq))
    PROVE  Picked1(p, seq, items, Len(seq), X)
<1> DEFINE Bad == {i \in Nat : i <= Len(seq) /\ ~Picked1(p, seq, items, i, X)}
<1>0. Len(seq) \in Nat
  OBVIOUS
<1> SUFFICES ASSUME Bad # {} PROVE FALSE
  BY <1>0
<1>1. PICK i \in Bad : \A l \in Bad : i <= l
  BY SmallestExists
<1>2. CASE i = 0
  <2>1. p[0] = <<>>
    BY PicksNext
  <2>2. Picked1(p, seq, items, 0, X)
    BY <2>1 DEF Picked1
  <2> QED  BY <1>1, <1>2, <2>2
<1>3. CASE i # 0
  <2>1. i - 1 \in Nat /\ ~(i <= i - 1) /\ i - 1 <= Len(seq)
    BY <1>0, <1>1, <1>3
  <2>2. Picked1(p, seq, items, i - 1, X)
    BY <1>1, <2>1
  <2>3. i \in 1 .. Len(seq)
    BY <1>0, <1>1, <1>3
  <2>4. Picked1(p, seq, items, i, X)
    BY <2>2, <2>3, PickedStep
  <2> QED  BY <1>1, <2>4
<1> QED  BY <1>2, <1>3

\* Picked keeps the items of the set, in their order: what is there once stays so.
LEMMA PickedIs ==
    ASSUME NEW X, NEW seq \in Seq(X), NEW items
    PROVE  /\ Picked(seq, items) \in Seq(X)
           /\ \A x : In(Picked(seq, items), x) <=> In(seq, x) /\ x \in items
           /\ \A x : Once(seq, x) => Once(Picked(seq, items), x)
<1>1. PICK p : Picks(p, seq, items, Len(seq)) /\ Picked(seq, items) = p[Len(seq)]
  BY PickedIsLast
<1>2. Picked1(p, seq, items, Len(seq), X)
  BY <1>1, PickedAll
<1> DEFINE t == p[Len(seq)]
<1>3. ASSUME NEW x PROVE In(t, x) <=> In(seq, x) /\ x \in items
  BY <1>2 DEF Picked1, In
<1>4. ASSUME NEW x, Once(seq, x) PROVE Once(t, x)
  <2> SUFFICES ASSUME NEW a \in 1 .. Len(t), NEW b \in 1 .. Len(t), t[a] = x, t[b] = x, a < b
               PROVE  FALSE
    <3>1. Len(t) \in Nat
      BY <1>2 DEF Picked1
    <3> QED  BY <3>1 DEF Once
  <2>1. PICK k \in 1 .. Len(seq), l \in 1 .. Len(seq) : k < l /\ t[a] = seq[k] /\ t[b] = seq[l]
    BY <1>2 DEF Picked1
  <2> QED  BY <1>4, <2>1 DEF Once
<1> QED  BY <1>1, <1>2, <1>3, <1>4 DEF Picked1

\* What is picked and what is left are as many as there were.
LEMMA PickedCount ==
    ASSUME NEW X, NEW seq \in Seq(X), NEW items
    PROVE  Len(Picked(seq, items)) + Len(Picked(seq, Range(seq) \ items)) = Len(seq)
<1> DEFINE rest == Range(seq) \ items
<1>1. PICK p : Picks(p, seq, items, Len(seq)) /\ Picked(seq, items) = p[Len(seq)]
  BY PickedIsLast
<1>2. PICK r : Picks(r, seq, rest, Len(seq)) /\ Picked(seq, rest) = r[Len(seq)]
  BY PickedIsLast
<1> DEFINE Sums(i) == p[i] \in Seq(X) /\ r[i] \in Seq(X) /\ Len(p[i]) + Len(r[i]) = i
           Bad == {i \in Nat : i <= Len(seq) /\ ~Sums(i)}
<1>3. Len(seq) \in Nat
  OBVIOUS
<1>4. Sums(0)
  <2>1. p[0] = <<>> /\ r[0] = <<>>
    BY <1>1, <1>2, PicksNext
  <2> QED  BY <2>1
<1>5. ASSUME NEW i \in 1 .. Len(seq), Sums(i - 1) PROVE Sums(i)
  <2>1. /\ p[i] = IF seq[i] \in items THEN Append(p[i - 1], seq[i]) ELSE p[i - 1]
        /\ r[i] = IF seq[i] \in rest THEN Append(r[i - 1], seq[i]) ELSE r[i - 1]
    BY <1>1, <1>2, PicksNext
  <2>2. seq[i] \in X /\ (seq[i] \in rest <=> seq[i] \notin items)
    <3>1. seq[i] \in Range(seq)
      BY DEF Range
    <3> QED  BY <3>1
  <2> DEFINE u == p[i - 1]
             v == r[i - 1]
  <2>3. u \in Seq(X) /\ v \in Seq(X) /\ Len(u) + Len(v) = i - 1
    BY <1>5
  <2> HIDE DEF u, v, rest
  <2>4. CASE seq[i] \in items
    <3>1. p[i] = Append(u, seq[i]) /\ r[i] = v
      BY <2>1, <2>2, <2>4 DEF u, v
    <3> QED  BY <2>2, <2>3, <3>1
  <2>5. CASE seq[i] \notin items
    <3>1. p[i] = u /\ r[i] = Append(v, seq[i])
      BY <2>1, <2>2, <2>5 DEF u, v
    <3> QED  BY <2>2, <2>3, <3>1
  <2> QED  BY <2>4, <2>5
<1> HIDE DEF Sums
<1>6. Bad = {}
  <2> SUFFICES ASSUME Bad # {} PROVE FALSE
    OBVIOUS
  <2>1. PICK i \in Bad : \A l \in Bad : i <= l
    BY SmallestExists
  <2>2. i \in Nat /\ i # 0 /\ i <= Len(seq) /\ ~Sums(i)
    BY <1>4, <2>1
  <2>3. i - 1 \in Nat /\ ~(i <= i - 1) /\ i - 1 <= Len(seq) /\ i \in 1 .. Len(seq)
    BY <1>3, <2>2
  <2>4. Sums(i - 1)
    BY <2>1, <2>3
  <2> QED  BY <1>5, <2>2, <2>3, <2>4
<1>7. Sums(Len(seq))
  BY <1>3, <1>6
<1> QED  BY <1>1, <1>2, <1>7 DEF Sums

-----------------------------------------------------------------------------
(* The invariant                                                           *)

FileItem(f) == <<"file", f>>
DocItem(d) == <<"reindex", d>>

\* The files that were created, the documents that were inserted, and the items for them
Born == {f \in File : file[f].name # Nil}
Known == {d \in Doc : doc[d].state \in {"live", "deleted"}}
Work == {FileItem(f) : f \in {f \in Born : file[f].closed /\ ~file[f].temp}}
            \cup {DocItem(d) : d \in Known}

FileRecord == [name : Name \cup {Nil}, moved : Doc \cup {Nil}, temp : BOOLEAN,
               closed : BOOLEAN, deleted : BOOLEAN]
HandleRecord == [kind : {"free", "staging", "db"}, of : File \cup Doc \cup {Nil},
                 inode : File \cup {Nil}, dirty : BOOLEAN]
DocRecord == [state : {"none", "path", "gone", "live", "deleted"}, name : Name \cup {Nil},
              indexed : Text]

\* TypeOK in parts, with what is queued and under way as sequences of items; a handle is of
\* a file in staging, or of a document.
FileType == file \in [File -> FileRecord]
PendingType ==
    /\ pending \in [Name -> Born \cup {Nil}]
    /\ \A n \in Name : pending[n] # Nil => file[pending[n]].name = n /\ ~file[pending[n]].deleted
DiskType ==
    /\ staging \in [Name -> Born \cup {Nil}] /\ stored \in [Doc -> Born \cup {Nil}]
    /\ data \in [File -> Text]
HandleType ==
    /\ handle \in [Handle -> HandleRecord]
    /\ \A h \in Handle :
          /\ handle[h].kind = "free" => handle[h] = Closed
          /\ handle[h].kind # "free" => handle[h].inode \in Born
          /\ handle[h].kind = "staging" => handle[h].of \in Born
          /\ handle[h].kind = "db" => handle[h].of \in Known
SyncType ==
    /\ queue \in Seq(Work) /\ round \in Seq(Work)
    /\ step \in {"look", "move", "insert", "forget"}
DocType ==
    /\ doc \in [Doc -> DocRecord]
    /\ \A d \in Doc : doc[d].state = "live" => doc[d].name \in Name
SavedType == saved \in [Name -> Text] /\ rough \subseteq Name

TypeInv == /\ FileType /\ PendingType /\ DiskType /\ HandleType /\ SyncType /\ DocType
           /\ SavedType

\* The sync is past its look at an item only when there is one, a file, and there is a path
\* without a row just before the insert.
StepInv ==
    /\ step # "look" => round # <<>> /\ Head(round)[1] = "file"
    /\ step # "insert" => \A d \in Doc : doc[d].state # "path"
    /\ step = "insert" => \E d \in Doc : \A e \in Doc : doc[e].state = "path" <=> e = d

\* What is open, queued or under way will have a document left.
Made == {d \in Doc : doc[d] # NoDoc}
Todo == Len(queue) + Len(round) - (IF step \in {"insert", "forget"} THEN 1 ELSE 0)
RoomInv == Cardinality(Made) + Todo + Cardinality(Opened) <= MaxDoc

BaseInv == TypeInv /\ StepInv /\ RoomInv

-----------------------------------------------------------------------------
(* Types                                                                   *)

\* The bounds are natural numbers.
LEMMA Bounds == MaxFile \in Nat /\ MaxDoc \in Nat /\ MaxText \in Nat
BY BoundsAssumption

\* A set of numbers with a bound that is not empty has a largest one.
LEMMA LargestExists ==
    ASSUME NEW n \in Nat, NEW S \in SUBSET (0 .. n), S # {}
    PROVE  \E m \in S : \A k \in S : k <= m
<1> DEFINE T == {n - k : k \in S}
<1>1. T \in SUBSET Nat /\ T # {}
  <2>1. PICK k \in S : TRUE
    OBVIOUS
  <2>2. n - k \in T
    BY <2>1
  <2>3. \A j \in S : n - j \in Nat
    OBVIOUS
  <2> QED  BY <2>2, <2>3
<1>2. PICK t \in T : \A u \in T : t <= u
  BY <1>1, SmallestExists
<1>3. PICK m \in S : t = n - m
  BY <1>2
<1>4. ASSUME NEW k \in S PROVE k <= m
  <2>1. n - m <= n - k
    BY <1>2, <1>3
  <2> QED  BY <2>1
<1> QED  BY <1>4

\* LastText is a text, and none is newer.
LEMMA LastTextIs ==
    ASSUME TypeInv, File # {}
    PROVE  /\ LastText \in Text
           /\ \A i \in File : data[i] \in Text /\ data[i] <= LastText
           /\ \A n \in Name : saved[n] \in Text /\ saved[n] <= LastText
<1> DEFINE texts == {data[i] : i \in File} \cup {saved[n] : n \in Name}
<1>1. /\ \A i \in File : data[i] \in Text
      /\ \A n \in Name : saved[n] \in Text
  BY DEF TypeInv, DiskType, SavedType
<1>2. texts \in SUBSET (0 .. MaxText) /\ texts # {}
  BY <1>1 DEF Text
<1>3. \E t \in texts : \A u \in texts : u <= t
  BY <1>2, LargestExists, Bounds
<1>4. LastText \in texts /\ \A u \in texts : u <= LastText
  BY <1>3 DEF LastText
<1> QED  BY <1>1, <1>2, <1>4 DEF Text

\* The head of a sequence of items
LEMMA HeadIs ==
    ASSUME TypeInv, round # <<>>
    PROVE  /\ Head(round) \in Work /\ Tail(round) \in Seq(Work)
           /\ Head(round)[1] = "file" =>
                 /\ Item \in Born /\ Head(round) = FileItem(Item)
                 /\ file[Item].closed /\ ~file[Item].temp
           /\ Head(round)[1] = "reindex" => Item \in Known /\ Head(round) = DocItem(Item)
<1>1. Head(round) \in Work /\ Tail(round) \in Seq(Work)
  BY DEF TypeInv, SyncType
<1> QED  BY <1>1 DEF Work, Item, FileItem, DocItem

\* Sequences of items, as the type invariant says it
LEMMA RangeIs ==
    ASSUME NEW seq \in Seq(Work)
    PROVE  Range(seq) \subseteq {"file", "reindex"} \X (File \cup Doc)
<1>1. \A i \in DOMAIN seq : seq[i] \in Work
  OBVIOUS
<1> QED  BY <1>1 DEF Range, Work, Born, Known, FileItem, DocItem

\* The parts together are TypeOK.
LEMMA TypesFit == TypeInv => TypeOK
<1> SUFFICES ASSUME TypeInv PROVE TypeOK
  OBVIOUS
<1>1. Range(queue) \cup Range(round) \subseteq {"file", "reindex"} \X (File \cup Doc)
  BY RangeIs DEF TypeInv, SyncType
<1>2. Born \subseteq File /\ Known \subseteq Doc
  BY DEF Born, Known
<1> QED  BY <1>1, <1>2 DEF TypeInv, TypeOK, FileType, PendingType, DiskType, HandleType, SyncType, DocType,
                     SavedType, FileRecord, HandleRecord, DocRecord

\* The inode of a file is one, or none.
LEMMA InodeIs ==
    ASSUME TypeInv, NEW f \in Born
    PROVE  /\ f \in File /\ Inode(f) \in Born \cup {Nil}
           /\ file[f].name \in Name /\ (file[f].moved # Nil => file[f].moved \in Doc)
BY DEF TypeInv, FileType, DiskType, FileRecord, Inode, Born

\* Final is the one path without a row.
LEMMA FinalIs ==
    ASSUME StepInv, step = "insert"
    PROVE  /\ Final \in Doc /\ doc[Final].state = "path"
           /\ \A d \in Doc : doc[d].state = "path" => d = Final
BY DEF StepInv, Final

\* The documents made and the open handles can be counted.
LEMMA Counts ==
    /\ IsFiniteSet(Doc) /\ Cardinality(Doc) = MaxDoc
    /\ IsFiniteSet(Made) /\ Cardinality(Made) \in Nat
    /\ IsFiniteSet(Opened) /\ Cardinality(Opened) \in Nat
<1>1. IsFiniteSet(Doc) /\ Cardinality(Doc) = MaxDoc
  BY FS_Interval, Bounds DEF Doc
<1>2. Made \subseteq Doc /\ Opened \subseteq Handle
  BY DEF Made, Opened
<1>3. IsFiniteSet(Made) /\ IsFiniteSet(Opened)
  BY <1>1, <1>2, FS_Subset, BoundsAssumption
<1> QED  BY <1>1, <1>3, FS_CardinalityType

\* As long as an item is to be moved a document is left for it.
LEMMA NextDocIs ==
    ASSUME TypeInv, RoomInv, round # <<>>, step = "move"
    PROVE  NextDoc \in Doc /\ doc[NextDoc] = NoDoc
<1>1. Len(queue) \in Nat /\ Len(round) \in Nat /\ Len(round) >= 1
  BY DEF TypeInv, SyncType
<1>2. Todo >= 1 /\ Todo \in Nat
  BY <1>1 DEF Todo
<1>3. Cardinality(Made) < MaxDoc
  BY <1>2, Counts, Bounds DEF RoomInv
<1>4. \E d \in Doc : doc[d] = NoDoc
  <2>1. SUFFICES ASSUME \A d \in Doc : doc[d] # NoDoc PROVE FALSE
    OBVIOUS
  <2>2. Made = Doc
    BY <2>1 DEF Made
  <2> QED  BY <1>3, <2>2, Counts, Bounds
<1> DEFINE left == {d \in Doc : doc[d] = NoDoc}
<1>5. left \in SUBSET Nat /\ left # {}
  BY <1>4 DEF Doc
<1>6. \E d \in left : \A e \in left : d <= e
  BY <1>5, SmallestExists
<1>7. \E d \in Doc : doc[d] = NoDoc /\ \A e \in Doc : doc[e] = NoDoc => d <= e
  BY <1>6
<1> QED  BY <1>7 DEF NextDoc

USE NameAssumption DEF disk, sync, Nil

\* Files and documents stay, and so does the work there may be for them.
Grows == Born \subseteq Born' /\ Known \subseteq Known' /\ Work \subseteq Work'

\* Items that could be queued before can be after a step that only adds to files and documents.
LEMMA WorkGrows ==
    ASSUME \A f \in Born : /\ file'[f].name # Nil /\ file'[f].temp = file[f].temp
                           /\ file[f].closed => file'[f].closed,
           \A d \in Known : doc'[d].state \in {"live", "deleted"}
    PROVE  Grows
BY DEF Grows, Born, Known, Work

\* What create does: a new file, and its inode unless one is at its path.
LEMMA CreateIs ==
    ASSUME TypeInv, NEW n \in Name, NEW h \in Handle, Create(n, h)
    PROVE  \E f \in File :
              /\ f \notin Born /\ file[f].moved = Nil /\ handle[h] = Closed /\ ~Shown(n)
              /\ file' \in [File -> FileRecord]
              /\ \A g \in File : g # f => file'[g] = file[g]
              /\ file'[f].name = n /\ file'[f].moved = Nil /\ (file'[f].temp <=> n \in Temp)
              /\ ~file'[f].closed /\ ~file'[f].deleted
              /\ pending' = [pending EXCEPT ![n] = f]
              /\ \/ staging[n] = Nil /\ staging' = [staging EXCEPT ![n] = f] /\ data' = data
                 \/ /\ staging[n] # Nil /\ staging' = staging
                    /\ data' = [data EXCEPT ![staging[n]] = Nil]
              /\ handle' \in [Handle -> HandleRecord]
              /\ \A k \in Handle : k # h => handle'[k] = handle[k]
              /\ handle'[h].kind = "staging" /\ handle'[h].of = f
              /\ handle'[h].inode = staging'[n] /\ ~handle'[h].dirty
              /\ Room
              /\ UNCHANGED <<stored, queue, round, step, doc, saved, rough>>
<1> PICK f \in File :
       /\ handle[h] = Closed /\ ~Shown(n) /\ Room
       /\ file' = [file EXCEPT ![f] = NewFile(n)]
       /\ pending' = [pending EXCEPT ![n] = f]
       /\ IF staging[n] = Nil
          THEN staging' = [staging EXCEPT ![n] = f] /\ data' = data
          ELSE staging' = staging /\ data' = [data EXCEPT ![staging[n]] = Nil]
       /\ handle' = [handle EXCEPT ![h] =
              [kind |-> "staging", of |-> f, inode |-> staging'[n], dirty |-> FALSE]]
       /\ file[f] = NoFile
       /\ UNCHANGED <<stored, queue, round, step, doc, saved, rough>>
  BY DEF Create
<1>1. /\ NewFile(n) \in FileRecord /\ NewFile(n).name = n /\ ~NewFile(n).deleted
      /\ NewFile(n).moved = Nil /\ ~NewFile(n).closed /\ (NewFile(n).temp <=> n \in Temp)
  <2>1. (n \in Temp) \in BOOLEAN
    OBVIOUS
  <2>2. NewFile(n) \in FileRecord
    BY <2>1 DEF NewFile, FileRecord
  <2> QED  BY <2>2 DEF NewFile
<1>2. /\ file' \in [File -> FileRecord] /\ file'[f] = NewFile(n)
      /\ \A g \in File : g # f => file'[g] = file[g]
  BY <1>1 DEF TypeInv, FileType
<1>3. f \notin Born /\ file[f].moved = Nil
  BY DEF Born, NoFile
<1>4. staging'[n] \in File
  BY DEF TypeInv, DiskType, Born
<1>5. [kind |-> "staging", of |-> f, inode |-> staging'[n], dirty |-> FALSE] \in HandleRecord
  BY <1>4 DEF HandleRecord
<1>6. /\ handle' \in [Handle -> HandleRecord]
      /\ handle'[h] = [kind |-> "staging", of |-> f, inode |-> staging'[n], dirty |-> FALSE]
      /\ \A k \in Handle : k # h => handle'[k] = handle[k]
  BY <1>5 DEF TypeInv, HandleType
<1> WITNESS f \in File
<1> QED  BY <1>1, <1>2, <1>3, <1>6

\* create keeps the types.
LEMMA CreateTypes ==
    ASSUME TypeInv, NEW n \in Name, NEW h \in Handle, Create(n, h)
    PROVE  TypeInv' /\ Grows
<1> USE DEF TypeInv
<1> PICK f \in File :
              /\ f \notin Born
              /\ file' \in [File -> FileRecord]
              /\ \A g \in File : g # f => file'[g] = file[g]
              /\ file'[f].name = n /\ ~file'[f].deleted
              /\ pending' = [pending EXCEPT ![n] = f]
              /\ \/ staging[n] = Nil /\ staging' = [staging EXCEPT ![n] = f] /\ data' = data
                 \/ /\ staging[n] # Nil /\ staging' = staging
                    /\ data' = [data EXCEPT ![staging[n]] = Nil]
              /\ handle' \in [Handle -> HandleRecord]
              /\ \A k \in Handle : k # h => handle'[k] = handle[k]
              /\ handle'[h].kind = "staging" /\ handle'[h].of = f
              /\ handle'[h].inode = staging'[n]
              /\ UNCHANGED <<stored, queue, round, step, doc, saved, rough>>
  BY CreateIs
<1>1. Grows
  BY WorkGrows DEF Born, Known
<1>2. f \in Born'
  BY DEF Born
<1>3. FileType'
  BY DEF FileType
<1>4. PendingType'
  <2>1. pending' \in [Name -> Born' \cup {Nil}]
    BY <1>1, <1>2 DEF PendingType, Grows
  <2>2. \A m \in Name : pending[m] # Nil => pending[m] # f
    BY DEF PendingType
  <2> QED  BY <2>1, <2>2 DEF PendingType, Born
<1>5. DiskType'
  BY <1>1, <1>2, Bounds DEF DiskType, Text, Grows, Born
<1>6. HandleType'
  <2>1. staging'[n] \in Born'
    BY <1>1, <1>2 DEF DiskType, Grows
  <2> QED  BY <2>1, <1>1, <1>2 DEF HandleType, Grows
<1>7. SyncType'
  BY <1>1 DEF SyncType, Grows
<1>8. DocType' /\ SavedType'
  BY DEF DocType, SavedType
<1> QED  BY <1>1, <1>3, <1>4, <1>5, <1>6, <1>7, <1>8

\* What open does: a handle of the file, or of the document.
LEMMA OpenTypes ==
    ASSUME TypeInv, NEW n \in Name, NEW h \in Handle, OpenPending(n, h) \/ OpenDoc(n, h)
    PROVE  TypeInv' /\ Grows
<1> USE DEF TypeInv
<1>1. UNCHANGED <<file, pending, disk, queue, sync, doc, saved>> /\ rough' \subseteq Name
  BY DEF OpenPending, OpenDoc, SavedType
<1>2. Born' = Born /\ Known' = Known /\ Work' = Work
  BY <1>1 DEF Born, Known, Work
<1>3. \E i, o, k : /\ handle' = [handle EXCEPT ![h] = [kind |-> k, of |-> o, inode |-> i, dirty |-> FALSE]]
                   /\ i \in Born
                   /\ \/ k = "staging" /\ o \in Born
                      \/ k = "db" /\ o \in Known
  <2>1. CASE OpenPending(n, h)
    <3>1. pending[n] \in Born
      BY <2>1 DEF OpenPending, PendingType, IsPending
    <3>2. Inode(pending[n]) \in Born
      BY <2>1, <3>1, InodeIs DEF OpenPending
    <3> QED  BY <2>1, <3>1, <3>2 DEF OpenPending
  <2>2. CASE OpenDoc(n, h)
    BY <2>2 DEF OpenDoc, DiskType, SameName, Known
  <2> QED  BY <2>1, <2>2
<1>4. HandleType'
  BY <1>2, <1>3 DEF HandleType, HandleRecord, Born, Known
<1> QED  BY <1>1, <1>2, <1>4 DEF Grows, FileType, PendingType, DiskType, SyncType, DocType, SavedType

\* What write does: a newer text, and a mark on the handle of a document.
LEMMA WriteIs ==
    ASSUME TypeInv, NEW h \in Handle, Write(h)
    PROVE  /\ handle[h].kind # "free" /\ handle[h].inode \in Born
           /\ LastText + 1 \in Text /\ data' = [data EXCEPT ![handle[h].inode] = LastText + 1]
           /\ \A i \in File : data'[i] >= data[i]
           /\ handle' \in [Handle -> HandleRecord]
           /\ \A k \in Handle : /\ handle'[k].kind = handle[k].kind /\ handle'[k].of = handle[k].of
                                /\ handle'[k].inode = handle[k].inode
                                /\ k # h => handle'[k] = handle[k]
           /\ handle'[h].dirty <=> handle[h].kind = "db"
           /\ UNCHANGED <<file, pending, staging, stored, queue, round, step, doc, saved, rough>>
<1> USE DEF TypeInv, Write
<1>1. handle[h].kind # "free" /\ handle[h].inode \in Born
  BY DEF HandleType
<1>2. /\ LastText \in Text /\ LastText + 1 \in Text
      /\ \A i \in File : data[i] \in Text /\ data[i] <= LastText
  <2>1. File # {}
    BY <1>1 DEF Born
  <2> QED  BY <2>1, LastTextIs, Bounds DEF Text
<1>3. \A i \in File : data'[i] >= data[i]
  BY <1>2 DEF DiskType, Text
<1>4. handle' \in [Handle -> HandleRecord]
  <2>1. handle \in [Handle -> HandleRecord]
    BY DEF HandleType
  <2> HIDE DEF TypeInv, Write
  <2>2. ASSUME NEW b \in BOOLEAN, handle' = [handle EXCEPT ![h].dirty = b]
        PROVE  handle' \in [Handle -> HandleRecord]
    BY <2>1, <2>2 DEF HandleRecord
  <2>3. handle' = [handle EXCEPT ![h].dirty = handle[h].kind = "db"]
    BY DEF Write
  <2> QED  BY <2>2, <2>3
<1>5. \A k \in Handle : /\ handle'[k].kind = handle[k].kind /\ handle'[k].of = handle[k].of
                        /\ handle'[k].inode = handle[k].inode
                        /\ k # h => handle'[k] = handle[k]
  BY DEF HandleType, HandleRecord
<1>6. handle'[h].dirty <=> handle[h].kind = "db"
  BY DEF HandleType, HandleRecord
<1> QED  BY <1>1, <1>2, <1>3, <1>4, <1>5, <1>6

\* write keeps the types.
LEMMA WriteTypes ==
    ASSUME TypeInv, NEW h \in Handle, Write(h)
    PROVE  TypeInv' /\ Grows
<1> USE DEF TypeInv
<1>1. UNCHANGED <<file, pending, staging, stored, queue, round, step, doc, saved, rough>>
  BY WriteIs
<1>2. Born' = Born /\ Known' = Known /\ Work' = Work
  BY <1>1 DEF Born, Known, Work
<1>3. DiskType'
  BY <1>1, <1>2, WriteIs DEF DiskType
<1>4. HandleType'
  <2>1. CASE handle[h].kind = "free"
    BY <2>1, WriteIs
  <2>2. CASE handle[h].kind # "free"
    BY <1>2, <2>2, WriteIs DEF HandleType
  <2> QED  BY <2>1, <2>2
<1> QED  BY <1>1, <1>2, <1>3, <1>4 DEF Grows, FileType, PendingType, SyncType, DocType, SavedType

\* What release queues: a file in staging that is there and not temporary, or a document
\* that was written.
LEMMA ReleaseIs ==
    ASSUME TypeInv, NEW h \in Handle, Release(h)
    PROVE  /\ handle[h].kind \in {"staging", "db"} /\ handle[h].inode \in Born
           /\ handle' = [handle EXCEPT ![h] = Closed]
           /\ \/ /\ handle[h].kind = "staging" /\ handle[h].of \in Born
                 /\ ~file[handle[h].of].temp /\ ~file[handle[h].of].deleted
                 /\ file' = [file EXCEPT ![handle[h].of].closed = TRUE]
                 /\ queue' = Append(queue, FileItem(handle[h].of))
              \/ /\ handle[h].kind = "staging" /\ handle[h].of \in Born
                 /\ file[handle[h].of].temp \/ file[handle[h].of].deleted
                 /\ UNCHANGED <<file, queue>>
              \/ /\ handle[h].kind = "db" /\ handle[h].of \in Known /\ handle[h].dirty
                 /\ queue' = Append(queue, DocItem(handle[h].of))
                 /\ UNCHANGED file
              \/ /\ handle[h].kind = "db" /\ handle[h].of \in Known /\ ~handle[h].dirty
                 /\ UNCHANGED <<file, queue>>
           /\ saved' = [n \in Name |-> IF n \in NamesOf(h) THEN data[handle[h].inode] ELSE saved[n]]
           /\ UNCHANGED <<pending, staging, stored, data, round, step, doc, rough>>
<1>1. /\ handle[h].kind \in {"staging", "db"} /\ handle[h].inode \in Born
      /\ handle[h].kind = "staging" => handle[h].of \in Born /\ handle[h].of # Nil
      /\ handle[h].kind = "db" => handle[h].of \in Known
  BY DEF TypeInv, HandleType, HandleRecord, Release, File, Born
<1>2. CASE handle[h].kind = "staging"
  BY <1>1, <1>2 DEF Release, FileItem
<1>3. CASE handle[h].kind = "db"
  BY <1>1, <1>3 DEF Release, DocItem
<1> QED  BY <1>1, <1>2, <1>3

\* The files after a release, field by field
LEMMA ReleaseFiles ==
    ASSUME TypeInv, NEW h \in Handle, Release(h)
    PROVE  /\ file' \in [File -> FileRecord]
           /\ \A f \in File : /\ file'[f].name = file[f].name /\ file'[f].moved = file[f].moved
                              /\ file'[f].temp = file[f].temp /\ file'[f].deleted = file[f].deleted
                              /\ file[f].closed => file'[f].closed
           /\ handle[h].kind = "staging" /\ file' # file => file'[handle[h].of].closed
<1> Born \subseteq File
  BY DEF Born
<1>1. CASE file' = file
  BY <1>1 DEF TypeInv, FileType
<1>2. CASE /\ handle[h].of \in Born
           /\ file' = [file EXCEPT ![handle[h].of].closed = TRUE]
  <2> file' \in [File -> FileRecord]
    BY <1>2 DEF TypeInv, FileType, FileRecord
  <2> QED  BY <1>2 DEF TypeInv, FileType, FileRecord
<1> QED  BY <1>1, <1>2, ReleaseIs

\* release keeps the types.
LEMMA ReleaseTypes ==
    ASSUME TypeInv, NEW h \in Handle, Release(h)
    PROVE  TypeInv' /\ Grows
<1> Born \subseteq File /\ Known \subseteq Doc
  BY DEF Born, Known
<1>1. Grows
  BY ReleaseIs, ReleaseFiles, WorkGrows DEF Born, Known
<1>2. Born' = Born /\ Known' = Known
  BY ReleaseIs, ReleaseFiles DEF Born, Known
<1>3. FileType' /\ PendingType'
  <2>1. FileType'
    BY ReleaseFiles DEF FileType
  <2>2. pending' = pending
    BY ReleaseIs
  <2>3. \A n \in Name : pending[n] # Nil => pending[n] \in File
    BY DEF TypeInv, PendingType
  <2>4. PendingType'
    BY <1>2, <2>2, <2>3, ReleaseFiles DEF TypeInv, PendingType
  <2> QED  BY <2>1, <2>4
<1>4. DiskType' /\ DocType'
  BY <1>2, ReleaseIs DEF TypeInv, DiskType, DocType
<1>5. SyncType'
  <2>0. UNCHANGED <<round, step>> /\ SyncType /\ Work \subseteq Work'
    BY <1>1, ReleaseIs DEF TypeInv, Grows
  <2>1. CASE UNCHANGED queue
    BY <2>0, <2>1 DEF SyncType
  <2>2. ASSUME NEW item \in Work', queue' = Append(queue, item) PROVE SyncType'
    BY <2>0, <2>2 DEF SyncType
  <2>3. CASE /\ handle[h].kind = "staging" /\ handle[h].of \in Born
             /\ ~file[handle[h].of].temp /\ ~file[handle[h].of].deleted
             /\ file' = [file EXCEPT ![handle[h].of].closed = TRUE]
             /\ queue' = Append(queue, FileItem(handle[h].of))
    <3>1. file'[handle[h].of].closed /\ ~file'[handle[h].of].temp
      BY <2>3, ReleaseFiles DEF TypeInv, FileType, FileRecord
    <3>2. FileItem(handle[h].of) \in Work'
      BY <1>2, <2>3, <3>1 DEF Work, FileItem
    <3> QED  BY <2>2, <2>3, <3>2
  <2>4. CASE handle[h].of \in Known /\ queue' = Append(queue, DocItem(handle[h].of))
    <3>1. DocItem(handle[h].of) \in Work'
      BY <1>2, <2>4 DEF Work, DocItem
    <3> QED  BY <2>2, <2>4, <3>1
  <2> QED  BY <2>1, <2>3, <2>4, ReleaseIs
<1>6. HandleType'
  <2>1. handle' = [handle EXCEPT ![h] = Closed]
    BY ReleaseIs
  <2>2. Closed \in HandleRecord /\ Closed.kind = "free"
    BY DEF Closed, HandleRecord
  <2>3. handle' \in [Handle -> HandleRecord] /\ handle'[h] = Closed
    BY <2>1, <2>2 DEF TypeInv, HandleType
  <2>4. \A k \in Handle : k # h => handle'[k] = handle[k]
    BY <2>1 DEF TypeInv, HandleType
  <2> QED  BY <1>2, <2>2, <2>3, <2>4 DEF TypeInv, HandleType
<1>7. SavedType'
  BY ReleaseIs DEF TypeInv, SavedType, DiskType
<1> QED  BY <1>1, <1>3, <1>4, <1>5, <1>6, <1>7 DEF TypeInv

\* What unlink does to a file in staging, or else to a document.
UnlinksFile(n, f) ==
    /\ f = pending[n] /\ f \in Born /\ file[f].name = n /\ ~file[f].deleted
    /\ file' \in [File -> FileRecord]
    /\ \A g \in File : g # f => file'[g] = file[g]
    /\ file'[f].name = n /\ file'[f].moved = file[f].moved /\ file'[f].temp = file[f].temp
    /\ file'[f].closed = file[f].closed /\ file'[f].deleted
    /\ pending' = [pending EXCEPT ![n] = Nil]
    /\ \/ file[f].moved = Nil /\ staging' = [staging EXCEPT ![n] = Nil] /\ stored' = stored
       \/ /\ file[f].moved \in Doc /\ file[f].moved # Nil
          /\ staging' = staging /\ stored' = [stored EXCEPT ![file[f].moved] = Nil]
    /\ UNCHANGED doc
UnlinksDoc(n, d) ==
    /\ pending[n] = Nil /\ doc[d].state = "live" /\ doc[d].name = n
    /\ doc' \in [Doc -> DocRecord]
    /\ \A e \in Doc : e # d => doc'[e] = doc[e]
    /\ doc'[d].state = "deleted" /\ doc'[d].name = n
    /\ UNCHANGED <<file, pending, staging, stored>>

\* What unlink does, to a file in staging or to a document.
LEMMA UnlinkIs ==
    ASSUME TypeInv, NEW n \in Name, Unlink(n)
    PROVE  /\ (\E f \in File : UnlinksFile(n, f)) \/ (\E d \in Doc : UnlinksDoc(n, d))
           /\ Shown(n)
           /\ saved' = [saved EXCEPT ![n] = Nil]
           /\ rough' = IF InRound(pending[n]) THEN rough \cup {n} ELSE rough
           /\ UNCHANGED <<data, handle, queue, round, step>>
<1>1. CASE pending[n] # Nil
  <2> DEFINE f == pending[n]
  <2>1. /\ f \in Born /\ f \in File /\ file[f].name = n /\ ~file[f].deleted
    BY <1>1 DEF TypeInv, PendingType, Born
  <2>2. /\ file' = [file EXCEPT ![f].deleted = TRUE] /\ UnlinkPath(f)
        /\ pending' = [pending EXCEPT ![n] = Nil] /\ UNCHANGED doc
    BY <1>1 DEF Unlink
  <2>3. file \in [File -> FileRecord] /\ (file[f].moved # Nil => file[f].moved \in Doc)
    BY <2>1, InodeIs DEF TypeInv, FileType
  <2> HIDE DEF f
  <2>4. file' \in [File -> FileRecord]
    BY <2>1, <2>2, <2>3 DEF FileRecord
  <2>5. /\ \A g \in File : g # f => file'[g] = file[g]
        /\ file'[f].name = n /\ file'[f].moved = file[f].moved /\ file'[f].temp = file[f].temp
        /\ file'[f].closed = file[f].closed /\ file'[f].deleted
    BY <2>1, <2>2, <2>3 DEF FileRecord
  <2>6. UNCHANGED data
    BY <2>2 DEF UnlinkPath
  <2>7. UnlinksFile(n, f)
    BY <2>1, <2>2, <2>3, <2>4, <2>5 DEF UnlinksFile, UnlinkPath, f
  <2> QED  BY <2>1, <2>6, <2>7 DEF Unlink
<1>2. CASE pending[n] = Nil
  <2>1. PICK d \in SameName(n) : doc' = [doc EXCEPT ![d].state = "deleted"]
    BY <1>2 DEF Unlink
  <2>2. d \in Doc /\ doc[d].state = "live" /\ doc[d].name = n
    BY DEF SameName
  <2>3. doc \in [Doc -> DocRecord]
    BY DEF TypeInv, DocType
  <2>4. /\ doc' \in [Doc -> DocRecord]
        /\ \A e \in Doc : e # d => doc'[e] = doc[e]
        /\ doc'[d].state = "deleted" /\ doc'[d].name = n
    BY <2>1, <2>2, <2>3 DEF DocRecord
  <2>5. UnlinksDoc(n, d)
    BY <1>2, <2>2, <2>4 DEF UnlinksDoc, Unlink
  <2> QED  BY <1>2, <2>2, <2>5 DEF Unlink
<1> QED  BY <1>1, <1>2

\* When files keep their names and what they are, and documents stay, so does the work.
LEMMA SameFiles ==
    ASSUME FileType, file' \in [File -> FileRecord],
           \A f \in File : /\ file'[f].name = file[f].name /\ file'[f].temp = file[f].temp
                           /\ file[f].closed = file'[f].closed,
           \A d \in Doc : doc[d].state \in {"live", "deleted"} => doc'[d].state \in {"live", "deleted"}
    PROVE  FileType' /\ Grows /\ Born' = Born
<1>1. FileType' /\ Born' = Born
  BY DEF FileType, Born
<1>2. Grows
  BY WorkGrows DEF Born, Known
<1> QED  BY <1>1, <1>2

\* unlink keeps the types.
LEMMA UnlinkTypes ==
    ASSUME TypeInv, NEW n \in Name, Unlink(n)
    PROVE  TypeInv' /\ Grows
<1>1. /\ SavedType' /\ UNCHANGED <<data, handle, queue, round, step>>
  BY UnlinkIs, Bounds DEF TypeInv, SavedType, Text
<1>2. ASSUME NEW f \in File, UnlinksFile(n, f) PROVE TypeInv' /\ Grows
  <2>1. FileType' /\ Grows /\ Born' = Born /\ Known' = Known
    BY <1>2, SameFiles DEF UnlinksFile, TypeInv, Known
  <2>2. PendingType' /\ DocType'
    BY <1>2, <2>1 DEF UnlinksFile, TypeInv, PendingType, DocType, Born
  <2>3. DiskType'
    BY <1>1, <1>2, <2>1 DEF UnlinksFile, TypeInv, DiskType
  <2>4. HandleType' /\ SyncType'
    BY <1>1, <2>1 DEF TypeInv, HandleType, SyncType, Grows
  <2> QED  BY <1>1, <2>1, <2>2, <2>3, <2>4 DEF TypeInv
<1>3. ASSUME NEW d \in Doc, UnlinksDoc(n, d) PROVE TypeInv' /\ Grows
  <2>1. FileType' /\ Grows /\ Born' = Born
    BY <1>3, SameFiles DEF UnlinksDoc, TypeInv, FileType
  <2>2. PendingType' /\ DocType' /\ DiskType'
    BY <1>1, <1>3, <2>1 DEF UnlinksDoc, TypeInv, PendingType, DocType, DiskType
  <2>4. HandleType' /\ SyncType'
    BY <1>1, <2>1 DEF TypeInv, HandleType, SyncType, Grows
  <2> QED  BY <1>1, <2>1, <2>2, <2>4 DEF TypeInv
<1> QED  BY <1>2, <1>3, UnlinkIs

\* What rename does to the file f in staging: its name and its path, wherever that was.
RenamesFile(a, b, f) ==
    /\ f = pending[a] /\ f \in Born /\ file[f].name = a /\ ~file[f].deleted
    /\ file' \in [File -> FileRecord]
    /\ \A g \in File : g # f => file'[g] = file[g]
    /\ file'[f].name = b /\ file'[f].moved = Nil /\ file'[f].temp = file[f].temp
    /\ file'[f].closed = file[f].closed /\ file'[f].deleted = file[f].deleted
    /\ pending' = [pending EXCEPT ![a] = Nil, ![b] = f]
    /\ \/ Inode(f) = Nil /\ staging' = staging
       \/ /\ Inode(f) # Nil /\ file[f].moved = Nil
          /\ staging' = [staging EXCEPT ![a] = Nil, ![b] = Inode(f)]
       \/ /\ Inode(f) # Nil /\ file[f].moved # Nil
          /\ staging' = [staging EXCEPT ![b] = Inode(f)]
    /\ \/ file[f].moved = Nil /\ stored' = stored
       \/ /\ file[f].moved \in Doc /\ file[f].moved # Nil
          /\ stored' = [stored EXCEPT ![file[f].moved] = Nil]

\* What a rename of a file in staging does.
LEMMA RenameFileIs ==
    ASSUME TypeInv, NEW a \in Name, NEW b \in Name, RenamePending(a, b)
    PROVE  /\ \E f \in File : RenamesFile(a, b, f)
           /\ Renames(a, b)
           /\ saved' = [saved EXCEPT ![a] = Nil, ![b] = saved[a]]
           /\ UNCHANGED <<data, handle, queue, round, step, doc>>
<1> DEFINE f == pending[a]
<1>1. /\ f \in Born /\ f \in File /\ file[f].name = a /\ ~file[f].deleted
  BY DEF TypeInv, PendingType, Born, RenamePending
<1>2. file \in [File -> FileRecord] /\ (file[f].moved # Nil => file[f].moved \in Doc)
  BY <1>1, InodeIs DEF TypeInv, FileType
<1>3. /\ file' = [file EXCEPT ![f].name = b, ![f].moved = Nil]
      /\ pending' = [pending EXCEPT ![a] = Nil, ![b] = f]
  BY DEF RenamePending
<1>4. /\ \/ Inode(f) = Nil /\ staging' = staging
         \/ /\ Inode(f) # Nil /\ file[f].moved = Nil
            /\ staging' = [staging EXCEPT ![a] = Nil, ![b] = Inode(f)]
         \/ /\ Inode(f) # Nil /\ file[f].moved # Nil
            /\ staging' = [staging EXCEPT ![b] = Inode(f)]
      /\ \/ file[f].moved = Nil /\ stored' = stored
         \/ /\ file[f].moved \in Doc /\ file[f].moved # Nil
            /\ stored' = [stored EXCEPT ![file[f].moved] = Nil]
  <2>1. CASE file[f].moved = Nil
    BY <2>1 DEF RenamePending
  <2>2. CASE file[f].moved # Nil
    BY <1>2, <2>2 DEF RenamePending
  <2> QED  BY <2>1, <2>2
<1> HIDE DEF f
<1>5. /\ file' \in [File -> FileRecord]
      /\ \A g \in File : g # f => file'[g] = file[g]
      /\ file'[f].name = b /\ file'[f].moved = Nil /\ file'[f].temp = file[f].temp
      /\ file'[f].closed = file[f].closed /\ file'[f].deleted = file[f].deleted
  BY <1>1, <1>2, <1>3 DEF FileRecord
<1>6. RenamesFile(a, b, f)
  <2> f = pending[a]
    BY DEF f
  <2> QED  BY <1>1, <1>3, <1>4, <1>5 DEF RenamesFile
<1> QED  BY <1>1, <1>6 DEF RenamePending

\* It keeps the types.
LEMMA RenameTypes ==
    ASSUME TypeInv, NEW a \in Name, NEW b \in Name, RenamePending(a, b)
    PROVE  TypeInv' /\ Grows
<1>1. PICK f \in File : RenamesFile(a, b, f)
  BY RenameFileIs
<1>2. UNCHANGED <<data, handle, queue, round, step, doc>>
  BY RenameFileIs
<1>3. FileType' /\ Born' = Born /\ Known' = Known
  BY <1>1, <1>2 DEF RenamesFile, FileType, Born, Known
<1>4. Grows
  BY <1>1, <1>2, WorkGrows DEF RenamesFile, Born, Known
<1>5. PendingType'
  <2>1. pending' \in [Name -> Born' \cup {Nil}]
    BY <1>1, <1>3 DEF RenamesFile, TypeInv, PendingType
  <2>2. \A m \in Name : m # a /\ pending[m] # Nil => pending[m] # f
    BY <1>1 DEF RenamesFile, TypeInv, PendingType
  <2> QED  BY <1>1, <2>1, <2>2 DEF RenamesFile, TypeInv, PendingType, Born
<1>6. DiskType'
  <2>1. Inode(f) \in Born \cup {Nil}
    BY <1>1, InodeIs DEF RenamesFile
  <2>2. staging' \in [Name -> Born' \cup {Nil}]
    BY <1>1, <1>3, <2>1 DEF RenamesFile, TypeInv, DiskType
  <2>3. stored' \in [Doc -> Born' \cup {Nil}]
    BY <1>1, <1>3 DEF RenamesFile, TypeInv, DiskType
  <2> QED  BY <1>2, <2>2, <2>3 DEF TypeInv, DiskType
<1>7. SavedType'
  <2>1. rough' \subseteq Name
    BY DEF TypeInv, SavedType, RenamePending, Renames
  <2> QED  BY <2>1, RenameFileIs, Bounds DEF TypeInv, SavedType, Text
<1>8. HandleType' /\ SyncType' /\ DocType'
  BY <1>2, <1>3, <1>4 DEF TypeInv, HandleType, SyncType, DocType, Grows
<1> QED  BY <1>3, <1>4, <1>5, <1>6, <1>7, <1>8 DEF TypeInv

\* What rename does to a document that is not in staging.
RenamesDoc(a, b, d) ==
    /\ pending[a] = Nil /\ doc[d].state = "live" /\ doc[d].name = a
    /\ doc' \in [Doc -> DocRecord]
    /\ \A e \in Doc : e # d => doc'[e] = doc[e]
    /\ doc'[d].state = "live" /\ doc'[d].name = b /\ doc'[d].indexed = doc[d].indexed

\* What a rename of a document does.
LEMMA RenameDocIs ==
    ASSUME TypeInv, NEW a \in Name, NEW b \in Name, RenameDoc(a, b)
    PROVE  /\ \E d \in Doc : RenamesDoc(a, b, d)
           /\ Renames(a, b)
           /\ saved' = [saved EXCEPT ![a] = Nil, ![b] = saved[a]]
           /\ UNCHANGED <<file, pending, staging, stored, data, handle, queue, round, step>>
<1>1. PICK d \in SameName(a) : doc' = [doc EXCEPT ![d].name = b]
  BY DEF RenameDoc
<1>2. d \in Doc /\ doc[d].state = "live" /\ doc[d].name = a
  BY DEF SameName
<1>3. doc \in [Doc -> DocRecord]
  BY DEF TypeInv, DocType
<1>4. /\ doc' \in [Doc -> DocRecord]
      /\ \A e \in Doc : e # d => doc'[e] = doc[e]
      /\ doc'[d].state = "live" /\ doc'[d].name = b /\ doc'[d].indexed = doc[d].indexed
  BY <1>1, <1>2, <1>3 DEF DocRecord
<1>5. RenamesDoc(a, b, d)
  BY <1>2, <1>4 DEF RenamesDoc, RenameDoc
<1> QED  BY <1>2, <1>5 DEF RenameDoc

\* It keeps the types.
LEMMA RenameDocTypes ==
    ASSUME TypeInv, NEW a \in Name, NEW b \in Name, RenameDoc(a, b)
    PROVE  TypeInv' /\ Grows
<1>1. PICK d \in Doc : RenamesDoc(a, b, d)
  BY RenameDocIs
<1>2. UNCHANGED <<file, pending, staging, stored, data, handle, queue, round, step>>
  BY RenameDocIs
<1>3. FileType' /\ Grows /\ Born' = Born
  BY <1>1, <1>2, SameFiles DEF RenamesDoc, TypeInv, FileType
<1>4. DocType'
  BY <1>1 DEF RenamesDoc, TypeInv, DocType
<1>5. SavedType'
  <2>1. rough' \subseteq Name
    BY DEF TypeInv, SavedType, RenameDoc, Renames
  <2> QED  BY <2>1, RenameDocIs, Bounds DEF TypeInv, SavedType, Text
<1>6. PendingType' /\ DiskType' /\ HandleType' /\ SyncType'
  BY <1>2, <1>3 DEF TypeInv, PendingType, DiskType, HandleType, SyncType, Grows
<1> QED  BY <1>3, <1>4, <1>5, <1>6 DEF TypeInv

\* The types after a step of the sync that leaves files and documents what they are.
LEMMA SyncTypes ==
    ASSUME TypeInv, Born' = Born, Grows, FileType', DocType',
           queue' = queue, round' = round \/ (round # <<>> /\ round' = Tail(round)),
           step' \in {"look", "move", "insert", "forget"},
           UNCHANGED <<data, handle, saved>>, rough' \subseteq Name,
           \A f \in File : file'[f].name = file[f].name /\ file'[f].deleted = file[f].deleted,
           \A n \in Name : pending'[n] \in {pending[n], Nil},
           pending' \in [Name -> Born \cup {Nil}],
           staging' \in [Name -> Born \cup {Nil}], stored' \in [Doc -> Born \cup {Nil}]
    PROVE  TypeInv' /\ Grows
<1>1. SyncType'
  <2>1. /\ queue \in Seq(Work) /\ round \in Seq(Work) /\ Work \subseteq Work'
        /\ step' \in {"look", "move", "insert", "forget"}
    BY DEF TypeInv, SyncType, Grows
  <2>2. queue' \in Seq(Work')
    BY <2>1
  <2>3. CASE round' = round
    BY <2>1, <2>2, <2>3 DEF SyncType
  <2>4. CASE round # <<>> /\ round' = Tail(round)
    <3>1. round' \in Seq(Work')
      BY <2>1, <2>4
    <3> QED  BY <2>1, <2>2, <3>1 DEF SyncType
  <2> QED  BY <2>3, <2>4
<1>2. PendingType'
  BY DEF TypeInv, PendingType, Born
<1>3. DiskType' /\ HandleType' /\ SavedType'
  BY DEF TypeInv, DiskType, HandleType, SavedType, Grows
<1> QED  BY <1>1, <1>2, <1>3 DEF TypeInv

\* The start of a round keeps the types: its items come from the queue.
LEMMA StartRoundTypes ==
    ASSUME TypeInv, StartRound
    PROVE  TypeInv' /\ Grows
<1>1. SyncType /\ Work' = Work /\ Born' = Born /\ Known' = Known
  BY DEF TypeInv, StartRound, Work, Born, Known
<1>2. SyncType'
  BY <1>1, PickedIs DEF SyncType, StartRound
<1> QED  BY <1>1, <1>2 DEF TypeInv, StartRound, Grows, FileType, PendingType, DiskType, HandleType,
                           DocType, SavedType

\* The current item is a file that was closed and is not temporary.
LEMMA ItemIs ==
    ASSUME TypeInv, NEW s, Committing(s)
    PROVE  /\ round # <<>> /\ Item \in Born /\ Item \in File /\ Head(round) = FileItem(Item)
           /\ file[Item].closed /\ ~file[Item].temp /\ step = s
BY HeadIs DEF Committing, Current, Born

\* What a reindex does to its document.
LEMMA ReindexIs ==
    ASSUME TypeInv, Reindex
    PROVE  /\ round # <<>> /\ Item \in Known /\ Head(round) = DocItem(Item)
           /\ Head(round)[1] # "file"
           /\ doc' \in [Doc -> DocRecord]
           /\ \A d \in Doc : doc'[d].state = doc[d].state /\ doc'[d].name = doc[d].name
           /\ \A d \in Doc : d # Item => doc'[d] = doc[d]
           /\ stored[Item] # Nil => doc'[Item].indexed = data[stored[Item]]
           /\ round' = Tail(round) /\ step' = "look"
           /\ UNCHANGED <<file, pending, staging, stored, data, handle, queue, saved, rough>>
<1>1. round # <<>> /\ Item \in Known /\ Head(round) = DocItem(Item) /\ Head(round)[1] # "file"
  BY HeadIs DEF Reindex, Current
<1>2. Item \in Doc /\ doc \in [Doc -> DocRecord]
  BY <1>1 DEF TypeInv, DocType, Known
<1>3. (IF stored[Item] = Nil THEN doc[Item].indexed ELSE data[stored[Item]]) \in Text
  BY <1>2 DEF TypeInv, DiskType, DocRecord, Born
<1>4. ASSUME NEW t \in Text, doc' = [doc EXCEPT ![Item].indexed = t]
      PROVE  /\ doc' \in [Doc -> DocRecord]
             /\ \A d \in Doc : doc'[d].state = doc[d].state /\ doc'[d].name = doc[d].name
             /\ \A d \in Doc : d # Item => doc'[d] = doc[d]
             /\ doc'[Item].indexed = t
  BY <1>2, <1>4 DEF DocRecord
<1> QED  BY <1>1, <1>3, <1>4 DEF Reindex, Done

\* It keeps the types.
LEMMA ReindexTypes ==
    ASSUME TypeInv, Reindex
    PROVE  TypeInv' /\ Grows
<1>1. FileType' /\ Grows /\ Born' = Born
  BY ReindexIs, SameFiles DEF TypeInv, FileType
<1>2. DocType'
  BY ReindexIs DEF TypeInv, DocType
<1> QED  BY <1>1, <1>2, ReindexIs, SyncTypes DEF TypeInv, PendingType, DiskType, SavedType

\* So do the steps that find no file, or go on to the move.
LEMMA SkipTypes ==
    ASSUME TypeInv, SkipMissing \/ MoveRaises \/ Look
    PROVE  TypeInv' /\ Grows
<1>1. /\ UNCHANGED <<file, pending, staging, stored, data, handle, queue, doc, saved, rough>>
      /\ round # <<>> /\ round' \in {round, Tail(round)} /\ step' \in {"look", "move"}
  BY ItemIs DEF SkipMissing, MoveRaises, Look, Done
<1>2. FileType' /\ Grows /\ Born' = Born /\ DocType'
  BY <1>1, SameFiles DEF TypeInv, FileType, DocType
<1> QED  BY <1>1, <1>2, SyncTypes DEF TypeInv, PendingType, DiskType, SavedType

\* What the removal of a file does that is empty or has a document.
LEMMA SkipRemovedIs ==
    ASSUME TypeInv, SkipRemoved
    PROVE  /\ \/ /\ file[Item].moved = Nil
                 /\ staging' = [staging EXCEPT ![file[Item].name] = Nil] /\ stored' = stored
              \/ /\ file[Item].moved # Nil /\ staging' = staging
                 /\ stored' = [stored EXCEPT ![file[Item].moved] = Nil]
           /\ round' = Tail(round) /\ step' = "look"
           /\ UNCHANGED <<file, pending, data, handle, queue, doc, saved, rough>>
BY DEF SkipRemoved, UnlinkPath, Done

\* It keeps the types.
LEMMA SkipRemovedTypes ==
    ASSUME TypeInv, SkipRemoved
    PROVE  TypeInv' /\ Grows
<1>1. FileType' /\ Grows /\ Born' = Born /\ DocType'
  BY SkipRemovedIs, SameFiles DEF TypeInv, FileType, DocType
<1>2. round # <<>>
  BY ItemIs DEF SkipRemoved
<1>3. staging' \in [Name -> Born \cup {Nil}] /\ stored' \in [Doc -> Born \cup {Nil}]
  BY SkipRemovedIs DEF TypeInv, DiskType
<1> QED  BY <1>1, <1>2, <1>3, SkipRemovedIs, SyncTypes DEF TypeInv, PendingType, SavedType

\* What the move does: a path without a row, and the inode of the file there.
LEMMA MoveIs ==
    ASSUME TypeInv, RoomInv, Move
    PROVE  /\ NextDoc \in Doc /\ doc[NextDoc] = NoDoc
           /\ Inode(Item) \in Born
           /\ file' \in [File -> FileRecord]
           /\ \A g \in File : g # Item => file'[g] = file[g]
           /\ file'[Item].name = file[Item].name /\ file'[Item].moved = NextDoc
           /\ file'[Item].temp = file[Item].temp /\ file'[Item].closed = file[Item].closed
           /\ file'[Item].deleted = file[Item].deleted
           /\ doc' \in [Doc -> DocRecord]
           /\ \A e \in Doc : e # NextDoc => doc'[e] = doc[e]
           /\ doc'[NextDoc].state = "path"
           /\ \/ /\ file[Item].moved = Nil
                 /\ staging' = [staging EXCEPT ![file[Item].name] = Nil]
                 /\ stored' = [stored EXCEPT ![NextDoc] = Inode(Item)]
              \/ /\ file[Item].moved # Nil /\ staging' = staging
                 /\ stored' = [stored EXCEPT ![file[Item].moved] = Nil, ![NextDoc] = Inode(Item)]
           /\ step' = "insert"
           /\ UNCHANGED <<pending, data, handle, queue, round, saved, rough>>
<1>1. /\ Item \in Born /\ Item \in File /\ NextDoc \in Doc /\ doc[NextDoc] = NoDoc
      /\ Inode(Item) \in Born
  BY ItemIs, NextDocIs, InodeIs DEF Move
<1>2. file \in [File -> FileRecord] /\ doc \in [Doc -> DocRecord]
  BY DEF TypeInv, FileType, DocType
<1>3. /\ file' = [file EXCEPT ![Item].moved = NextDoc]
      /\ doc' = [doc EXCEPT ![NextDoc].state = "path"]
  BY DEF Move
<1>4. file' \in [File -> FileRecord]
  BY <1>1, <1>2, <1>3 DEF FileRecord
<1>5. /\ \A g \in File : g # Item => file'[g] = file[g]
      /\ file'[Item].name = file[Item].name /\ file'[Item].moved = NextDoc
      /\ file'[Item].temp = file[Item].temp /\ file'[Item].closed = file[Item].closed
      /\ file'[Item].deleted = file[Item].deleted
  BY <1>1, <1>2, <1>3 DEF FileRecord
<1>6. /\ doc' \in [Doc -> DocRecord]
      /\ \A e \in Doc : e # NextDoc => doc'[e] = doc[e]
      /\ doc'[NextDoc].state = "path"
  BY <1>1, <1>2, <1>3 DEF DocRecord
<1> QED  BY <1>1, <1>4, <1>5, <1>6 DEF Move

\* The move keeps the types, and what was named is still named.
LEMMA MoveTypes ==
    ASSUME TypeInv, RoomInv, Move
    PROVE  TypeInv' /\ Grows
<1>0. round # <<>> /\ Item \in Born /\ Item \in File
  BY ItemIs DEF Move
<1>1. FileType' /\ Grows /\ Born' = Born
  <2>1. \A d \in Doc : doc[d].state \in {"live", "deleted"} => d # NextDoc
    BY MoveIs DEF NoDoc
  <2>2. \A f \in File : /\ file'[f].name = file[f].name /\ file'[f].temp = file[f].temp
                        /\ file[f].closed = file'[f].closed
    BY MoveIs
  <2> QED  BY <2>1, <2>2, MoveIs, SameFiles DEF TypeInv
<1>2. DocType'
  BY MoveIs DEF TypeInv, DocType
<1>3. staging' \in [Name -> Born \cup {Nil}] /\ stored' \in [Doc -> Born \cup {Nil}]
  BY MoveIs DEF TypeInv, DiskType
<1>4. \A f \in File : file'[f].name = file[f].name /\ file'[f].deleted = file[f].deleted
  BY MoveIs
<1>5. UNCHANGED <<pending, data, handle, queue, round, saved, rough>> /\ step' = "insert"
  BY MoveIs
<1> QED  BY <1>0, <1>1, <1>2, <1>3, <1>4, <1>5, SyncTypes DEF TypeInv, PendingType, SavedType

\* What follows the move: no owner and the file is gone, or a document with its path
LEMMA NoOwnerIs ==
    ASSUME TypeInv, StepInv, NoOwner
    PROVE  /\ doc' \in [Doc -> DocRecord]
           /\ \A e \in Doc : e # Final => doc'[e] = doc[e]
           /\ doc'[Final].state = "gone"
<1>1. Final \in Doc /\ doc \in [Doc -> DocRecord]
  BY FinalIs, ItemIs DEF NoOwner, TypeInv, DocType
<1> QED  BY <1>1 DEF NoOwner, DocRecord

\* A file without an owner leaves the types as they are.
LEMMA NoOwnerTypes ==
    ASSUME TypeInv, StepInv, NoOwner
    PROVE  TypeInv' /\ Grows
<1>0. round # <<>> /\ Item \in Born /\ Final \in Doc /\ doc[Final].state = "path"
  BY ItemIs, FinalIs DEF NoOwner
<1>1. FileType' /\ Grows /\ Born' = Born
  <2>1. \A d \in Doc : doc[d].state \in {"live", "deleted"} => doc'[d].state \in {"live", "deleted"}
    BY <1>0, NoOwnerIs
  <2>2. file' = file
    BY DEF NoOwner
  <2> QED  BY <2>1, <2>2, SameFiles DEF TypeInv, FileType
<1>2. DocType'
  BY NoOwnerIs DEF TypeInv, DocType
<1>3. rough' \subseteq Name
  BY <1>0, InodeIs DEF NoOwner, TypeInv, SavedType
<1>4. stored' \in [Doc -> Born \cup {Nil}]
  BY <1>0 DEF NoOwner, TypeInv, DiskType
<1> QED  BY <1>0, <1>1, <1>2, <1>3, <1>4, SyncTypes DEF TypeInv, PendingType, DiskType, NoOwner, Done

\* What the insert does: the path gets a row.
LEMMA InsertIs ==
    ASSUME TypeInv, StepInv, Insert
    PROVE  /\ doc' \in [Doc -> DocRecord]
           /\ \A e \in Doc : e # Final => doc'[e] = doc[e]
           /\ doc'[Final].state = "live" /\ doc'[Final].name = file[Item].name
           /\ file[Item].name \in Name
           /\ stored[Final] # Nil => doc'[Final].indexed = data[stored[Final]]
<1>1. /\ Final \in Doc /\ doc \in [Doc -> DocRecord] /\ Item \in Born /\ file[Item].name \in Name
  BY FinalIs, ItemIs, InodeIs DEF Insert, TypeInv, DocType
<1>2. (IF stored[Final] = Nil THEN Nil ELSE data[stored[Final]]) \in Text
  BY <1>1, Bounds DEF TypeInv, DiskType, Born, Text
<1>3. [state |-> "live", name |-> file[Item].name,
       indexed |-> IF stored[Final] = Nil THEN Nil ELSE data[stored[Final]]] \in DocRecord
  BY <1>1, <1>2 DEF DocRecord
<1> QED  BY <1>1, <1>3 DEF Insert

\* It keeps the types.
LEMMA InsertTypes ==
    ASSUME TypeInv, StepInv, Insert
    PROVE  TypeInv' /\ Grows
<1>0. round # <<>> /\ Item \in Born /\ Final \in Doc /\ doc[Final].state = "path"
  BY ItemIs, FinalIs DEF Insert
<1>1. FileType' /\ Grows /\ Born' = Born
  <2>1. \A d \in Doc : doc[d].state \in {"live", "deleted"} => doc'[d].state \in {"live", "deleted"}
    BY <1>0, InsertIs
  <2>2. file' = file
    BY DEF Insert
  <2> QED  BY <2>1, <2>2, SameFiles DEF TypeInv, FileType
<1>2. DocType'
  BY InsertIs DEF TypeInv, DocType
<1> QED  BY <1>0, <1>1, <1>2, SyncTypes DEF TypeInv, PendingType, DiskType, SavedType, Insert

\* The end of a commit keeps the types.
LEMMA ForgetTypes ==
    ASSUME TypeInv, Forget
    PROVE  TypeInv' /\ Grows
<1>0. round # <<>>
  BY ItemIs DEF Forget
<1>1. FileType' /\ Grows /\ Born' = Born /\ DocType'
  BY SameFiles DEF TypeInv, FileType, DocType, Forget
<1>2. /\ \A n \in Name : pending'[n] \in {pending[n], Nil}
      /\ pending' \in [Name -> Born \cup {Nil}]
  BY DEF TypeInv, PendingType, Forget
<1> QED  BY <1>0, <1>1, <1>2, SyncTypes DEF TypeInv, DiskType, SavedType, Forget, Done

-----------------------------------------------------------------------------
(* The steps of the sync, and the room there is                            *)

\* StepInv is kept by every step.
LEMMA StepKept ==
    ASSUME TypeInv, StepInv, TypeInv', [Next]_vars
    PROVE  StepInv'
<1>1. ASSUME UNCHANGED <<round, step>>, \A d \in Doc : doc'[d].state = "path" <=> doc[d].state = "path"
      PROVE  StepInv'
  BY <1>1 DEF StepInv
<1>2. ASSUME NEW n \in Name, NEW h \in Handle, Create(n, h) \/ OpenPending(n, h) \/ OpenDoc(n, h)
      PROVE  StepInv'
  BY <1>1, <1>2 DEF Create, OpenPending, OpenDoc
<1>3. ASSUME NEW h \in Handle, Write(h) \/ Release(h) PROVE StepInv'
  BY <1>1, <1>3 DEF Write, Release
<1>4. ASSUME NEW n \in Name, Unlink(n) PROVE StepInv'
  BY <1>1, <1>4, UnlinkIs DEF UnlinksFile, UnlinksDoc
<1>5. ASSUME NEW a \in Name, NEW b \in Name, RenamePending(a, b) PROVE StepInv'
  BY <1>1, <1>5, RenameFileIs
<1>6. ASSUME NEW a \in Name, NEW b \in Name, RenameDoc(a, b) PROVE StepInv'
  BY <1>1, <1>6, RenameDocIs DEF RenamesDoc
<1>7. CASE StartRound
  <2>1. step = "look" /\ UNCHANGED <<step, doc>>
    BY <1>7 DEF StartRound, StepInv, TypeInv, SyncType
  <2> QED  BY <2>1 DEF StepInv
<1>8. CASE Reindex
  <2>1. step' = "look" /\ step = "look" /\ \A d \in Doc : doc'[d].state = doc[d].state
    BY <1>8, ReindexIs DEF StepInv
  <2> QED  BY <2>1 DEF StepInv
<1>9. CASE SkipMissing \/ SkipRemoved \/ MoveRaises \/ Look \/ Forget
  <2>1. /\ step \in {"look", "move", "forget"} /\ UNCHANGED doc
        /\ step' = "look" \/ (step' = "move" /\ round' = round)
        /\ round # <<>> /\ Head(round) = FileItem(Item)
    BY <1>9, ItemIs DEF SkipMissing, SkipRemoved, MoveRaises, Look, Forget, Done
  <2> QED  BY <2>1 DEF StepInv, FileItem
<1>10. CASE Move
  <2>1. /\ step' = "insert" /\ round' = round /\ round # <<>> /\ step = "move"
        /\ Head(round) = FileItem(Item)
    BY <1>10, ItemIs DEF Move
  <2>2. NextDoc \in Doc /\ \A e \in Doc : doc'[e].state = "path" <=> e = NextDoc
    BY <1>10, <2>1 DEF Move, StepInv, TypeInv, DocType, DocRecord
  <2> QED  BY <2>1, <2>2 DEF StepInv, FileItem
<1>11. CASE NoOwner
  <2>1. step' = "look" /\ step = "insert"
    BY <1>11 DEF NoOwner, Done, Committing
  <2>2. \A e \in Doc : doc'[e].state # "path"
    BY <1>11, <2>1, NoOwnerIs, FinalIs
  <2> QED  BY <2>1, <2>2 DEF StepInv
<1>12. CASE Insert
  <2>1. step' = "forget" /\ step = "insert" /\ round' = round
    BY <1>12 DEF Insert, Committing
  <2>2. \A e \in Doc : doc'[e].state # "path"
    BY <1>12, <2>1, InsertIs, FinalIs
  <2> QED  BY <2>1, <2>2 DEF StepInv
<1>13. CASE UNCHANGED vars
  BY <1>1, <1>13 DEF vars
<1> QED  BY <1>2, <1>3, <1>4, <1>5, <1>6, <1>7, <1>8, <1>9, <1>10, <1>11, <1>12, <1>13
         DEF Next, Call, SyncStep

\* The documents made, what is to do and the open handles, before and after a step
LEMMA RoomFits ==
    ASSUME RoomInv, NEW m \in Nat, NEW t \in Int, NEW o \in Nat,
           Cardinality(Made') = m, Todo' = t, Cardinality(Opened') = o,
           m + t + o <= Cardinality(Made) + Todo + Cardinality(Opened), TypeInv
    PROVE  RoomInv'
<1>1. /\ Cardinality(Made) \in Nat /\ Todo \in Int /\ Cardinality(Opened) \in Nat
  BY Counts DEF Todo, TypeInv, SyncType
<1> QED  BY <1>1, Bounds DEF RoomInv

\* What is to do can be counted.
LEMMA TodoIs == TypeInv => Len(queue) \in Nat /\ Len(round) \in Nat /\ Todo \in Int
BY DEF TypeInv, SyncType, Todo

\* One more open handle, one less, or as many
LEMMA OpenedMore ==
    ASSUME NEW h \in Handle, handle[h] = Closed, handle'[h] # Closed,
           \A k \in Handle : k # h => handle'[k] = handle[k]
    PROVE  Cardinality(Opened') = Cardinality(Opened) + 1
<1>1. Opened' = Opened \cup {h} /\ h \notin Opened
  BY DEF Opened
<1> QED  BY <1>1, Counts, FS_AddElement

\* A close makes one open handle less.
LEMMA OpenedLess ==
    ASSUME NEW h \in Handle, handle[h] # Closed, handle'[h] = Closed,
           \A k \in Handle : k # h => handle'[k] = handle[k]
    PROVE  Cardinality(Opened') = Cardinality(Opened) - 1
<1>1. Opened' = Opened \ {h} /\ h \in Opened
  BY DEF Opened
<1> QED  BY <1>1, Counts, FS_RemoveElement

\* A step that makes no document and opens nothing leaves as much to do, or less.
LEMMA RoomSame ==
    ASSUME TypeInv, TypeInv', RoomInv,
           \A d \in Doc : doc'[d] # NoDoc <=> doc[d] # NoDoc,
           Opened' = Opened, Todo' <= Todo
    PROVE  RoomInv'
<1>1. Made' = Made
  BY DEF Made
<1>2. Todo' \in Int
  BY DEF TypeInv, SyncType, Todo
<1>3. PICK t \in Int : t = Todo'
  BY <1>2
<1>4. Cardinality(Made) \in Nat /\ Todo \in Int /\ Cardinality(Opened) \in Nat
  BY Counts, TodoIs
<1>5. PICK m \in Nat, o \in Nat : m = Cardinality(Made) /\ o = Cardinality(Opened)
  BY <1>4
<1>6. Cardinality(Made') = m /\ Cardinality(Opened') = o
  BY <1>1, <1>5
<1>7. m + t + o <= Cardinality(Made) + Todo + Cardinality(Opened)
  BY <1>3, <1>4, <1>5
<1> QED  BY <1>3, <1>6, <1>7, RoomFits

\* RoomInv is kept: a call asks for room, and the sync moves what it counts from one to the other.
LEMMA RoomKept ==
    ASSUME TypeInv, StepInv, RoomInv, TypeInv', [Next]_vars
    PROVE  RoomInv'
<1>0. /\ Cardinality(Made) \in Nat /\ Todo \in Int /\ Cardinality(Opened) \in Nat
      /\ Len(queue) \in Nat /\ Len(round) \in Nat
  BY Counts, TodoIs
<1>1. PICK m \in Nat, t \in Int, o \in Nat :
         m = Cardinality(Made) /\ t = Todo /\ o = Cardinality(Opened)
  BY <1>0
\* Create and open: there was room for one more.
<1>2. ASSUME NEW h \in Handle, handle[h] = Closed, handle'[h] # Closed, Room,
             \A k \in Handle : k # h => handle'[k] = handle[k],
             UNCHANGED <<queue, round, step, doc>>
      PROVE  RoomInv'
  <2>1. Made' = Made /\ Todo' = Todo
    BY <1>2 DEF Made, Todo
  <2>2. Cardinality(Opened') = o + 1
    BY <1>1, <1>2, OpenedMore
  <2>3. m + t + o < MaxDoc
    BY <1>1, <1>2 DEF Room, Made, Todo
  <2>4. m + t + (o + 1) <= MaxDoc
    BY <2>3, Bounds
  <2> QED  BY <1>1, <2>1, <2>2, <2>4 DEF RoomInv
<1>3. ASSUME NEW n \in Name, NEW h \in Handle, Create(n, h) PROVE RoomInv'
  <2>1. handle'[h].kind = "staging" /\ handle[h] = Closed
    BY <1>3, CreateIs
  <2>2. handle'[h] # Closed
    BY <2>1 DEF Closed
  <2>3. \A k \in Handle : k # h => handle'[k] = handle[k]
    BY <1>3, CreateIs
  <2> QED  BY <1>2, <1>3, <2>1, <2>2, <2>3 DEF Create
<1>4. ASSUME NEW n \in Name, NEW h \in Handle, OpenPending(n, h) \/ OpenDoc(n, h) PROVE RoomInv'
  <2>1. /\ handle'[h] # Closed /\ handle[h] = Closed /\ Room
        /\ \A k \in Handle : k # h => handle'[k] = handle[k]
        /\ UNCHANGED <<queue, round, step, doc>>
    BY <1>4 DEF OpenPending, OpenDoc, Closed, TypeInv, HandleType
  <2> QED  BY <1>2, <2>1
<1>5. ASSUME NEW h \in Handle, Write(h) PROVE RoomInv'
  <2>1. Opened' = Opened
    BY <1>5, WriteIs DEF Opened, Closed
  <2>2. UNCHANGED <<queue, round, step, doc>>
    BY <1>5 DEF Write
  <2>3. Todo' <= Todo
    BY <1>0, <2>2 DEF Todo
  <2> QED  BY <2>1, <2>2, <2>3, RoomSame
<1>6. ASSUME NEW h \in Handle, Release(h) PROVE RoomInv'
  <2>1. Made' = Made
    BY <1>6 DEF Release, Made
  <2>2. handle[h] # Closed /\ handle'[h] = Closed /\ \A k \in Handle : k # h => handle'[k] = handle[k]
    BY <1>6, ReleaseIs DEF Release, TypeInv, HandleType
  <2>3. Cardinality(Opened') = o - 1
    BY <1>1, <2>2, OpenedLess
  <2>4. h \in Opened
    BY <2>2 DEF Opened
  <2>5. o - 1 \in Nat
    <3>1. o # 0
      BY <1>1, <2>4, Counts, FS_EmptySet
    <3> QED  BY <3>1
  <2>6. Todo' = t \/ Todo' = t + 1
    <3>1. queue' = queue \/ \E item : queue' = Append(queue, item)
      BY <1>6, ReleaseIs
    <3>2. queue \in Seq(Work) /\ UNCHANGED <<round, step>>
      BY <1>6 DEF TypeInv, SyncType, Release
    <3>3. ASSUME NEW item PROVE Len(Append(queue, item)) = Len(queue) + 1
      BY <3>2
    <3>4. Len(queue') = Len(queue) \/ Len(queue') = Len(queue) + 1
      BY <3>1, <3>3
    <3>5. PICK l \in Nat, r \in Nat : l = Len(queue) /\ r = Len(round)
      BY <1>0
    <3>6. CASE Len(queue') = l
      BY <1>1, <3>2, <3>5, <3>6 DEF Todo
    <3>7. CASE Len(queue') = l + 1
      BY <1>1, <3>2, <3>5, <3>7 DEF Todo
    <3> QED  BY <3>4, <3>5, <3>6, <3>7
  <2>7. PICK u \in Int : u = Todo' /\ u <= t + 1
    BY <2>6
  <2>8. Cardinality(Made') = m
    BY <1>1, <2>1
  <2>9. m + u + (o - 1) <= Cardinality(Made) + Todo + Cardinality(Opened)
    <3>1. u <= t + 1
      BY <2>7
    <3>2. m + u + (o - 1) <= m + t + o
      BY ONLY <3>1, m \in Nat, u \in Int, t \in Int, o \in Nat
    <3> QED  BY <1>1, <3>2
  <2> QED  BY <1>1, <2>3, <2>5, <2>7, <2>8, <2>9, RoomFits
<1>7. ASSUME NEW n \in Name, Unlink(n) PROVE RoomInv'
  <2>1. UNCHANGED <<handle, queue, round, step>>
    BY <1>7, UnlinkIs
  <2>2. \A d \in Doc : doc'[d] # NoDoc <=> doc[d] # NoDoc
    BY <1>7, UnlinkIs DEF UnlinksFile, UnlinksDoc, NoDoc
  <2>3. Todo' <= Todo /\ Opened' = Opened
    BY <1>0, <2>1 DEF Todo, Opened
  <2> QED  BY <2>2, <2>3, RoomSame
<1>8. ASSUME NEW a \in Name, NEW b \in Name, RenamePending(a, b) \/ RenameDoc(a, b) PROVE RoomInv'
  <2>1. UNCHANGED <<handle, queue, round, step>>
    BY <1>8, RenameFileIs, RenameDocIs
  <2>2. \A d \in Doc : doc'[d] # NoDoc <=> doc[d] # NoDoc
    BY <1>8, RenameFileIs, RenameDocIs DEF RenamesDoc, NoDoc
  <2>3. Todo' <= Todo /\ Opened' = Opened
    BY <1>0, <2>1 DEF Todo, Opened
  <2> QED  BY <2>2, <2>3, RoomSame
<1>9. CASE StartRound
  <2>1. Len(Picked(queue, ReadyItems)) + Len(Picked(queue, Range(queue) \ ReadyItems)) = Len(queue)
    BY PickedCount DEF TypeInv, SyncType
  <2>2. /\ round' = Picked(queue, ReadyItems) /\ queue' = Picked(queue, Range(queue) \ ReadyItems)
        /\ round = <<>> /\ UNCHANGED <<handle, step, doc>>
    BY <1>9 DEF StartRound
  <2>3. PICK r \in Nat, l \in Nat : r = Len(Picked(queue, ReadyItems))
                                    /\ l = Len(Picked(queue, Range(queue) \ ReadyItems))
    BY PickedIs DEF TypeInv, SyncType
  <2>4. Len(round') = r /\ Len(queue') = l /\ r + l = Len(queue) /\ Len(round) = 0
    BY <2>1, <2>2, <2>3
  <2>5. Todo' <= Todo
    BY <2>2, <2>3, <2>4 DEF Todo
  <2> QED  BY <2>2, <2>5, RoomSame DEF Opened
\* An item is done: there is one less to do, or there was one less since its insert.
<1>10. ASSUME round # <<>>, round' = Tail(round), step' = "look", UNCHANGED <<handle, queue>>,
              \A d \in Doc : doc'[d] # NoDoc <=> doc[d] # NoDoc
       PROVE  RoomInv'
  <2>1. Len(round') = Len(round) - 1
    BY <1>10 DEF TypeInv, SyncType
  <2>2. PICK l \in Nat, r \in Nat : l = Len(queue) /\ r = Len(round)
    BY <1>0
  <2>3. Todo' <= Todo
    BY <1>10, <2>1, <2>2 DEF Todo
  <2> QED  BY <1>10, <2>3, RoomSame DEF Opened
<1>11. CASE Reindex
  <2>1. Item \in Known /\ \A d \in Doc : doc'[d].state = doc[d].state /\ (d # Item => doc'[d] = doc[d])
    BY <1>11, ReindexIs
  <2>2. \A d \in Doc : doc'[d] # NoDoc <=> doc[d] # NoDoc
    BY <2>1 DEF Known, NoDoc
  <2> QED  BY <1>10, <1>11, <2>2, ReindexIs
<1>12. CASE SkipMissing \/ SkipRemoved \/ MoveRaises \/ Forget
  BY <1>10, <1>12, ItemIs DEF SkipMissing, SkipRemoved, MoveRaises, Forget, Done
<1>13. CASE Look
  <2>1. step = "look" /\ step' = "move" /\ UNCHANGED <<handle, queue, round, doc>>
    BY <1>13 DEF Look, Committing
  <2>2. Todo' <= Todo
    BY <1>0, <2>1 DEF Todo
  <2> QED  BY <2>1, <2>2, RoomSame DEF Opened
<1>14. CASE Move
  <2>1. /\ NextDoc \in Doc /\ doc[NextDoc] = NoDoc /\ doc'[NextDoc].state = "path"
        /\ \A e \in Doc : e # NextDoc => doc'[e] = doc[e]
    BY <1>14, MoveIs
  <2>2. Made' = Made \cup {NextDoc} /\ NextDoc \notin Made
    BY <2>1 DEF Made, NoDoc
  <2>3. Cardinality(Made') = m + 1
    BY <1>1, <2>2, Counts, FS_AddElement
  <2>4. UNCHANGED <<handle, queue, round>> /\ step = "move" /\ step' = "insert"
    BY <1>14, ItemIs DEF Move
  <2>5. Todo' = t - 1
    BY <1>0, <1>1, <2>4 DEF Todo
  <2>6. Cardinality(Opened') = o
    BY <1>1, <2>4 DEF Opened
  <2>7. PICK u \in Int, v \in Nat : u = t - 1 /\ v = m + 1
    OBVIOUS
  <2>8. v + u + o <= m + t + o
    BY <2>7
  <2> QED  BY <1>1, <2>3, <2>5, <2>6, <2>7, <2>8, RoomFits
<1>15. CASE NoOwner
  <2>1. Final \in Doc /\ doc[Final].state = "path" /\ round # <<>>
    BY <1>15, FinalIs, ItemIs DEF NoOwner
  <2>2. \A d \in Doc : doc'[d] # NoDoc <=> doc[d] # NoDoc
    BY <1>15, <2>1, NoOwnerIs DEF NoDoc
  <2> QED  BY <1>10, <1>15, <2>1, <2>2 DEF NoOwner, Done
<1>16. CASE Insert
  <2>1. Final \in Doc /\ doc[Final].state = "path" /\ step = "insert"
    BY <1>16, FinalIs, ItemIs DEF Insert
  <2>2. \A d \in Doc : doc'[d] # NoDoc <=> doc[d] # NoDoc
    BY <1>16, <2>1, InsertIs DEF NoDoc
  <2>3. UNCHANGED <<handle, queue, round>> /\ step' = "forget"
    BY <1>16 DEF Insert
  <2>4. Todo' <= Todo
    BY <1>0, <2>1, <2>3 DEF Todo
  <2> QED  BY <2>2, <2>3, <2>4, RoomSame DEF Opened
<1>17. CASE UNCHANGED vars
  <2>1. UNCHANGED <<handle, queue, round, step, doc>>
    BY <1>17 DEF vars
  <2>2. Todo' <= Todo
    BY <1>0, <2>1 DEF Todo
  <2> QED  BY <2>1, <2>2, RoomSame DEF Opened
<1> QED  BY <1>3, <1>4, <1>5, <1>6, <1>7, <1>8, <1>9, <1>11, <1>12, <1>13, <1>14, <1>15, <1>16, <1>17
         DEF Next, Call, SyncStep

\* The types are kept by every step.
LEMMA TypesKept ==
    ASSUME BaseInv, [Next]_vars
    PROVE  TypeInv'
<1>1. CASE UNCHANGED vars
  BY <1>1 DEF BaseInv, TypeInv, FileType, PendingType, DiskType, HandleType, SyncType, DocType,
              SavedType, vars, Born, Known, Work
<1> QED  BY <1>1, CreateTypes, OpenTypes, WriteTypes, ReleaseTypes, UnlinkTypes, RenameTypes,
            RenameDocTypes, StartRoundTypes, ReindexTypes, SkipTypes, SkipRemovedTypes, MoveTypes,
            NoOwnerTypes, InsertTypes, ForgetTypes DEF BaseInv, Next, Call, SyncStep

\* So is the whole of BaseInv.
LEMMA BaseKept ==
    ASSUME BaseInv, [Next]_vars
    PROVE  BaseInv'
BY TypesKept, StepKept, RoomKept DEF BaseInv

\* It holds at the start.
LEMMA BaseInit == Init => BaseInv
<1> SUFFICES ASSUME Init PROVE BaseInv
  OBVIOUS
<1>1. NoFile \in FileRecord /\ Closed \in HandleRecord /\ Closed.kind = "free"
      /\ NoDoc \in DocRecord /\ NoDoc.state = "none"
  BY Bounds DEF NoFile, FileRecord, Closed, HandleRecord, NoDoc, DocRecord, Text
<1>2. TypeInv
  BY <1>1, Bounds DEF Init, TypeInv, FileType, PendingType, DiskType, HandleType, SyncType, DocType,
                      SavedType, Text
<1>3. StepInv
  BY <1>1 DEF Init, StepInv
<1>4. RoomInv
  <2>1. Made = {} /\ Opened = {} /\ Todo = 0
    BY DEF Init, Made, Opened, Todo
  <2> QED  BY <2>1, FS_EmptySet, Bounds DEF RoomInv
<1> QED  BY <1>2, <1>3, <1>4 DEF BaseInv

\* Every state has the variables of the write path in their types, and what is pending under a
\* name is a file of that name that was not deleted. (create, rename, unlink, _commit_pending_sync)
THEOREM TypeCorrect == Spec => []TypeOK
<1>1. BaseInv => TypeOK
  BY TypesFit DEF BaseInv
<1> QED  BY <1>1, BaseInit, BaseKept, PTL DEF Spec

-----------------------------------------------------------------------------
(* The invariant of what is smooth                                         *)

\* A file to be written by the sync exactly once holds a token: its handle, then its item in the
\* queue, then its item in the round.
Held(h, f) == handle[h].kind = "staging" /\ handle[h].of = f
Queued(f) == In(queue, FileItem(f))
Going(f) == In(round, FileItem(f))
Token(f) == (\E h \in Handle : Held(h, f)) \/ Queued(f) \/ Going(f)
Cur(f) == round # <<>> /\ Head(round) = FileItem(f)

SmoothFiles == {f \in File : file[f].name \in Smooth}
SmoothDocs == {d \in Doc : doc[d].state = "live" /\ doc[d].name \in Smooth}

\* A path of permanent storage is one file's, and an inode is at one path.
MovedInv ==
    /\ \A f \in File : file[f].moved # Nil => doc[file[f].moved].state # "none"
    /\ \A f, g \in File : file[f].moved # Nil /\ file[f].moved = file[g].moved => f = g
OnePath ==
    /\ \A n, m \in Name : staging[n] # Nil /\ staging[n] = staging[m] => n = m
    /\ \A d, e \in Doc : stored[d] # Nil /\ stored[d] = stored[e] => d = e
    /\ \A n \in Name, d \in Doc : staging[n] # Nil => staging[n] # stored[d]

\* A name that is smooth is not of a temporary file, and one that is shown and temporary is rough.
NamesInv ==
    /\ \A f \in Born : file[f].temp => file[f].name \in Temp \cup rough
    /\ \A f \in Born : ~file[f].temp /\ file[f].name \in Temp => file[f].name \in rough
    /\ \A d \in Doc : doc[d].state = "live" /\ doc[d].name \in Temp => doc[d].name \in rough

\* A smooth file has one token, and as long as it has it the file is pending, or deleted.
TokenInv ==
    \A f \in SmoothFiles :
       /\ \A h, k \in Handle : Held(h, f) /\ Held(k, f) => h = k
       /\ \A h \in Handle : Held(h, f) => ~Queued(f) /\ ~Going(f)
       /\ ~(Queued(f) /\ Going(f))
       /\ Once(queue, FileItem(f)) /\ Once(round, FileItem(f))
HeldInv ==
    \A f \in SmoothFiles :
       /\ Token(f) /\ ~file[f].deleted => pending[file[f].name] = f
       /\ Going(f) => ~file[f].deleted

\* A smooth pending file has moved only while the sync is past its move; until the insert its
\* path has no row, from then on it is the one of its document.
WorkInv ==
    /\ \A n \in Smooth : pending[n] # Nil /\ file[pending[n]].moved # Nil =>
          Cur(pending[n]) /\ step \in {"insert", "forget"}
    /\ \A f \in SmoothFiles : Cur(f) /\ step = "insert" =>
          /\ file[f].moved # Nil /\ doc[file[f].moved].state = "path"
          /\ stored[file[f].moved] # Nil
    /\ \A f \in SmoothFiles : Cur(f) /\ step = "forget" =>
          /\ file[f].moved # Nil /\ doc[file[f].moved].state = "live"
          /\ doc[file[f].moved].name = file[f].name

\* The file of a smooth document has no token and is not pending any more, but between the
\* insert and the forget.
DoneInv ==
    \A f \in File : file[f].moved \in SmoothDocs =>
       \/ Cur(f) /\ step = "forget" /\ file[f].name = doc[file[f].moved].name
       \/ ~Token(f) /\ \A n \in Name : pending[n] # f

\* There is one document of a smooth name, or a file in staging, or both between the insert and
\* the forget.
OneLive == \A d, e \in SmoothDocs : doc[d].name = doc[e].name => d = e
ShownOnce ==
    \A d \in SmoothDocs : pending[doc[d].name] # Nil =>
       /\ Cur(pending[doc[d].name]) /\ step = "forget"
       /\ file[pending[doc[d].name]].moved = d
StagingInv ==
    \A n \in Smooth : staging[n] # Nil => pending[n] # Nil /\ file[pending[n]].moved = Nil

\* Nobody writes to a smooth file but its own handle, nor to a smooth document but the handles
\* of it.
HandleOfFile ==
    \A n \in Smooth, h \in Handle :
       pending[n] # Nil /\ Inode(pending[n]) # Nil /\ handle[h].inode = Inode(pending[n]) =>
          Held(h, pending[n])
InodeOfHandle ==
    \A f \in SmoothFiles, h \in Handle :
       Held(h, f) /\ ~file[f].deleted => handle[h].inode = Inode(f)
HandleOfDoc ==
    \A d \in SmoothDocs, h \in Handle : handle[h].kind # "free" =>
       (handle[h].inode = stored[d] <=> handle[h].kind = "db" /\ handle[h].of = d)

\* The last job of a smooth document is newer than its text, or one is to come. What was closed
\* under a smooth name is in its document, or in its file and that in the queue or the round.
IndexInv ==
    \A d \in SmoothDocs :
       \/ doc[d].indexed = data[stored[d]]
       \/ \E h \in Handle : handle[h].kind = "db" /\ handle[h].of = d /\ handle[h].dirty
       \/ In(queue, DocItem(d)) \/ In(round, DocItem(d))
SavedInv ==
    \A n \in Smooth : saved[n] # Nil =>
       \/ Catalogued(n, saved[n])
       \/ Staged(n, saved[n]) /\ (Queued(pending[n]) \/ Going(pending[n]))

PathInv == MovedInv /\ OnePath
FileInv == NamesInv /\ TokenInv /\ HeldInv
SyncInv == WorkInv /\ DoneInv
NameInv == OneLive /\ ShownOnce /\ StagingInv
OpenInv == HandleOfFile /\ InodeOfHandle /\ HandleOfDoc
TextInv == IndexInv /\ SavedInv /\ LiveDocHasFile
SmoothInv == PathInv /\ FileInv /\ SyncInv /\ NameInv /\ OpenInv /\ TextInv
IInv == BaseInv /\ SmoothInv

-----------------------------------------------------------------------------
(* Lemmas                                                                  *)

\* Items in a sequence with one more, and one less
LEMMA InAppend ==
    ASSUME NEW X, NEW s \in Seq(X), NEW y
    PROVE  /\ \A x : In(Append(s, y), x) <=> In(s, x) \/ x = y
           /\ \A x : Once(s, x) /\ (x = y => ~In(s, x)) => Once(Append(s, y), x)
<1> DEFINE t == Append(s, y)
<1>1. /\ Len(s) \in Nat /\ Len(t) = Len(s) + 1 /\ t[Len(s) + 1] = y
      /\ \A i \in 1 .. Len(s) : t[i] = s[i]
  OBVIOUS
<1>2. 1 .. Len(t) = 1 .. Len(s) \cup {Len(s) + 1}
  BY <1>1
<1> HIDE DEF t
<1>3. \A x : In(t, x) <=> In(s, x) \/ x = y
  BY <1>1, <1>2 DEF In
<1>4. ASSUME NEW x, Once(s, x), x = y => ~In(s, x) PROVE Once(t, x)
  BY <1>1, <1>2, <1>4 DEF In, Once
<1> QED  BY <1>3, <1>4 DEF t

\* Without its head, a sequence has the other items.
LEMMA InTail ==
    ASSUME NEW X, NEW s \in Seq(X), s # <<>>
    PROVE  /\ \A x : In(s, x) <=> x = Head(s) \/ In(Tail(s), x)
           /\ \A x : Once(s, x) => Once(Tail(s), x) /\ (x = Head(s) => ~In(Tail(s), x))
<1> DEFINE t == Tail(s)
<1>1. /\ Len(s) \in Nat /\ Len(s) >= 1 /\ Len(t) = Len(s) - 1 /\ Head(s) = s[1]
      /\ \A i \in 1 .. Len(t) : t[i] = s[i + 1]
  OBVIOUS
<1> HIDE DEF t
<1>2. ASSUME NEW x PROVE In(s, x) <=> x = Head(s) \/ In(t, x)
  <2>1. ASSUME NEW i \in 1 .. Len(s), s[i] = x, x # Head(s) PROVE In(t, x)
    <3>1. i - 1 \in 1 .. Len(t) /\ t[i - 1] = s[i]
      BY <1>1, <2>1
    <3> QED  BY <2>1, <3>1 DEF In
  <2>2. ASSUME NEW i \in 1 .. Len(t), t[i] = x PROVE In(s, x)
    <3>1. i + 1 \in 1 .. Len(s) /\ s[i + 1] = t[i]
      BY <1>1
    <3> QED  BY <2>2, <3>1 DEF In
  <2>3. In(s, Head(s))
    <3>1. 1 \in 1 .. Len(s) /\ s[1] = Head(s)
      BY <1>1
    <3> QED  BY <3>1 DEF In
  <2> QED  BY <2>1, <2>2, <2>3 DEF In
<1>3. ASSUME NEW x, Once(s, x) PROVE Once(t, x)
  <2> SUFFICES ASSUME NEW i \in 1 .. Len(t), NEW j \in 1 .. Len(t), t[i] = x, t[j] = x PROVE i = j
    BY DEF Once
  <2>1. i + 1 \in 1 .. Len(s) /\ j + 1 \in 1 .. Len(s) /\ s[i + 1] = x /\ s[j + 1] = x
    BY <1>1
  <2>2. i + 1 = j + 1
    BY <1>3, <2>1 DEF Once
  <2> QED  BY <2>2
<1>4. ASSUME Once(s, Head(s)) PROVE ~In(t, Head(s))
  <2> SUFFICES ASSUME NEW i \in 1 .. Len(t), t[i] = Head(s) PROVE FALSE
    BY DEF In
  <2>1. i + 1 \in 1 .. Len(s) /\ 1 \in 1 .. Len(s) /\ s[i + 1] = Head(s) /\ s[1] = Head(s)
    BY <1>1
  <2>2. i + 1 = 1
    BY <1>4, <2>1 DEF Once
  <2> QED  BY <2>2
<1> QED  BY <1>2, <1>3, <1>4 DEF t

\* What a token in the round or the queue says of the file
LEMMA TokenIs ==
    ASSUME TypeInv, NEW f \in File
    PROVE  /\ Cur(f) => Going(f)
           /\ Token(f) => f \in Born
           /\ Queued(f) \/ Going(f) => file[f].closed /\ ~file[f].temp
           /\ InRound(f) <=> Going(f)
<1>1. round \in Seq(Work) /\ queue \in Seq(Work)
  BY DEF TypeInv, SyncType
<1>2. Cur(f) => Going(f)
  BY <1>1, InTail DEF Cur, Going
<1>3. ASSUME NEW s \in Seq(Work), In(s, FileItem(f)) PROVE f \in Born /\ file[f].closed /\ ~file[f].temp
  <2>1. FileItem(f) \in Work
    BY <1>3 DEF In
  <2> QED  BY <2>1 DEF Work, FileItem, DocItem
<1>4. \A h \in Handle : Held(h, f) => f \in Born
  BY DEF TypeInv, HandleType, Held
<1>5. InRound(f) <=> Going(f)
  BY DEF InRound, Going, In, FileItem
<1> QED  BY <1>1, <1>2, <1>3, <1>4, <1>5 DEF Token, Queued, Going

\* A smooth name is pending when its entry is there; it is not temporary.
LEMMA SmoothIs ==
    ASSUME TypeInv, NamesInv, NEW n \in Smooth
    PROVE  /\ n \in Name /\ n \notin Temp /\ n \notin rough
           /\ IsPending(n) <=> pending[n] # Nil
           /\ pending[n] # Nil => pending[n] \in SmoothFiles /\ pending[n] \in Born
                                  /\ pending[n] \in File /\ file[pending[n]].name = n
           /\ Shown(n) <=> pending[n] # Nil \/ \E d \in SmoothDocs : doc[d].name = n
<1>1. n \in Name /\ n \notin Temp /\ n \notin rough
  BY DEF Smooth
<1>2. pending[n] # Nil => pending[n] \in SmoothFiles /\ pending[n] \in Born
                          /\ pending[n] \in File /\ file[pending[n]].name = n
  BY <1>1 DEF TypeInv, PendingType, SmoothFiles, Born
<1>3. IsPending(n) <=> pending[n] # Nil
  BY <1>1, <1>2 DEF IsPending, NamesInv
<1>4. SameName(n) # {} <=> \E d \in SmoothDocs : doc[d].name = n
  BY DEF SameName, SmoothDocs
<1> QED  BY <1>1, <1>2, <1>3, <1>4 DEF Shown

\* A file of a smooth name was created, and has that name.
LEMMA SmoothFilesIs ==
    ASSUME TypeInv, NEW f \in SmoothFiles
    PROVE  f \in File /\ f \in Born /\ file[f].name \in Smooth /\ file[f].name \in Name
BY DEF SmoothFiles, Smooth, Born

\* A file is pending under one name, its own.
LEMMA PendingOnce ==
    ASSUME TypeInv, NEW n \in Name, NEW m \in Name, pending[n] = pending[m], pending[n] # Nil
    PROVE  n = m
BY DEF TypeInv, PendingType

\* Two files with paths of their own have inodes of their own, and none has the one of a document.
LEMMA InodeOnce ==
    ASSUME TypeInv, PathInv, NEW f \in Born, NEW g \in Born, f # g,
           file[f].moved = Nil /\ file[g].moved = Nil => file[f].name # file[g].name,
           Inode(f) # Nil
    PROVE  Inode(f) # Inode(g)
<1>1. /\ f \in File /\ g \in File /\ file[f].name \in Name /\ file[g].name \in Name
      /\ (file[f].moved # Nil => file[f].moved \in Doc) /\ (file[g].moved # Nil => file[g].moved \in Doc)
  BY InodeIs
<1> QED  BY <1>1 DEF PathInv, MovedInv, OnePath, Inode

\* Nor has it the inode of a document whose path is not its.
LEMMA InodeNotStored ==
    ASSUME TypeInv, PathInv, NEW f \in Born, NEW d \in Doc, file[f].moved # d, Inode(f) # Nil
    PROVE  Inode(f) # stored[d]
BY InodeIs DEF PathInv, OnePath, Inode

\* A rename that leaves one of its names smooth is of a smooth name, to one that is free, and of
\* a file that the sync is not at.
LEMMA RenameSmooth ==
    ASSUME TypeInv, NamesInv, NEW a \in Name, NEW b \in Name, Renames(a, b)
    PROVE  /\ a # b /\ Smooth' \subseteq Smooth
           /\ \/ a \notin Smooth' /\ b \notin Smooth'
              \/ /\ rough' = rough /\ a \in Smooth /\ ~Shown(b) /\ ~InRound(pending[a])
<1>1. a # b /\ Shown(a)
  BY DEF Renames
<1>2. a \in Temp => a \in rough
  BY <1>1 DEF Shown, IsPending, SameName, NamesInv, TypeInv, PendingType
<1>3. CASE Shown(b) \/ b \in Temp \/ a \in rough \/ InRound(pending[a])
  <2>1. rough' = rough \cup {a, b}
    BY <1>3 DEF Renames
  <2> QED  BY <1>1, <2>1 DEF Smooth
<1>4. CASE ~(Shown(b) \/ b \in Temp \/ a \in rough \/ InRound(pending[a]))
  <2>1. rough' = rough
    BY <1>4 DEF Renames
  <2> QED  BY <1>1, <1>2, <1>4, <2>1 DEF Smooth
<1> QED  BY <1>3, <1>4

-----------------------------------------------------------------------------
(* Every step keeps it: the calls                                          *)

\* Create: a new file of a name that nothing is shown under. Nothing smooth is at its path.
LEMMA CreateKeeps ==
    ASSUME IInv, TypeInv', NEW n \in Name, NEW h \in Handle, Create(n, h)
    PROVE  SmoothInv'
<1>0. /\ TypeInv /\ MovedInv /\ OnePath /\ PathInv /\ NamesInv /\ TokenInv /\ HeldInv
      /\ WorkInv /\ DoneInv /\ OneLive /\ ShownOnce /\ StagingInv
      /\ HandleOfFile /\ InodeOfHandle /\ HandleOfDoc /\ IndexInv /\ SavedInv /\ LiveDocHasFile
  BY DEF IInv, BaseInv, SmoothInv, PathInv, FileInv, SyncInv, NameInv, OpenInv, TextInv
<1>1. PICK f \in File :
              /\ f \notin Born /\ file[f].moved = Nil /\ handle[h] = Closed /\ ~Shown(n)
              /\ file' \in [File -> FileRecord]
              /\ \A g \in File : g # f => file'[g] = file[g]
              /\ file'[f].name = n /\ file'[f].moved = Nil /\ (file'[f].temp <=> n \in Temp)
              /\ ~file'[f].closed /\ ~file'[f].deleted
              /\ pending' = [pending EXCEPT ![n] = f]
              /\ \/ staging[n] = Nil /\ staging' = [staging EXCEPT ![n] = f] /\ data' = data
                 \/ /\ staging[n] # Nil /\ staging' = staging
                    /\ data' = [data EXCEPT ![staging[n]] = Nil]
              /\ handle' \in [Handle -> HandleRecord]
              /\ \A k \in Handle : k # h => handle'[k] = handle[k]
              /\ handle'[h].kind = "staging" /\ handle'[h].of = f
              /\ handle'[h].inode = staging'[n] /\ ~handle'[h].dirty
              /\ Room
              /\ UNCHANGED <<stored, queue, round, step, doc, saved, rough>>
  BY <1>0, CreateIs
<1>2. UNCHANGED <<stored, queue, round, step, doc, saved, rough>>
  BY <1>1
\* The new file was nowhere.
<1>3. /\ \A m \in Name : staging[m] # f /\ pending[m] # f
      /\ \A d \in Doc : stored[d] # f
      /\ \A k \in Handle : handle[k].inode # f /\ ~Held(k, f)
      /\ ~Queued(f) /\ ~Going(f) /\ ~Cur(f)
  <2>1. /\ \A m \in Name : staging[m] # f /\ pending[m] # f
        /\ \A d \in Doc : stored[d] # f
    BY <1>0, <1>1 DEF TypeInv, PendingType, DiskType, File
  <2>2. \A k \in Handle : handle[k].inode # f /\ ~Held(k, f)
    BY <1>0, <1>1 DEF TypeInv, HandleType, Held, Closed, File
  <2>3. ~Queued(f) /\ ~Going(f) /\ ~Cur(f)
    BY <1>0, <1>1, TokenIs DEF Token
  <2> QED  BY <2>1, <2>2, <2>3
\* If its name is smooth, the name was free.
<1>4. ASSUME n \in Smooth
      PROVE  /\ pending[n] = Nil /\ staging[n] = Nil /\ staging' = [staging EXCEPT ![n] = f]
             /\ data' = data /\ \A d \in SmoothDocs : doc[d].name # n
  <2>1. pending[n] = Nil /\ \A d \in SmoothDocs : doc[d].name # n
    BY <1>0, <1>1, <1>4, SmoothIs
  <2> QED  BY <1>0, <1>1, <1>4, <2>1 DEF StagingInv
<1>5. /\ Smooth' = Smooth /\ SmoothDocs' = SmoothDocs
      /\ SmoothFiles' \subseteq SmoothFiles \cup {f}
      /\ \A g \in SmoothFiles : g # f /\ g \in File
      /\ f \in SmoothFiles' => n \in Smooth
  <2>1. Smooth' = Smooth /\ SmoothDocs' = SmoothDocs
    BY <1>2 DEF Smooth, SmoothDocs
  <2>2. \A g \in SmoothFiles : g # f /\ g \in File
    BY <1>0, <1>1, SmoothFilesIs
  <2> QED  BY <1>1, <2>1, <2>2 DEF SmoothFiles
\* Nothing else of a smooth name changes: its file, its inode, what is there.
<1>6. ASSUME NEW m \in Smooth, m # n
      PROVE  /\ pending'[m] = pending[m] /\ staging'[m] = staging[m]
             /\ pending[m] # Nil => /\ pending[m] # f /\ file'[pending[m]] = file[pending[m]]
                                    /\ (Inode(pending[m]))' = Inode(pending[m])
                                    /\ (Inode(pending[m]) # Nil =>
                                           data'[Inode(pending[m])] = data[Inode(pending[m])]
                                           /\ Inode(pending[m]) # staging'[n])
  <2>1. m \in Name /\ (pending[m] # Nil => pending[m] \in Born /\ file[pending[m]].name = m)
    BY <1>0, <1>6, SmoothIs
  <2>2. pending'[m] = pending[m] /\ staging'[m] = staging[m]
    BY <1>0, <1>1, <1>6, <2>1 DEF TypeInv, PendingType, DiskType
  <2>3. ASSUME pending[m] # Nil
        PROVE  /\ pending[m] # f /\ file'[pending[m]] = file[pending[m]]
               /\ (Inode(pending[m]))' = Inode(pending[m])
    BY <1>0, <1>1, <1>3, <2>1, <2>2, <2>3 DEF Inode, Born
  <2>4. ASSUME pending[m] # Nil, Inode(pending[m]) # Nil
        PROVE  /\ Inode(pending[m]) # staging'[n]
               /\ data'[Inode(pending[m])] = data[Inode(pending[m])]
    <3>1. Inode(pending[m]) \in Born /\ (file[pending[m]].moved # Nil => file[pending[m]].moved \in Doc)
      BY <1>0, <2>1, <2>4, InodeIs
    <3>2. staging[n] # Nil => Inode(pending[m]) # staging[n]
      BY <1>0, <1>6, <2>1, <2>4, <3>1 DEF OnePath, Inode
    <3>3. Inode(pending[m]) # staging'[n]
      BY <1>0, <1>1, <3>1, <3>2 DEF TypeInv, DiskType
    <3> QED  BY <1>0, <1>1, <3>1, <3>2, <3>3 DEF TypeInv, DiskType, Born
  <2> QED  BY <2>2, <2>3, <2>4
<1>7. ASSUME NEW d \in SmoothDocs
      PROVE  d \in Doc /\ stored[d] # Nil /\ data'[stored[d]] = data[stored[d]] /\ stored[d] # staging'[n]
  <2>1. d \in Doc /\ stored[d] # Nil /\ stored[d] \in Born
    BY <1>0, <1>7 DEF SmoothDocs, LiveDocHasFile, TypeInv, DiskType
  <2>2. staging[n] # Nil => staging[n] # stored[d]
    BY <1>0, <2>1 DEF OnePath
  <2> QED  BY <1>0, <1>1, <2>1, <2>2 DEF TypeInv, DiskType, Born
<1>8. ASSUME NEW g \in File, g # f
      PROVE  /\ \A k \in Handle : (Held(k, g))' <=> Held(k, g)
             /\ (Queued(g))' <=> Queued(g)
             /\ (Going(g))' <=> Going(g)
             /\ (Cur(g))' <=> Cur(g)
             /\ (Token(g))' <=> Token(g)
  <2>1. \A k \in Handle : (Held(k, g))' <=> Held(k, g)
    BY <1>1, <1>8 DEF Held, Closed
  <2>2. ((Queued(g))' <=> Queued(g)) /\ ((Going(g))' <=> Going(g)) /\ ((Cur(g))' <=> Cur(g))
    BY <1>2 DEF Queued, Going, Cur, In
  <2> QED  BY <2>1, <2>2 DEF Token
<1>9. ~(Queued(f))' /\ ~(Going(f))' /\ \A k \in Handle : (Held(k, f))' <=> k = h
  <2>1. ~(Queued(f))' /\ ~(Going(f))'
    BY <1>2, <1>3 DEF Queued, Going, In
  <2> QED  BY <1>1, <1>3, <2>1 DEF Held
\* The parts
<1>11. MovedInv'
  BY <1>0, <1>1, <1>2 DEF MovedInv
<1>12. OnePath'
  BY <1>0, <1>1, <1>3 DEF OnePath, TypeInv, DiskType
<1>13. NamesInv'
  <2>1. \A g \in Born' : g # f => g \in Born /\ file'[g] = file[g]
    BY <1>1 DEF Born
  <2>2. \A d \in Doc : doc[d].state = "live" /\ doc[d].name \in Temp => doc[d].name \in rough
    BY <1>0 DEF NamesInv
  <2>3. n \in Temp => file'[f].temp
    BY <1>1
  <2> QED  BY <1>0, <1>1, <1>2, <2>1, <2>2, <2>3 DEF NamesInv, Born
<1>14. TokenInv'
  <2> SUFFICES ASSUME NEW g \in SmoothFiles'
               PROVE  /\ \A j, k \in Handle : (Held(j, g))' /\ (Held(k, g))' => j = k
                      /\ \A k \in Handle : (Held(k, g))' => ~(Queued(g))' /\ ~(Going(g))'
                      /\ ~((Queued(g))' /\ (Going(g))')
                      /\ (Once(queue, FileItem(g)))' /\ (Once(round, FileItem(g)))'
    BY DEF TokenInv
  <2>1. CASE g = f
    <3>1. (Once(queue, FileItem(f)))' /\ (Once(round, FileItem(f)))'
      BY <1>9 DEF Queued, Going, In, Once
    <3> QED  BY <1>9, <2>1, <3>1
  <2>2. CASE g # f
    <3>1. g \in SmoothFiles /\ g \in File
      BY <1>5, <2>2
    <3>2. /\ (Once(queue, FileItem(g)))' <=> Once(queue, FileItem(g))
          /\ (Once(round, FileItem(g)))' <=> Once(round, FileItem(g))
      BY <1>2 DEF Once
    <3> QED  BY <1>0, <1>8, <2>2, <3>1, <3>2 DEF TokenInv
  <2> QED  BY <2>1, <2>2
<1>15. HeldInv'
  <2> SUFFICES ASSUME NEW g \in SmoothFiles'
               PROVE  /\ (Token(g))' /\ ~file'[g].deleted => pending'[file'[g].name] = g
                      /\ (Going(g))' => ~file'[g].deleted
    BY DEF HeldInv
  <2>1. CASE g = f
    BY <1>0, <1>1, <2>1 DEF TypeInv, PendingType
  <2>2. CASE g # f
    <3>1. g \in SmoothFiles /\ g \in File /\ file'[g] = file[g] /\ file[g].name \in Smooth /\ g \in Born
      BY <1>0, <1>1, <1>5, <2>2, SmoothFilesIs
    <3>2. Token(g) /\ ~file[g].deleted => file[g].name # n
      BY <1>0, <1>3, <1>4, <3>1 DEF HeldInv, File
    <3> QED  BY <1>0, <1>6, <1>8, <2>2, <3>1, <3>2 DEF HeldInv
  <2> QED  BY <2>1, <2>2
<1>16. WorkInv'
  <2>1. ASSUME NEW m \in Smooth, pending'[m] # Nil, file'[pending'[m]].moved # Nil
        PROVE  (Cur(pending[m]))' /\ step' \in {"insert", "forget"}
    <3>1. m # n
      BY <1>0, <1>1, <2>1 DEF TypeInv, PendingType
    <3>2. /\ pending'[m] = pending[m] /\ pending[m] # Nil /\ pending[m] # f /\ pending[m] \in File
          /\ file'[pending[m]] = file[pending[m]]
      BY <1>0, <1>6, <2>1, <3>1, SmoothIs
    <3>3. Cur(pending[m]) /\ step \in {"insert", "forget"}
      BY <1>0, <2>1, <3>2 DEF WorkInv
    <3> QED  BY <1>2, <3>2, <3>3 DEF Cur
  <2>2. ASSUME NEW g \in SmoothFiles', (Cur(g))'
        PROVE  g \in SmoothFiles /\ Cur(g) /\ file'[g] = file[g]
    <3>1. g # f
      BY <1>2, <1>3, <2>2 DEF Cur
    <3>2. g \in SmoothFiles /\ g \in File
      BY <1>5, <2>2, <3>1
    <3> QED  BY <1>1, <1>8, <2>2, <3>1, <3>2
  <2>3. ASSUME NEW g \in SmoothFiles', (Cur(g))', step' = "insert"
        PROVE  /\ file'[g].moved # Nil /\ doc'[file'[g].moved].state = "path"
               /\ stored'[file'[g].moved] # Nil
    BY <1>0, <1>2, <2>2, <2>3 DEF WorkInv
  <2>4. ASSUME NEW g \in SmoothFiles', (Cur(g))', step' = "forget"
        PROVE  /\ file'[g].moved # Nil /\ doc'[file'[g].moved].state = "live"
               /\ doc'[file'[g].moved].name = file'[g].name
    BY <1>0, <1>2, <2>2, <2>4 DEF WorkInv
  <2> QED  BY <1>5, <2>1, <2>3, <2>4 DEF WorkInv
<1>17. DoneInv'
  <2> SUFFICES ASSUME NEW g \in File, file'[g].moved \in SmoothDocs
               PROVE  \/ (Cur(g))' /\ step' = "forget" /\ file'[g].name = doc'[file'[g].moved].name
                      \/ ~(Token(g))' /\ \A m \in Name : pending'[m] # g
    BY <1>5 DEF DoneInv
  <2>1. g # f /\ file'[g] = file[g]
    BY <1>1 DEF SmoothDocs, Doc
  <2>2. \A m \in Name : pending[m] # g => pending'[m] # g
    BY <1>0, <1>1, <2>1 DEF TypeInv, PendingType
  <2> QED  BY <1>0, <1>2, <1>8, <2>1, <2>2 DEF DoneInv
<1>18. OneLive'
  BY <1>0, <1>2, <1>5 DEF OneLive
<1>19. ShownOnce'
  <2> SUFFICES ASSUME NEW d \in SmoothDocs, pending'[doc[d].name] # Nil
               PROVE  /\ (Cur(pending[doc[d].name]))' /\ step' = "forget"
                      /\ file'[pending'[doc[d].name]].moved = d
    BY <1>2, <1>5 DEF ShownOnce, Cur
  <2>1. doc[d].name # n /\ doc[d].name \in Smooth
    BY <1>4, <1>5 DEF SmoothDocs
  <2>2. /\ pending'[doc[d].name] = pending[doc[d].name] /\ pending[doc[d].name] \in File
        /\ pending[doc[d].name] # f
        /\ file'[pending[doc[d].name]] = file[pending[doc[d].name]]
    BY <1>0, <1>6, <2>1, SmoothIs
  <2>3. Cur(pending[doc[d].name]) /\ step = "forget" /\ file[pending[doc[d].name]].moved = d
    BY <1>0, <2>2 DEF ShownOnce
  <2> QED  BY <1>2, <2>2, <2>3 DEF Cur
<1>20. StagingInv'
  <2> SUFFICES ASSUME NEW m \in Smooth, staging'[m] # Nil
               PROVE  pending'[m] # Nil /\ file'[pending'[m]].moved = Nil
    BY <1>5 DEF StagingInv
  <2>1. CASE m = n
    BY <1>0, <1>1, <2>1 DEF TypeInv, PendingType, File
  <2>2. CASE m # n
    BY <1>0, <1>6, <2>2 DEF StagingInv
  <2> QED  BY <2>1, <2>2
<1>21. HandleOfFile'
  <2> SUFFICES ASSUME NEW m \in Smooth, NEW k \in Handle, pending'[m] # Nil,
                      (Inode(pending[m]))' # Nil, handle'[k].inode = (Inode(pending[m]))'
               PROVE  (Held(k, pending[m]))'
    BY <1>5 DEF HandleOfFile
  <2>1. CASE m = n
    <3>1. pending'[n] = f /\ (Inode(f))' = f
      BY <1>0, <1>1, <1>4, <2>1 DEF Inode, TypeInv, PendingType, DiskType
    <3>2. (Inode(pending[m]))' = (Inode(f))'
      BY <2>1, <3>1 DEF Inode
    <3>3. k = h
      BY <1>1, <1>3, <3>1, <3>2
    <3> QED  BY <1>1, <2>1, <3>1, <3>3 DEF Held
  <2>2. CASE m # n
    <3>1. /\ pending'[m] = pending[m] /\ pending[m] # Nil /\ pending[m] # f /\ pending[m] \in File
      BY <1>0, <1>6, <2>2, SmoothIs
    <3>2. (Inode(pending[m]))' = Inode(pending[m])
      BY <1>6, <2>2, <3>1
    <3>3. k # h
      BY <1>1, <1>6, <2>2, <3>1, <3>2
    <3>4. Held(k, pending[m])
      BY <1>0, <1>1, <3>1, <3>2, <3>3 DEF HandleOfFile
    <3> QED  BY <1>8, <3>1, <3>4 DEF Held
  <2> QED  BY <2>1, <2>2
<1>22. InodeOfHandle'
  <2> SUFFICES ASSUME NEW g \in SmoothFiles', NEW k \in Handle, (Held(k, g))', ~file'[g].deleted
               PROVE  handle'[k].inode = (Inode(g))'
    BY DEF InodeOfHandle
  <2>1. CASE g = f
    <3>1. k = h
      BY <1>9, <2>1
    <3> QED  BY <1>1, <2>1, <3>1 DEF Inode
  <2>2. CASE g # f
    <3>1. g \in SmoothFiles /\ g \in File /\ file'[g] = file[g] /\ file[g].name \in Smooth /\ g \in Born
      BY <1>0, <1>1, <1>5, <2>2, SmoothFilesIs
    <3>2. Held(k, g)
      BY <1>8, <2>2, <3>1
    <3>3. pending[file[g].name] = g /\ g # Nil
      BY <1>0, <3>1, <3>2 DEF HeldInv, Token, File
    <3>4. file[g].name # n
      BY <1>4, <3>1, <3>3
    <3>5. (Inode(g))' = Inode(g)
      BY <1>6, <3>1, <3>3, <3>4 DEF Inode
    <3>6. k # h
      BY <1>3, <1>1, <3>2 DEF Held, Closed
    <3> QED  BY <1>0, <1>1, <3>1, <3>2, <3>5, <3>6 DEF InodeOfHandle
  <2> QED  BY <2>1, <2>2
<1>23. HandleOfDoc'
  <2> SUFFICES ASSUME NEW d \in SmoothDocs, NEW k \in Handle, handle'[k].kind # "free"
               PROVE  handle'[k].inode = stored[d] <=> handle'[k].kind = "db" /\ handle'[k].of = d
    BY <1>2, <1>5 DEF HandleOfDoc
  <2>1. CASE k = h
    BY <1>1, <1>7, <2>1
  <2>2. CASE k # h
    BY <1>0, <1>1, <2>2 DEF HandleOfDoc
  <2> QED  BY <2>1, <2>2
<1>24. IndexInv'
  <2> SUFFICES ASSUME NEW d \in SmoothDocs
               PROVE  \/ doc[d].indexed = data'[stored[d]]
                      \/ \E k \in Handle : handle'[k].kind = "db" /\ handle'[k].of = d /\ handle'[k].dirty
                      \/ In(queue, DocItem(d)) \/ In(round, DocItem(d))
    BY <1>2, <1>5 DEF IndexInv, In
  <2>1. \A k \in Handle : handle[k].kind = "db" => k # h
    BY <1>1 DEF Closed
  <2> QED  BY <1>0, <1>1, <1>7, <2>1 DEF IndexInv
<1>25. SavedInv'
  <2> SUFFICES ASSUME NEW m \in Smooth, saved[m] # Nil
               PROVE  \/ (Catalogued(m, saved[m]))'
                      \/ (Staged(m, saved[m]))' /\ ((Queued(pending[m]))' \/ (Going(pending[m]))')
    BY <1>2, <1>5 DEF SavedInv
  <2>1. CASE Catalogued(m, saved[m])
    <3>1. PICK d \in SameName(m) : stored[d] # Nil /\ data[stored[d]] >= saved[m]
      BY <2>1 DEF Catalogued
    <3>2. d \in SmoothDocs /\ d \in (SameName(m))'
      BY <1>2 DEF SameName, SmoothDocs
    <3> QED  BY <1>2, <1>7, <3>1, <3>2 DEF Catalogued
  <2>2. CASE Staged(m, saved[m]) /\ (Queued(pending[m]) \/ Going(pending[m]))
    <3>1. m # n /\ pending[m] # Nil /\ pending[m] \in File
      BY <1>0, <1>4, <2>2, SmoothIs DEF Staged
    <3>2. /\ pending'[m] = pending[m] /\ pending[m] # f
          /\ (Inode(pending[m]))' = Inode(pending[m])
          /\ data'[Inode(pending[m])] = data[Inode(pending[m])]
          /\ file'[pending[m]] = file[pending[m]]
      BY <1>6, <2>2, <3>1 DEF Staged
    <3>3. (Staged(m, saved[m]))'
      BY <1>2, <2>2, <3>2 DEF Staged, IsPending
    <3>4. (Queued(pending[m]))' \/ (Going(pending[m]))'
      BY <1>2, <2>2, <3>2 DEF Queued, Going, In
    <3> QED  BY <3>3, <3>4
  <2> QED  BY <1>0, <2>1, <2>2 DEF SavedInv
<1>26. LiveDocHasFile'
  BY <1>0, <1>2, <1>5 DEF LiveDocHasFile
<1> QED  BY <1>11, <1>12, <1>13, <1>14, <1>15, <1>16, <1>17, <1>18, <1>19, <1>20, <1>21, <1>22,
            <1>23, <1>24, <1>25, <1>26
         DEF SmoothInv, PathInv, FileInv, SyncInv, NameInv, OpenInv, TextInv

\* The parts, to cite them one by one
LEMMA Parts ==
    IInv => /\ TypeInv /\ StepInv /\ MovedInv /\ OnePath /\ PathInv /\ NamesInv /\ TokenInv /\ HeldInv
            /\ WorkInv /\ DoneInv /\ OneLive /\ ShownOnce /\ StagingInv
            /\ HandleOfFile /\ InodeOfHandle /\ HandleOfDoc /\ IndexInv /\ SavedInv /\ LiveDocHasFile
BY DEF IInv, BaseInv, SmoothInv, PathInv, FileInv, SyncInv, NameInv, OpenInv, TextInv

\* Open: the name of a file in staging becomes rough, a document gets one more handle.
LEMMA OpenKeeps ==
    ASSUME IInv, TypeInv', NEW n \in Name, NEW h \in Handle, OpenPending(n, h) \/ OpenDoc(n, h)
    PROVE  SmoothInv'
<1>0. /\ TypeInv /\ MovedInv /\ OnePath /\ PathInv /\ NamesInv /\ TokenInv /\ HeldInv
      /\ WorkInv /\ DoneInv /\ OneLive /\ ShownOnce /\ StagingInv
      /\ HandleOfFile /\ InodeOfHandle /\ HandleOfDoc /\ IndexInv /\ SavedInv /\ LiveDocHasFile
  BY Parts
<1>1. /\ UNCHANGED <<file, pending, staging, stored, data, queue, round, step, doc, saved>>
      /\ handle[h] = Closed /\ \A k \in Handle : k # h => handle'[k] = handle[k]
      /\ ~handle'[h].dirty
  BY <1>0 DEF OpenPending, OpenDoc, TypeInv, HandleType
\* The new handle is of a file whose name is not smooth any more, with its inode, or of a
\* document that is shown under its name, with the inode it has.
<1>2. \/ /\ rough' = rough \cup {n} /\ pending[n] # Nil
         /\ handle'[h].kind = "staging" /\ handle'[h].of = pending[n]
         /\ handle'[h].inode = Inode(pending[n]) /\ Inode(pending[n]) # Nil
      \/ /\ rough' = rough /\ ~IsPending(n)
         /\ handle'[h].kind = "db" /\ handle'[h].of \in SameName(n)
         /\ handle'[h].inode = stored[handle'[h].of] /\ stored[handle'[h].of] # Nil
  BY <1>0 DEF OpenPending, OpenDoc, TypeInv, HandleType, IsPending
<1>3. Smooth' \subseteq Smooth /\ SmoothFiles' \subseteq SmoothFiles /\ SmoothDocs' \subseteq SmoothDocs
  BY <1>1, <1>2 DEF Smooth, SmoothFiles, SmoothDocs
<1>4. /\ \A g : (Queued(g))' <=> Queued(g)
      /\ \A g : (Going(g))' <=> Going(g)
      /\ \A g : (Cur(g))' <=> Cur(g)
      /\ \A g : (Inode(g))' = Inode(g)
      /\ \A g : (Once(queue, FileItem(g)))' <=> Once(queue, FileItem(g))
      /\ \A g : (Once(round, FileItem(g)))' <=> Once(round, FileItem(g))
  BY <1>1 DEF Queued, Going, Cur, Inode, In, Once
<1>5. /\ \A g \in SmoothFiles', k \in Handle : (Held(k, g))' <=> Held(k, g)
      /\ \A g \in SmoothFiles' : (Token(g))' <=> Token(g)
  <2>1. ASSUME NEW g \in SmoothFiles', NEW k \in Handle PROVE (Held(k, g))' <=> Held(k, g)
    <3>1. CASE k # h
      BY <1>1, <3>1 DEF Held
    <3>2. CASE k = h
      <4>1. ~Held(h, g)
        BY <1>1 DEF Held, Closed
      <4>2. handle'[h].kind = "staging" => g # pending[n]
        BY <1>0, <1>1, <1>2 DEF SmoothFiles, Smooth, TypeInv, PendingType
      <4> QED  BY <1>2, <3>2, <4>1, <4>2 DEF Held
    <3> QED  BY <3>1, <3>2
  <2> QED  BY <1>4, <2>1 DEF Token
<1>6. \A k \in Handle, d \in Doc : handle[k].kind = "db" => k # h
  BY <1>1 DEF Closed
\* The parts
<1>11. PathInv'
  BY <1>0, <1>1 DEF PathInv, MovedInv, OnePath
<1>12. NamesInv'
  BY <1>0, <1>1, <1>2 DEF NamesInv, Born
<1>13. TokenInv'
  BY <1>0, <1>3, <1>4, <1>5 DEF TokenInv
<1>14. HeldInv'
  BY <1>0, <1>1, <1>3, <1>4, <1>5 DEF HeldInv
<1>15. WorkInv'
  BY <1>0, <1>1, <1>3 DEF WorkInv, Cur
<1>16. DoneInv'
  <2> SUFFICES ASSUME NEW g \in File, file[g].moved \in SmoothDocs'
               PROVE  \/ (Cur(g))' /\ step' = "forget" /\ file'[g].name = doc'[file'[g].moved].name
                      \/ ~(Token(g))' /\ \A m \in Name : pending'[m] # g
    BY <1>1 DEF DoneInv
  <2>1. CASE Cur(g) /\ step = "forget" /\ file[g].name = doc[file[g].moved].name
    BY <1>1, <1>4, <2>1
  <2>2. CASE ~Token(g) /\ \A m \in Name : pending[m] # g
    <3>1. ~(Held(h, g))'
      BY <1>2, <2>2, <1>1, <1>0 DEF Held, TypeInv
    <3>2. ~(Token(g))'
      BY <1>1, <1>4, <2>2, <3>1 DEF Token, Held
    <3> QED  BY <1>1, <2>2, <3>2
  <2> QED  BY <1>0, <1>3, <2>1, <2>2 DEF DoneInv
<1>17. OneLive'
  BY <1>0, <1>1, <1>3 DEF OneLive
<1>18. ShownOnce'
  BY <1>0, <1>1, <1>3 DEF ShownOnce, Cur
<1>19. StagingInv'
  BY <1>0, <1>1, <1>3 DEF StagingInv
<1>20. HandleOfFile'
  <2> SUFFICES ASSUME NEW m \in Smooth', NEW k \in Handle, pending[m] # Nil,
                      Inode(pending[m]) # Nil, handle'[k].inode = Inode(pending[m])
               PROVE  (Held(k, pending[m]))'
    BY <1>1 DEF HandleOfFile, Inode
  <2>1. m \in Smooth /\ m \in Name /\ pending[m] \in Born /\ file[pending[m]].name = m /\ pending[m] \in File
    BY <1>0, <1>3, SmoothIs
  <2>2. CASE k # h
    BY <1>0, <1>1, <2>1, <2>2 DEF HandleOfFile, Held
  <2>3. CASE k = h
    <3>1. CASE handle'[h].kind = "staging"
      <4>1. m # n /\ pending[n] \in Born /\ file[pending[n]].name = n
        BY <1>0, <1>2, <3>1 DEF Smooth, TypeInv, PendingType
      <4> QED  BY <1>0, <1>2, <2>1, <2>3, <3>1, <4>1, InodeOnce
    <3>2. CASE handle'[h].kind = "db"
      <4> DEFINE d == handle'[h].of
      <4>1. d \in Doc /\ doc[d].state = "live" /\ doc[d].name = n /\ ~IsPending(n)
        BY <1>2, <3>2 DEF SameName
      <4>2. file[pending[m]].moved = d
        BY <1>0, <1>2, <2>1, <2>3, <3>2, <4>1, InodeNotStored
      <4>3. Cur(pending[m]) /\ step \in {"insert", "forget"} /\ d # Nil /\ pending[m] \in SmoothFiles
        BY <1>0, <2>1, <4>1, <4>2, SmoothIs DEF WorkInv, Doc
      <4>4. doc[d].name = m
        BY <1>0, <2>1, <4>1, <4>2, <4>3 DEF WorkInv
      <4>5. IsPending(m)
        BY <1>0, <2>1, SmoothIs
      <4> QED  BY <4>1, <4>4, <4>5
    <3> QED  BY <1>2, <3>1, <3>2
  <2> QED  BY <2>2, <2>3
<1>21. InodeOfHandle'
  <2> SUFFICES ASSUME NEW g \in SmoothFiles', NEW k \in Handle, (Held(k, g))', ~file[g].deleted
               PROVE  handle'[k].inode = Inode(g)
    BY <1>1 DEF InodeOfHandle, Inode
  <2>1. Held(k, g) /\ g \in SmoothFiles
    BY <1>3, <1>5
  <2>2. k # h
    BY <1>1, <2>1 DEF Held, Closed
  <2> QED  BY <1>0, <1>1, <2>1, <2>2 DEF InodeOfHandle
<1>22. HandleOfDoc'
  <2> SUFFICES ASSUME NEW d \in SmoothDocs', NEW k \in Handle, handle'[k].kind # "free"
               PROVE  handle'[k].inode = stored[d] <=> handle'[k].kind = "db" /\ handle'[k].of = d
    BY <1>1 DEF HandleOfDoc
  <2>1. d \in SmoothDocs /\ d \in Doc
    BY <1>3 DEF SmoothDocs
  <2>2. CASE k # h
    BY <1>0, <1>1, <2>1, <2>2 DEF HandleOfDoc
  <2>3. CASE k = h /\ handle'[h].kind = "db"
    <3>1. handle'[h].of \in Doc
      BY <1>2, <2>3 DEF SameName
    <3> QED  BY <1>0, <1>2, <2>1, <2>3, <3>1 DEF OnePath
  <2>4. CASE k = h /\ handle'[h].kind = "staging"
    <3>1. pending[n] # Nil /\ pending[n] \in Born /\ pending[n] \in File /\ file[pending[n]].name = n
      BY <1>0, <1>2, <2>4 DEF TypeInv, PendingType, Born
    <3>2. file[pending[n]].moved # d
      <4>1. doc[d].name # n
        BY <1>1, <1>2, <2>4 DEF SmoothDocs, Smooth
      <4> QED  BY <1>0, <2>1, <3>1, <4>1 DEF DoneInv
    <3> QED  BY <1>0, <1>2, <2>1, <2>4, <3>1, <3>2, InodeNotStored
  <2> QED  BY <1>2, <2>2, <2>3, <2>4
<1>23. IndexInv'
  <2> SUFFICES ASSUME NEW d \in SmoothDocs'
               PROVE  \/ doc[d].indexed = data[stored[d]]
                      \/ \E k \in Handle : handle'[k].kind = "db" /\ handle'[k].of = d /\ handle'[k].dirty
                      \/ In(queue, DocItem(d)) \/ In(round, DocItem(d))
    BY <1>1 DEF IndexInv, In
  <2>1. d \in SmoothDocs /\ d \in Doc
    BY <1>3 DEF SmoothDocs
  <2> QED  BY <1>0, <1>1, <1>6, <2>1 DEF IndexInv
<1>24. SavedInv'
  BY <1>0, <1>1, <1>3 DEF SavedInv, Catalogued, Staged, IsPending, SameName, Inode, Queued, Going
<1>25. LiveDocHasFile'
  BY <1>0, <1>1, <1>3 DEF LiveDocHasFile, SmoothDocs
<1> QED  BY <1>11, <1>12, <1>13, <1>14, <1>15, <1>16, <1>17, <1>18, <1>19, <1>20, <1>21, <1>22,
            <1>23, <1>24, <1>25
         DEF SmoothInv, PathInv, FileInv, SyncInv, NameInv, OpenInv, TextInv

\* Write: a newer text in the inode of a handle; if it is a smooth document's, the handle is one
\* of it and dirty.
LEMMA WriteKeeps ==
    ASSUME IInv, TypeInv', NEW h \in Handle, Write(h)
    PROVE  SmoothInv'
<1>0. /\ TypeInv /\ MovedInv /\ OnePath /\ PathInv /\ NamesInv /\ TokenInv /\ HeldInv
      /\ WorkInv /\ DoneInv /\ OneLive /\ ShownOnce /\ StagingInv
      /\ HandleOfFile /\ InodeOfHandle /\ HandleOfDoc /\ IndexInv /\ SavedInv /\ LiveDocHasFile
  BY Parts
<1>1. /\ UNCHANGED <<file, pending, staging, stored, queue, round, step, doc, saved, rough>>
      /\ \A k \in Handle : /\ handle'[k].kind = handle[k].kind /\ handle'[k].of = handle[k].of
                           /\ handle'[k].inode = handle[k].inode
                           /\ k # h => handle'[k] = handle[k]
      /\ handle'[h].dirty <=> handle[h].kind = "db"
      /\ handle[h].kind # "free" /\ handle[h].inode \in File
      /\ \A i \in File : data'[i] >= data[i]
      /\ \A i \in File : i # handle[h].inode => data'[i] = data[i]
  BY <1>0, WriteIs DEF TypeInv, DiskType, Born
<1>3. Smooth' = Smooth /\ SmoothFiles' = SmoothFiles /\ SmoothDocs' = SmoothDocs
  BY <1>1 DEF Smooth, SmoothFiles, SmoothDocs
<1>4. /\ \A g : (Queued(g))' <=> Queued(g)
      /\ \A g : (Going(g))' <=> Going(g)
      /\ \A g : (Cur(g))' <=> Cur(g)
      /\ \A g : (Inode(g))' = Inode(g)
      /\ \A g : (Once(queue, FileItem(g)))' <=> Once(queue, FileItem(g))
      /\ \A g : (Once(round, FileItem(g)))' <=> Once(round, FileItem(g))
  BY <1>1 DEF Queued, Going, Cur, Inode, In, Once
<1>5. /\ \A g, k : k \in Handle => ((Held(k, g))' <=> Held(k, g))
      /\ \A g : (Token(g))' <=> Token(g)
  BY <1>1, <1>4 DEF Held, Token
\* The parts
<1>11. PathInv' /\ NamesInv'
  BY <1>0, <1>1 DEF PathInv, MovedInv, OnePath, NamesInv, Born
<1>13. TokenInv'
  BY <1>0, <1>3, <1>4, <1>5 DEF TokenInv
<1>14. HeldInv'
  BY <1>0, <1>1, <1>3, <1>4, <1>5 DEF HeldInv
<1>15. WorkInv'
  BY <1>0, <1>1, <1>3 DEF WorkInv, Cur
<1>16. DoneInv'
  BY <1>0, <1>1, <1>3, <1>4, <1>5 DEF DoneInv
<1>17. NameInv'
  BY <1>0, <1>1, <1>3 DEF NameInv, OneLive, ShownOnce, StagingInv, Cur
<1>18. HandleOfFile' /\ InodeOfHandle' /\ HandleOfDoc'
  BY <1>0, <1>1, <1>3 DEF HandleOfFile, InodeOfHandle, HandleOfDoc, Held, Inode
<1>19. IndexInv'
  <2> SUFFICES ASSUME NEW d \in SmoothDocs
               PROVE  \/ doc[d].indexed = data'[stored[d]]
                      \/ \E k \in Handle : handle'[k].kind = "db" /\ handle'[k].of = d /\ handle'[k].dirty
                      \/ In(queue, DocItem(d)) \/ In(round, DocItem(d))
    BY <1>1, <1>3 DEF IndexInv, In
  <2>1. d \in Doc /\ stored[d] # Nil /\ stored[d] \in File
    BY <1>0 DEF SmoothDocs, LiveDocHasFile, TypeInv, DiskType, Born
  <2>2. CASE handle[h].inode = stored[d]
    <3>1. handle[h].kind = "db" /\ handle[h].of = d
      BY <1>0, <1>1, <2>2 DEF HandleOfDoc
    <3> QED  BY <1>1, <3>1
  <2>3. CASE handle[h].inode # stored[d]
    <3>1. data'[stored[d]] = data[stored[d]]
      BY <1>1, <2>1, <2>3
    <3>2. ASSUME NEW k \in Handle, handle[k].kind = "db", handle[k].of = d, handle[k].dirty
          PROVE  handle'[k].kind = "db" /\ handle'[k].of = d /\ handle'[k].dirty
      BY <1>1, <3>2
    <3> QED  BY <1>0, <3>1, <3>2 DEF IndexInv
  <2> QED  BY <2>2, <2>3
<1>20. SavedInv'
  <2> SUFFICES ASSUME NEW m \in Smooth, saved[m] # Nil
               PROVE  \/ (Catalogued(m, saved[m]))'
                      \/ (Staged(m, saved[m]))' /\ ((Queued(pending[m]))' \/ (Going(pending[m]))')
    BY <1>1, <1>3 DEF SavedInv
  <2>0. saved[m] \in Nat /\ \A i \in File : data[i] \in Nat /\ data'[i] \in Nat
    BY <1>0 DEF TypeInv, SavedType, DiskType, Smooth, Text
  <2>1. CASE Catalogued(m, saved[m])
    <3>1. PICK d \in SameName(m) : stored[d] # Nil /\ data[stored[d]] >= saved[m]
      BY <2>1 DEF Catalogued
    <3>2. stored[d] \in File /\ d \in (SameName(m))'
      BY <1>0, <1>1, <3>1 DEF SameName, TypeInv, DiskType, Born
    <3>3. data'[stored[d]] >= saved[m]
      BY <1>1, <2>0, <3>1, <3>2
    <3> QED  BY <1>1, <3>1, <3>2, <3>3 DEF Catalogued
  <2>2. CASE Staged(m, saved[m]) /\ (Queued(pending[m]) \/ Going(pending[m]))
    <3>1. Inode(pending[m]) \in File
      BY <1>0, <2>2, SmoothIs, InodeIs DEF Staged, Born
    <3>2. data'[Inode(pending[m])] >= saved[m]
      BY <1>1, <2>0, <2>2, <3>1 DEF Staged
    <3>3. (Staged(m, saved[m]))'
      BY <1>1, <2>2, <3>2 DEF Staged, IsPending, Inode
    <3> QED  BY <1>1, <2>2, <3>3 DEF Queued, Going
  <2> QED  BY <1>0, <2>1, <2>2 DEF SavedInv
<1>21. LiveDocHasFile'
  BY <1>0, <1>1, <1>3 DEF LiveDocHasFile, SmoothDocs
<1> QED  BY <1>11, <1>13, <1>14, <1>15, <1>16, <1>17, <1>18, <1>19, <1>20, <1>21
         DEF SmoothInv, FileInv, SyncInv, OpenInv, TextInv

\* Release: the token of a smooth file goes from the handle to the queue, and the text that was
\* closed is the one of the file or the document.
LEMMA ReleaseKeeps ==
    ASSUME IInv, TypeInv', NEW h \in Handle, Release(h)
    PROVE  SmoothInv'
<1>0. /\ TypeInv /\ MovedInv /\ OnePath /\ PathInv /\ NamesInv /\ TokenInv /\ HeldInv
      /\ WorkInv /\ DoneInv /\ OneLive /\ ShownOnce /\ StagingInv
      /\ HandleOfFile /\ InodeOfHandle /\ HandleOfDoc /\ IndexInv /\ SavedInv /\ LiveDocHasFile
  BY Parts
<1>1. /\ UNCHANGED <<pending, staging, stored, data, round, step, doc, rough>>
      /\ handle'[h] = Closed /\ \A k \in Handle : k # h => handle'[k] = handle[k]
      /\ handle[h].kind \in {"staging", "db"} /\ handle[h].inode \in File
      /\ saved' = [n \in Name |-> IF n \in NamesOf(h) THEN data[handle[h].inode] ELSE saved[n]]
      /\ \A f \in File : /\ file'[f].name = file[f].name /\ file'[f].moved = file[f].moved
                         /\ file'[f].temp = file[f].temp /\ file'[f].deleted = file[f].deleted
  BY <1>0, ReleaseIs, ReleaseFiles DEF TypeInv, HandleType, Born
\* What it queues
<1>2. \/ /\ handle[h].kind = "staging" /\ ~file[handle[h].of].deleted
         /\ queue' = Append(queue, FileItem(handle[h].of))
      \/ /\ handle[h].kind = "staging"
         /\ file[handle[h].of].temp \/ file[handle[h].of].deleted
         /\ queue' = queue
      \/ handle[h].kind = "db" /\ queue' = Append(queue, DocItem(handle[h].of))
      \/ handle[h].kind = "db" /\ ~handle[h].dirty /\ queue' = queue
  BY <1>0, ReleaseIs
<1>3. Smooth' = Smooth /\ SmoothFiles' = SmoothFiles /\ SmoothDocs' = SmoothDocs
  BY <1>1 DEF Smooth, SmoothFiles, SmoothDocs
<1>4. /\ \A g : (Going(g))' <=> Going(g)
      /\ \A g : (Cur(g))' <=> Cur(g)
      /\ \A g \in File : (Inode(g))' = Inode(g)
      /\ \A g : (Once(round, FileItem(g)))' <=> Once(round, FileItem(g))
      /\ \A n \in Name : pending[n] # Nil => pending[n] \in File
  BY <1>0, <1>1 DEF Going, Cur, Inode, In, Once, TypeInv, PendingType, Born
<1>5. \A g : /\ (Held(h, g))' <=> FALSE
             /\ \A k \in Handle : k # h => ((Held(k, g))' <=> Held(k, g))
  BY <1>1 DEF Held, Closed
\* What was queued stays so; besides it there is the file, or the document, that was released.
<1>6. /\ \A x : In(queue, x) => In(queue', x)
      /\ \A g : (Queued(g))' => Queued(g) \/ Held(h, g)
      /\ \A g : Once(queue, FileItem(g)) /\ (Held(h, g) => ~Queued(g)) => Once(queue', FileItem(g))
  <2>1. CASE queue' = queue
    BY <2>1 DEF Queued
  <2>2. ASSUME NEW x, queue' = Append(queue, x), \A g : x = FileItem(g) => Held(h, g)
        PROVE  /\ \A y : In(queue, y) => In(queue', y)
               /\ \A g : (Queued(g))' => Queued(g) \/ Held(h, g)
               /\ \A g : Once(queue, FileItem(g)) /\ (Held(h, g) => ~Queued(g))
                            => Once(queue', FileItem(g))
    <3>1. queue \in Seq(Work)
      BY <1>0 DEF TypeInv, SyncType
    <3>2. \A y : In(queue', y) <=> In(queue, y) \/ y = x
      BY <2>2, <3>1, InAppend
    <3>3. \A y : Once(queue, y) /\ (y = x => ~In(queue, y)) => Once(queue', y)
      BY <2>2, <3>1, InAppend
    <3> QED  BY <2>2, <3>2, <3>3 DEF Queued, FileItem
  <2>3. CASE handle[h].kind = "staging" /\ queue' = Append(queue, FileItem(handle[h].of))
    BY <2>2, <2>3 DEF Held, FileItem
  <2>4. CASE queue' = Append(queue, DocItem(handle[h].of))
    BY <2>2, <2>4 DEF FileItem, DocItem
  <2> QED  BY <1>2, <2>1, <2>3, <2>4
<1>7. \A g : (Token(g))' => Token(g)
  BY <1>4, <1>5, <1>6 DEF Token
\* The parts
<1>11. PathInv' /\ NamesInv'
  <2>1. PathInv'
    BY <1>0, <1>1 DEF PathInv, MovedInv, OnePath
  <2>2. Born' = Born /\ Born \subseteq File
    BY <1>1 DEF Born
  <2>3. NamesInv'
    BY <1>0, <1>1, <2>2 DEF NamesInv
  <2> QED  BY <2>1, <2>3
<1>12. TokenInv'
  <2> SUFFICES ASSUME NEW g \in SmoothFiles
               PROVE  /\ \A j, k \in Handle : (Held(j, g))' /\ (Held(k, g))' => j = k
                      /\ \A k \in Handle : (Held(k, g))' => ~(Queued(g))' /\ ~(Going(g))'
                      /\ ~((Queued(g))' /\ (Going(g))')
                      /\ (Once(queue, FileItem(g)))' /\ (Once(round, FileItem(g)))'
    BY <1>3 DEF TokenInv
  <2>1. /\ \A j, k \in Handle : Held(j, g) /\ Held(k, g) => j = k
        /\ \A k \in Handle : Held(k, g) => ~Queued(g) /\ ~Going(g)
        /\ ~(Queued(g) /\ Going(g))
        /\ Once(queue, FileItem(g)) /\ Once(round, FileItem(g))
    BY <1>0 DEF TokenInv
  <2>2. (Once(queue, FileItem(g)))' <=> Once(queue', FileItem(g))
    BY DEF Once, FileItem
  <2> QED  BY <1>4, <1>5, <1>6, <2>1, <2>2
<1>13. HeldInv'
  BY <1>0, <1>1, <1>3, <1>4, <1>7, SmoothFilesIs DEF HeldInv
<1>14. WorkInv'
  <2>1. \A n \in Smooth : pending[n] # Nil => pending[n] \in File
    BY <1>4 DEF Smooth
  <2>2. \A g \in SmoothFiles : g \in File
    BY DEF SmoothFiles
  <2> QED  BY <1>0, <1>1, <1>3, <2>1, <2>2 DEF WorkInv, Cur
<1>15. DoneInv'
  BY <1>0, <1>1, <1>3, <1>4, <1>7 DEF DoneInv
<1>16. OneLive' /\ ShownOnce' /\ StagingInv'
  <2>1. \A n \in Smooth : pending[n] # Nil => pending[n] \in File
    BY <1>4 DEF Smooth
  <2>2. \A d \in SmoothDocs : doc[d].name \in Smooth
    BY DEF SmoothDocs
  <2>3. OneLive'
    BY <1>0, <1>1, <1>3 DEF OneLive
  <2>4. ShownOnce'
    BY <1>0, <1>1, <1>3, <2>1, <2>2 DEF ShownOnce, Cur
  <2>5. StagingInv'
    BY <1>0, <1>1, <1>3, <2>1 DEF StagingInv
  <2> QED  BY <2>3, <2>4, <2>5
<1>17. HandleOfFile'
  <2> SUFFICES ASSUME NEW m \in Smooth, NEW k \in Handle, pending[m] # Nil,
                      (Inode(pending[m]))' # Nil, handle'[k].inode = (Inode(pending[m]))'
               PROVE  (Held(k, pending[m]))'
    BY <1>1, <1>3 DEF HandleOfFile
  <2>1. (Inode(pending[m]))' = Inode(pending[m])
    BY <1>1, <1>4 DEF Smooth, Inode
  <2>2. k # h
    BY <1>1, <2>1 DEF Closed
  <2> QED  BY <1>0, <1>1, <2>1, <2>2 DEF HandleOfFile, Held
<1>18. InodeOfHandle'
  <2> SUFFICES ASSUME NEW g \in SmoothFiles, NEW k \in Handle, (Held(k, g))', ~file[g].deleted
               PROVE  handle'[k].inode = Inode(g)
    BY <1>1, <1>3, <1>4, SmoothFilesIs DEF InodeOfHandle, SmoothFiles
  <2> QED  BY <1>0, <1>1, <1>5 DEF InodeOfHandle
<1>19. HandleOfDoc'
  BY <1>0, <1>1, <1>3 DEF HandleOfDoc, Closed
<1>20. IndexInv'
  <2> SUFFICES ASSUME NEW d \in SmoothDocs
               PROVE  \/ doc[d].indexed = data[stored[d]]
                      \/ \E k \in Handle : handle'[k].kind = "db" /\ handle'[k].of = d /\ handle'[k].dirty
                      \/ In(queue', DocItem(d)) \/ In(round, DocItem(d))
    BY <1>1, <1>3 DEF IndexInv, In, DocItem
  <2>1. CASE handle[h].kind = "db" /\ handle[h].of = d /\ handle[h].dirty
    <3>1. queue' = Append(queue, DocItem(d)) /\ queue \in Seq(Work)
      BY <1>0, <1>2, <2>1 DEF TypeInv, SyncType
    <3> QED  BY <3>1, InAppend
  <2>2. CASE ~(handle[h].kind = "db" /\ handle[h].of = d /\ handle[h].dirty)
    BY <1>0, <1>1, <1>6, <2>2 DEF IndexInv
  <2> QED  BY <2>1, <2>2
<1>21. SavedInv'
  <2> SUFFICES ASSUME NEW m \in Smooth, saved'[m] # Nil
               PROVE  \/ (Catalogued(m, saved[m]))'
                      \/ (Staged(m, saved[m]))' /\ ((Queued(pending[m]))' \/ (Going(pending[m]))')
    BY <1>3 DEF SavedInv
  <2>0. /\ m \in Name
        /\ pending[m] # Nil => pending[m] \in File /\ pending[m] \in SmoothFiles /\ file[pending[m]].name = m
    BY <1>0, SmoothIs
  <2>1. \A t : Catalogued(m, t) => \E d \in Doc : d \in SameName(m) /\ stored[d] # Nil /\ data[stored[d]] >= t
    BY DEF Catalogued, SameName
  <2>2. ASSUME NEW d \in Doc, d \in SameName(m), stored[d] # Nil, data[stored[d]] >= saved'[m]
        PROVE  (Catalogued(m, saved[m]))'
    BY <1>1, <2>2 DEF Catalogued, SameName
  <2>3. ASSUME IsPending(m), Inode(pending[m]) # Nil, data[Inode(pending[m])] >= saved'[m]
        PROVE  (Staged(m, saved[m]))'
    BY <1>1, <1>4, <2>0, <2>3 DEF Staged, IsPending, Inode
  <2>4. CASE m \notin NamesOf(h)
    <3>1. saved'[m] = saved[m]
      BY <1>1, <2>0, <2>4
    <3>2. Queued(pending[m]) \/ Going(pending[m]) => (Queued(pending[m]))' \/ (Going(pending[m]))'
      BY <1>1, <1>6 DEF Queued, Going, In, FileItem
    <3> QED  BY <1>0, <2>1, <2>2, <2>3, <3>1, <3>2 DEF SavedInv, Staged
  <2>5. CASE m \in NamesOf(h) /\ handle[h].kind = "staging"
    <3>1. saved'[m] = data[handle[h].inode] /\ pending[m] = handle[h].of /\ pending[m] # Nil
      <4>1. pending[m] = handle[h].of
        BY <2>5 DEF NamesOf
      <4>2. handle[h].of # Nil
        BY <1>0, <2>5 DEF TypeInv, HandleType, Born, File
      <4> QED  BY <1>1, <2>0, <2>5, <4>1, <4>2
    <3>2. ~file[pending[m]].deleted /\ ~file[pending[m]].temp
      BY <1>0, <2>0, <3>1, SmoothIs DEF TypeInv, PendingType, IsPending
    <3>3. handle[h].inode = Inode(pending[m]) /\ Inode(pending[m]) # Nil
      BY <1>0, <1>1, <2>0, <2>5, <3>1, <3>2 DEF InodeOfHandle, Held, File
    <3>4. (Staged(m, saved[m]))'
      <4>1. data[handle[h].inode] \in Nat
        BY <1>0, <1>1 DEF TypeInv, DiskType, Text
      <4> QED  BY <2>3, <3>1, <3>2, <3>3, <4>1 DEF IsPending
    <3>5. queue' = Append(queue, FileItem(pending[m])) /\ queue \in Seq(Work)
      BY <1>0, <1>2, <2>5, <3>1, <3>2 DEF TypeInv, SyncType
    <3>6. (Queued(pending[m]))'
      BY <1>1, <3>5, InAppend DEF Queued, In, FileItem
    <3> QED  BY <3>4, <3>6
  <2>6. CASE m \in NamesOf(h) /\ handle[h].kind = "db"
    <3> DEFINE d == handle[h].of
    <3>1. d \in Doc /\ doc[d].state = "live" /\ doc[d].name = m
      BY <1>0, <2>6 DEF NamesOf, TypeInv, HandleType, Known
    <3>2. d \in SmoothDocs
      BY <3>1 DEF SmoothDocs
    <3>3. handle[h].inode = stored[d] /\ stored[d] # Nil
      BY <1>0, <2>6, <3>2 DEF HandleOfDoc, LiveDocHasFile, SmoothDocs
    <3>4. saved'[m] = data[stored[d]] /\ data[stored[d]] \in Nat
      BY <1>0, <1>1, <2>0, <2>6, <3>3 DEF TypeInv, DiskType, Text
    <3>5. data[stored[d]] >= saved'[m]
      BY <3>4
    <3> QED  BY <2>2, <3>1, <3>3, <3>5 DEF SameName
  <2> QED  BY <1>1, <2>4, <2>5, <2>6
<1>22. LiveDocHasFile'
  BY <1>0, <1>1, <1>3 DEF LiveDocHasFile, SmoothDocs
<1> QED  BY <1>11, <1>12, <1>13, <1>14, <1>15, <1>16, <1>17, <1>18, <1>19, <1>20, <1>21, <1>22
         DEF SmoothInv, FileInv, SyncInv, NameInv, OpenInv, TextInv

\* The documents of smooth names, when their rows and their files stay, keep what they promise.
LEMMA DocsKeep ==
    ASSUME OneLive, LiveDocHasFile, HandleOfDoc, IndexInv, TypeInv,
           SmoothDocs' \subseteq SmoothDocs, UNCHANGED <<data, handle>>,
           \A d \in SmoothDocs' : doc'[d] = doc[d] /\ stored'[d] = stored[d],
           \A d \in SmoothDocs' : In(queue, DocItem(d)) \/ In(round, DocItem(d)) =>
                                     In(queue', DocItem(d)) \/ In(round', DocItem(d))
    PROVE  OneLive' /\ LiveDocHasFile' /\ HandleOfDoc' /\ IndexInv'
<1>1. OneLive' /\ LiveDocHasFile' /\ HandleOfDoc'
  BY DEF OneLive, LiveDocHasFile, HandleOfDoc, SmoothDocs
<1>2. IndexInv'
  <2> SUFFICES ASSUME NEW d \in SmoothDocs'
               PROVE  \/ doc'[d].indexed = data'[stored'[d]]
                      \/ \E k \in Handle : handle'[k].kind = "db" /\ handle'[k].of = d /\ handle'[k].dirty
                      \/ In(queue', DocItem(d)) \/ In(round', DocItem(d))
    BY DEF IndexInv, In, DocItem
  <2>1. d \in SmoothDocs /\ data'[stored'[d]] = data[stored[d]] /\ doc'[d] = doc[d]
    OBVIOUS
  <2> QED  BY <2>1 DEF IndexInv
<1> QED  BY <1>1, <1>2

\* What was saved under a name stays where it was: in its document, or in its file on the way.
LEMMA SavedKeeps ==
    ASSUME SavedInv, NEW m \in Smooth, saved[m] # Nil, saved'[m] = saved[m],
           \A d \in SameName(m) : stored[d] # Nil => d \in (SameName(m))' /\ stored'[d] = stored[d],
           \A d \in SameName(m) : stored[d] # Nil => data'[stored[d]] = data[stored[d]],
           IsPending(m) /\ Inode(pending[m]) # Nil =>
              /\ pending'[m] = pending[m] /\ file'[pending[m]].temp = file[pending[m]].temp
              /\ (Inode(pending[m]))' = Inode(pending[m])
              /\ data'[Inode(pending[m])] = data[Inode(pending[m])]
              /\ Queued(pending[m]) \/ Going(pending[m]) =>
                    In(queue', FileItem(pending[m])) \/ In(round', FileItem(pending[m]))
    PROVE  \/ (Catalogued(m, saved[m]))'
           \/ (Staged(m, saved[m]))' /\ ((Queued(pending[m]))' \/ (Going(pending[m]))')
<1>1. CASE Catalogued(m, saved[m])
  <2>1. PICK d \in SameName(m) : stored[d] # Nil /\ data[stored[d]] >= saved[m]
    BY <1>1 DEF Catalogued
  <2> QED  BY <2>1 DEF Catalogued
<1>2. CASE Staged(m, saved[m]) /\ (Queued(pending[m]) \/ Going(pending[m]))
  <2>1. IsPending(m) /\ Inode(pending[m]) # Nil /\ data[Inode(pending[m])] >= saved[m]
    BY <1>2 DEF Staged
  <2>2. (IsPending(m))'
    BY <2>1 DEF IsPending
  <2>3. (Staged(m, saved[m]))'
    BY <2>1, <2>2 DEF Staged
  <2>4. (Queued(pending[m]))' \/ (Going(pending[m]))'
    BY <1>2, <2>1 DEF Queued, Going, In, FileItem
  <2> QED  BY <2>3, <2>4
<1> QED  BY <1>1, <1>2 DEF SavedInv

\* Tokens stay when handles, the queue and the round do.
LEMMA SameTokens ==
    ASSUME UNCHANGED <<handle, queue, round>>
    PROVE  /\ \A g : (Queued(g))' <=> Queued(g)
           /\ \A g : (Going(g))' <=> Going(g)
           /\ \A g : (Cur(g))' <=> Cur(g)
           /\ \A g, k : (Held(k, g))' <=> Held(k, g)
           /\ \A g : (Token(g))' <=> Token(g)
           /\ \A g : (Once(queue, FileItem(g)))' <=> Once(queue, FileItem(g))
           /\ \A g : (Once(round, FileItem(g)))' <=> Once(round, FileItem(g))
BY DEF Queued, Going, Cur, Held, Token, In, Once

\* Unlink of a file in staging: a smooth name's is at its staging path, and the sync is not at it.
LEMMA UnlinkFileKeeps ==
    ASSUME IInv, TypeInv', NEW n \in Name, Unlink(n), NEW f \in File, UnlinksFile(n, f)
    PROVE  SmoothInv'
<1>0. /\ TypeInv /\ MovedInv /\ OnePath /\ PathInv /\ NamesInv /\ TokenInv /\ HeldInv
      /\ WorkInv /\ DoneInv /\ OneLive /\ ShownOnce /\ StagingInv
      /\ HandleOfFile /\ InodeOfHandle /\ HandleOfDoc /\ IndexInv /\ SavedInv /\ LiveDocHasFile
  BY Parts
<1>1. /\ f = pending[n] /\ f \in Born /\ file[f].name = n /\ ~file[f].deleted /\ f # Nil
      /\ \A g \in File : g # f => file'[g] = file[g]
      /\ file'[f].name = n /\ file'[f].moved = file[f].moved /\ file'[f].temp = file[f].temp
      /\ file'[f].deleted
      /\ pending'[n] = Nil /\ \A m \in Name : m # n => pending'[m] = pending[m]
      /\ \/ file[f].moved = Nil /\ staging' = [staging EXCEPT ![n] = Nil] /\ stored' = stored
         \/ /\ file[f].moved \in Doc /\ file[f].moved # Nil
            /\ staging' = staging /\ stored' = [stored EXCEPT ![file[f].moved] = Nil]
  BY <1>0 DEF UnlinksFile, TypeInv, PendingType, File
<1>2. /\ UNCHANGED <<data, handle, queue, round, step, doc>>
      /\ saved'[n] = Nil /\ \A m \in Name : m # n => saved'[m] = saved[m]
      /\ rough' = IF InRound(f) THEN rough \cup {n} ELSE rough
  BY <1>0, <1>1, UnlinkIs DEF TypeInv, SavedType, UnlinksFile
<1>3. /\ Smooth' \subseteq Smooth /\ SmoothFiles' \subseteq SmoothFiles /\ SmoothDocs' \subseteq SmoothDocs
      /\ \A g \in SmoothFiles' : g \in File /\ file[g].name \in Smooth'
      /\ \A d \in SmoothDocs' : d \in Doc /\ doc[d].name \in Smooth'
  BY <1>1, <1>2 DEF Smooth, SmoothFiles, SmoothDocs
<1>4. /\ \A g : (Queued(g))' <=> Queued(g)
      /\ \A g : (Going(g))' <=> Going(g)
      /\ \A g : (Cur(g))' <=> Cur(g)
      /\ \A g, k : (Held(k, g))' <=> Held(k, g)
      /\ \A g : (Token(g))' <=> Token(g)
      /\ \A g : (Once(queue, FileItem(g)))' <=> Once(queue, FileItem(g))
      /\ \A g : (Once(round, FileItem(g)))' <=> Once(round, FileItem(g))
  BY <1>2, SameTokens
\* Either its name is not smooth any more, or it is not in the round and has not moved.
<1>5. n \in Smooth' => ~Going(f) /\ ~Cur(f) /\ file[f].moved = Nil /\ n \in Smooth
  <2>1. n \in Smooth' => ~Going(f) /\ n \in Smooth
    BY <1>0, <1>1, <1>2, <1>3, TokenIs DEF Smooth, Born
  <2> QED  BY <1>0, <1>1, <2>1, TokenIs DEF WorkInv, Born
\* No document of a smooth name is its.
<1>6. \A d \in SmoothDocs' : d # file[f].moved /\ stored'[d] = stored[d]
  <2>1. ASSUME NEW d \in SmoothDocs', d = file[f].moved PROVE FALSE
    <3>1. Cur(f) /\ n = doc[d].name
      BY <1>0, <1>1, <1>3, <2>1 DEF DoneInv
    <3> QED  BY <1>3, <1>5, <3>1
  <2>2. \A d \in SmoothDocs' : d # file[f].moved => stored'[d] = stored[d]
    BY <1>0, <1>1, <1>3 DEF TypeInv, DiskType
  <2> QED  BY <2>1, <2>2
\* Other names keep their file and its inode.
<1>7. ASSUME NEW m \in Smooth', m # n
      PROVE  /\ m \in Smooth /\ m \in Name /\ pending'[m] = pending[m] /\ staging'[m] = staging[m]
             /\ pending[m] # Nil =>
                   /\ pending[m] # f /\ pending[m] \in File /\ file'[pending[m]] = file[pending[m]]
                   /\ (Inode(pending[m]))' = Inode(pending[m])
  <2>1. m \in Smooth /\ m \in Name /\ pending'[m] = pending[m] /\ staging'[m] = staging[m]
    BY <1>0, <1>1, <1>3, <1>7 DEF Smooth, TypeInv, DiskType
  <2>2. ASSUME pending[m] # Nil
        PROVE  pending[m] # f /\ pending[m] \in File /\ file'[pending[m]] = file[pending[m]]
               /\ (Inode(pending[m]))' = Inode(pending[m])
    <3>1. pending[m] # f /\ pending[m] \in File /\ file'[pending[m]] = file[pending[m]]
          /\ file[pending[m]].name = m /\ pending[m] \in Born
      BY <1>0, <1>1, <1>7, <2>1, <2>2, SmoothIs, PendingOnce
    <3>2. file[f].moved # Nil => file[f].moved # file[pending[m]].moved
      BY <1>0, <3>1 DEF MovedInv
    <3>3. file[pending[m]].moved # Nil => file[pending[m]].moved \in Doc
      BY <1>0, <3>1, InodeIs
    <3> QED  BY <1>0, <1>1, <2>1, <3>1, <3>2, <3>3 DEF Inode, TypeInv, DiskType
  <2> QED  BY <2>1, <2>2
\* The parts
<1>11. PathInv'
  <2>1. MovedInv'
    BY <1>0, <1>1, <1>2 DEF MovedInv
  <2>2. OnePath'
    BY <1>0, <1>1 DEF OnePath, TypeInv, DiskType
  <2> QED  BY <2>1, <2>2 DEF PathInv
<1>12. NamesInv'
  <2>1. \A g \in Born' : g \in Born /\ file'[g].name = file[g].name /\ file'[g].temp = file[g].temp
    BY <1>1 DEF Born
  <2>2. rough \subseteq rough'
    BY <1>2
  <2> QED  BY <1>0, <1>2, <2>1, <2>2 DEF NamesInv
<1>13. TokenInv'
  BY <1>0, <1>3, <1>4 DEF TokenInv
<1>14. HeldInv'
  <2> SUFFICES ASSUME NEW g \in SmoothFiles'
               PROVE  /\ (Token(g))' /\ ~file'[g].deleted => pending'[file'[g].name] = g
                      /\ (Going(g))' => ~file'[g].deleted
    BY DEF HeldInv
  <2>1. g \in SmoothFiles /\ g \in File /\ file[g].name \in Smooth' /\ file[g].name \in Name
    BY <1>3 DEF Smooth
  <2>2. CASE g = f
    BY <1>1, <1>4, <1>5, <2>1, <2>2
  <2>3. CASE g # f
    <3>1. Token(g) /\ ~file[g].deleted => pending[file[g].name] = g /\ file[g].name # n
      BY <1>0, <1>1, <2>1, <2>3 DEF HeldInv
    <3> QED  BY <1>0, <1>1, <1>4, <2>1, <2>3, <3>1 DEF HeldInv
  <2> QED  BY <2>2, <2>3
<1>15. WorkInv'
  <2>1. ASSUME NEW m \in Smooth', pending'[m] # Nil, file'[pending'[m]].moved # Nil
        PROVE  (Cur(pending[m]))' /\ step' \in {"insert", "forget"}
    <3>1. m # n
      BY <1>1, <2>1
    <3>2. pending'[m] = pending[m] /\ pending[m] # Nil /\ file'[pending[m]] = file[pending[m]] /\ m \in Smooth
      BY <1>7, <2>1, <3>1
    <3>3. Cur(pending[m]) /\ step \in {"insert", "forget"}
      BY <1>0, <2>1, <3>2 DEF WorkInv
    <3> QED  BY <1>2, <3>2, <3>3 DEF Cur
  <2>2. ASSUME NEW g \in SmoothFiles', (Cur(g))'
        PROVE  /\ g \in SmoothFiles /\ Cur(g) /\ file'[g] = file[g]
               /\ (file[g].moved # Nil => stored'[file[g].moved] = stored[file[g].moved])
    <3>1. g \in SmoothFiles /\ g \in File /\ Cur(g) /\ file[g].name \in Smooth'
      BY <1>3, <1>4, <2>2
    <3>2. g # f
      BY <1>1, <1>5, <3>1
    <3>3. file[f].moved # Nil => file[f].moved # file[g].moved
      BY <1>0, <1>1, <3>1, <3>2 DEF MovedInv
    <3>4. file[g].moved # Nil => file[g].moved \in Doc
      BY <1>0, <3>1, SmoothFilesIs, InodeIs
    <3> QED  BY <1>0, <1>1, <3>1, <3>2, <3>3, <3>4 DEF TypeInv, DiskType
  <2>3. ASSUME NEW g \in SmoothFiles', (Cur(g))', step' = "insert"
        PROVE  /\ file'[g].moved # Nil /\ doc'[file'[g].moved].state = "path"
               /\ stored'[file'[g].moved] # Nil
    BY <1>0, <1>2, <2>2, <2>3 DEF WorkInv
  <2>4. ASSUME NEW g \in SmoothFiles', (Cur(g))', step' = "forget"
        PROVE  /\ file'[g].moved # Nil /\ doc'[file'[g].moved].state = "live"
               /\ doc'[file'[g].moved].name = file'[g].name
    BY <1>0, <1>2, <2>2, <2>4 DEF WorkInv
  <2> QED  BY <2>1, <2>3, <2>4 DEF WorkInv
<1>16. DoneInv'
  <2> SUFFICES ASSUME NEW g \in File, file'[g].moved \in SmoothDocs'
               PROVE  \/ (Cur(g))' /\ step' = "forget" /\ file'[g].name = doc'[file'[g].moved].name
                      \/ ~(Token(g))' /\ \A m \in Name : pending'[m] # g
    BY DEF DoneInv
  <2>1. g # f /\ file'[g] = file[g] /\ g # Nil
    BY <1>1, <1>6 DEF File
  <2>2. \A m \in Name : pending[m] # g => pending'[m] # g
    BY <1>1, <2>1
  <2> QED  BY <1>0, <1>2, <1>3, <1>4, <2>1, <2>2 DEF DoneInv
<1>17. OneLive' /\ LiveDocHasFile' /\ HandleOfDoc' /\ IndexInv'
  BY <1>0, <1>2, <1>3, <1>6, DocsKeep
<1>18. ShownOnce'
  <2> SUFFICES ASSUME NEW d \in SmoothDocs', pending'[doc[d].name] # Nil
               PROVE  /\ (Cur(pending[doc[d].name]))' /\ step' = "forget"
                      /\ file'[pending'[doc[d].name]].moved = d
    BY <1>2 DEF ShownOnce, Cur
  <2>1. doc[d].name # n /\ doc[d].name \in Smooth' /\ d \in SmoothDocs
    BY <1>1, <1>3
  <2>2. /\ pending'[doc[d].name] = pending[doc[d].name] /\ pending[doc[d].name] # Nil
        /\ file'[pending[doc[d].name]] = file[pending[doc[d].name]]
    BY <1>7, <2>1
  <2>3. Cur(pending[doc[d].name]) /\ step = "forget" /\ file[pending[doc[d].name]].moved = d
    BY <1>0, <2>1, <2>2 DEF ShownOnce
  <2> QED  BY <1>2, <2>2, <2>3 DEF Cur
<1>19. StagingInv'
  <2> SUFFICES ASSUME NEW m \in Smooth', staging'[m] # Nil
               PROVE  pending'[m] # Nil /\ file'[pending'[m]].moved = Nil
    BY DEF StagingInv
  <2>1. m # n
    BY <1>0, <1>1, <1>5 DEF TypeInv, DiskType
  <2>2. m \in Smooth /\ staging[m] # Nil
    BY <1>7, <2>1
  <2>3. pending[m] # Nil /\ file[pending[m]].moved = Nil
    BY <1>0, <2>2 DEF StagingInv
  <2> QED  BY <1>7, <2>1, <2>3
<1>20. HandleOfFile'
  <2> SUFFICES ASSUME NEW m \in Smooth', NEW k \in Handle, pending'[m] # Nil,
                      (Inode(pending[m]))' # Nil, handle[k].inode = (Inode(pending[m]))'
               PROVE  (Held(k, pending[m]))'
    BY <1>2 DEF HandleOfFile
  <2>1. m # n
    BY <1>1
  <2>2. pending'[m] = pending[m] /\ m \in Smooth /\ (Inode(pending[m]))' = Inode(pending[m])
    BY <1>7, <2>1
  <2>3. Held(k, pending[m])
    BY <1>0, <2>2 DEF HandleOfFile
  <2> QED  BY <1>2, <2>2, <2>3 DEF Held
<1>21. InodeOfHandle'
  <2> SUFFICES ASSUME NEW g \in SmoothFiles', NEW k \in Handle, Held(k, g), ~file'[g].deleted
               PROVE  handle[k].inode = (Inode(g))'
    BY <1>2, <1>4 DEF InodeOfHandle
  <2>1. g # f /\ g \in File /\ g \in SmoothFiles /\ file[g].name \in Smooth' /\ g # Nil
    BY <1>1, <1>3 DEF File
  <2>2. ~file[g].deleted /\ Token(g)
    BY <1>1, <2>1 DEF Token
  <2>3. pending[file[g].name] = g
    BY <1>0, <2>1, <2>2 DEF HeldInv
  <2>4. file[g].name # n
    BY <1>1, <2>1, <2>3
  <2>5. (Inode(g))' = Inode(g)
    BY <1>7, <2>1, <2>3, <2>4 DEF Inode
  <2> QED  BY <1>0, <2>1, <2>2, <2>5 DEF InodeOfHandle
<1>22. SavedInv'
  <2> SUFFICES ASSUME NEW m \in Smooth', saved'[m] # Nil
               PROVE  \/ (Catalogued(m, saved[m]))'
                      \/ (Staged(m, saved[m]))' /\ ((Queued(pending[m]))' \/ (Going(pending[m]))')
    BY DEF SavedInv
  <2>1. m # n
    BY <1>2
  <2>2. m \in Smooth /\ m \in Name /\ saved'[m] = saved[m] /\ saved[m] # Nil
    BY <1>2, <1>7, <2>1
  <2>3. \A d \in SameName(m) : d \in (SameName(m))' /\ stored'[d] = stored[d]
    BY <1>2, <1>6, <2>2 DEF SameName, SmoothDocs
  <2>4. IsPending(m) =>
           /\ pending'[m] = pending[m] /\ file'[pending[m]].temp = file[pending[m]].temp
           /\ (Inode(pending[m]))' = Inode(pending[m])
    BY <1>7, <2>1 DEF IsPending
  <2>5. Queued(pending[m]) \/ Going(pending[m]) =>
           In(queue', FileItem(pending[m])) \/ In(round', FileItem(pending[m]))
    BY <1>2 DEF Queued, Going
  <2>6. data' = data
    BY <1>2
  <2> QED  BY <1>0, <2>2, <2>3, <2>4, <2>5, <2>6, SavedKeeps
<1> QED  BY <1>11, <1>12, <1>13, <1>14, <1>15, <1>16, <1>17, <1>18, <1>19, <1>20, <1>21, <1>22
         DEF SmoothInv, FileInv, SyncInv, NameInv, OpenInv, TextInv

\* Unlink of a document: nothing is in staging under its name.
LEMMA UnlinkDocKeeps ==
    ASSUME IInv, TypeInv', NEW n \in Name, Unlink(n), NEW e \in Doc, UnlinksDoc(n, e)
    PROVE  SmoothInv'
<1>0. /\ TypeInv /\ MovedInv /\ OnePath /\ PathInv /\ NamesInv /\ TokenInv /\ HeldInv
      /\ WorkInv /\ DoneInv /\ OneLive /\ ShownOnce /\ StagingInv
      /\ HandleOfFile /\ InodeOfHandle /\ HandleOfDoc /\ IndexInv /\ SavedInv /\ LiveDocHasFile
  BY Parts
<1>1. /\ pending[n] = Nil /\ doc[e].state = "live" /\ doc[e].name = n
      /\ \A d \in Doc : d # e => doc'[d] = doc[d]
      /\ doc'[e].state = "deleted"
      /\ UNCHANGED <<file, pending, staging, stored>>
  BY DEF UnlinksDoc
<1>2. /\ UNCHANGED <<data, handle, queue, round, step>>
      /\ saved'[n] = Nil /\ \A m \in Name : m # n => saved'[m] = saved[m]
      /\ rough \subseteq rough'
  BY <1>0, <1>1, UnlinkIs DEF TypeInv, SavedType
<1>3. /\ Smooth' \subseteq Smooth /\ SmoothFiles' \subseteq SmoothFiles
      /\ SmoothDocs' \subseteq SmoothDocs /\ e \notin SmoothDocs'
      /\ \A d \in SmoothDocs' : d \in Doc /\ doc'[d] = doc[d]
  BY <1>1, <1>2 DEF Smooth, SmoothFiles, SmoothDocs
<1>4. /\ \A g : (Queued(g))' <=> Queued(g)
      /\ \A g : (Going(g))' <=> Going(g)
      /\ \A g : (Cur(g))' <=> Cur(g)
      /\ \A g, k : (Held(k, g))' <=> Held(k, g)
      /\ \A g : (Token(g))' <=> Token(g)
      /\ \A g : (Once(queue, FileItem(g)))' <=> Once(queue, FileItem(g))
      /\ \A g : (Once(round, FileItem(g)))' <=> Once(round, FileItem(g))
  BY <1>2, SameTokens
\* The parts
<1>11. PathInv'
  <2>1. \A f \in File : file[f].moved # Nil => doc'[file[f].moved].state # "none"
    <3> SUFFICES ASSUME NEW f \in File, file[f].moved # Nil PROVE doc'[file[f].moved].state # "none"
      OBVIOUS
    <3>1. file[f].moved \in Doc
      BY <1>0 DEF TypeInv, FileType, FileRecord
    <3> QED  BY <1>0, <1>1, <3>1 DEF MovedInv
  <2> QED  BY <1>0, <1>1, <2>1 DEF PathInv, MovedInv, OnePath
<1>12. NamesInv'
  BY <1>0, <1>1, <1>2 DEF NamesInv, Born
<1>13. TokenInv'
  BY <1>0, <1>3, <1>4 DEF TokenInv
<1>14. HeldInv'
  BY <1>0, <1>1, <1>3, <1>4 DEF HeldInv
<1>15. WorkInv'
  <2>1. ASSUME NEW m \in Smooth', pending[m] # Nil, file[pending[m]].moved # Nil
        PROVE  Cur(pending[m]) /\ step \in {"insert", "forget"}
    BY <1>0, <1>3, <2>1 DEF WorkInv
  <2>2. ASSUME NEW f \in SmoothFiles', Cur(f), step \in {"insert", "forget"}
        PROVE  file[f].moved \in Doc /\ file[f].moved # e /\ f \in SmoothFiles
    <3>1. f \in SmoothFiles /\ f \in File /\ f \in Born /\ f # Nil
      BY <1>0, <1>3, SmoothFilesIs DEF File
    <3>2. file[f].moved \in Doc
      BY <1>0, <2>2, <3>1, InodeIs DEF WorkInv
    <3>3. Token(f) /\ ~file[f].deleted
      BY <1>0, <2>2, <3>1, TokenIs DEF Token, HeldInv
    <3>4. pending[file[f].name] = f
      BY <1>0, <3>1, <3>3 DEF HeldInv
    <3>5. file[f].moved # e
      BY <1>0, <1>1, <2>2, <3>1, <3>4 DEF WorkInv
    <3> QED  BY <3>1, <3>2, <3>5
  <2>3. WorkInv
    BY <1>0
  <2> QED  BY <1>1, <1>2, <1>4, <2>1, <2>2, <2>3 DEF WorkInv, Cur
<1>16. DoneInv'
  BY <1>0, <1>1, <1>2, <1>3, <1>4 DEF DoneInv
<1>17. OneLive' /\ LiveDocHasFile' /\ HandleOfDoc' /\ IndexInv'
  BY <1>0, <1>1, <1>2, <1>3, DocsKeep
<1>18. ShownOnce' /\ StagingInv'
  BY <1>0, <1>1, <1>2, <1>3 DEF ShownOnce, StagingInv, Cur
<1>19. HandleOfFile' /\ InodeOfHandle'
  BY <1>0, <1>1, <1>2, <1>3 DEF HandleOfFile, InodeOfHandle, Held, Inode
<1>20. SavedInv'
  <2> SUFFICES ASSUME NEW m \in Smooth', saved'[m] # Nil
               PROVE  \/ (Catalogued(m, saved[m]))'
                      \/ (Staged(m, saved[m]))' /\ ((Queued(pending[m]))' \/ (Going(pending[m]))')
    BY DEF SavedInv
  <2>1. m # n /\ m \in Smooth /\ m \in Name
    BY <1>2, <1>3 DEF Smooth
  <2>2. saved'[m] = saved[m] /\ saved[m] # Nil
    BY <1>2, <2>1
  <2>3. \A d \in SameName(m) : d \in (SameName(m))'
    BY <1>1, <2>1 DEF SameName
  <2>4. \A g \in File : (Inode(g))' = Inode(g)
    BY <1>1 DEF Inode
  <2>5. (Inode(pending[m]))' = Inode(pending[m])
    BY <1>1 DEF Inode
  <2>6. Queued(pending[m]) \/ Going(pending[m]) =>
           In(queue', FileItem(pending[m])) \/ In(round', FileItem(pending[m]))
    BY <1>2 DEF Queued, Going
  <2> QED  BY <1>0, <1>1, <1>2, <2>1, <2>2, <2>3, <2>5, <2>6, SavedKeeps
<1> QED  BY <1>11, <1>12, <1>13, <1>14, <1>15, <1>16, <1>17, <1>18, <1>19, <1>20
         DEF SmoothInv, FileInv, SyncInv, NameInv, OpenInv, TextInv

\* Rename of a file in staging: if the names stay smooth the sync is not at the file, its inode is
\* at its staging path, and the new name was free.
LEMMA RenameFileKeeps ==
    ASSUME IInv, TypeInv', NEW a \in Name, NEW b \in Name, RenamePending(a, b),
           NEW f \in File, RenamesFile(a, b, f)
    PROVE  SmoothInv'
<1>0. /\ TypeInv /\ MovedInv /\ OnePath /\ PathInv /\ NamesInv /\ TokenInv /\ HeldInv
      /\ WorkInv /\ DoneInv /\ OneLive /\ ShownOnce /\ StagingInv
      /\ HandleOfFile /\ InodeOfHandle /\ HandleOfDoc /\ IndexInv /\ SavedInv /\ LiveDocHasFile
  BY Parts
<1>1. /\ f = pending[a] /\ f \in Born /\ file[f].name = a /\ ~file[f].deleted /\ f # Nil
      /\ \A g \in File : g # f => file'[g] = file[g]
      /\ file'[f].name = b /\ file'[f].moved = Nil /\ file'[f].temp = file[f].temp
      /\ file'[f].deleted = file[f].deleted
      /\ \/ Inode(f) = Nil /\ staging' = staging
         \/ /\ Inode(f) # Nil /\ file[f].moved = Nil
            /\ staging' = [staging EXCEPT ![a] = Nil, ![b] = Inode(f)]
         \/ /\ Inode(f) # Nil /\ file[f].moved # Nil
            /\ staging' = [staging EXCEPT ![b] = Inode(f)]
      /\ \/ file[f].moved = Nil /\ stored' = stored
         \/ /\ file[f].moved \in Doc /\ file[f].moved # Nil
            /\ stored' = [stored EXCEPT ![file[f].moved] = Nil]
  BY DEF RenamesFile, File
<1>2. /\ UNCHANGED <<data, handle, queue, round, step, doc>> /\ Renames(a, b) /\ a # b
      /\ saved'[a] = Nil /\ saved'[b] = saved[a]
      /\ \A m \in Name : m # a /\ m # b => saved'[m] = saved[m]
      /\ pending'[a] = Nil /\ pending'[b] = f
      /\ \A m \in Name : m # a /\ m # b => pending'[m] = pending[m]
      /\ rough \subseteq rough'
  <2>1. a # b /\ Renames(a, b) /\ rough \subseteq rough'
    BY <1>0, RenameFileIs DEF Renames
  <2> QED  BY <1>0, <2>1, RenameFileIs DEF TypeInv, SavedType, PendingType, RenamesFile
<1>3. /\ \/ a \notin Smooth' /\ b \notin Smooth'
         \/ rough' = rough /\ a \in Smooth /\ ~Shown(b) /\ ~InRound(f)
      /\ Smooth' \subseteq Smooth
  BY <1>0, <1>1, <1>2, RenameSmooth
<1>4. /\ \A g : (Queued(g))' <=> Queued(g)
      /\ \A g : (Going(g))' <=> Going(g)
      /\ \A g : (Cur(g))' <=> Cur(g)
      /\ \A g, k : (Held(k, g))' <=> Held(k, g)
      /\ \A g : (Token(g))' <=> Token(g)
      /\ \A g : (Once(queue, FileItem(g)))' <=> Once(queue, FileItem(g))
      /\ \A g : (Once(round, FileItem(g)))' <=> Once(round, FileItem(g))
  BY <1>2, SameTokens
<1>5. a \in Smooth' \/ b \in Smooth' => a \in Smooth /\ ~Going(f) /\ ~Cur(f) /\ file[f].moved = Nil
  <2>1. a \in Smooth' \/ b \in Smooth' => a \in Smooth /\ ~Going(f)
    BY <1>0, <1>3, TokenIs
  <2> QED  BY <1>0, <1>1, <2>1, TokenIs DEF WorkInv
<1>6. ASSUME b \in Smooth'
      PROVE  /\ b \in Smooth /\ pending[b] = Nil /\ staging[b] = Nil
             /\ \A d \in SmoothDocs : doc[d].name # b
             /\ (Inode(f))' = Inode(f)
  <2>1. /\ b \in Smooth /\ pending[b] = Nil /\ \A d \in SmoothDocs : doc[d].name # b
    BY <1>0, <1>3, <1>6, SmoothIs
  <2>2. staging[b] = Nil
    BY <1>0, <2>1 DEF StagingInv
  <2>3. (Inode(f))' = staging'[b]
    BY <1>1 DEF Inode
  <2>4. staging'[b] = Inode(f)
    BY <1>0, <1>1, <1>2, <2>2 DEF TypeInv, DiskType
  <2> QED  BY <2>1, <2>2, <2>3, <2>4
<1>7. /\ SmoothFiles' \subseteq SmoothFiles /\ SmoothDocs' \subseteq SmoothDocs
      /\ f \in SmoothFiles' => b \in Smooth'
      /\ \A g \in SmoothFiles' : g \in File /\ (g # f => file[g].name \in Smooth')
      /\ \A d \in SmoothDocs' : d \in Doc /\ doc[d].name \in Smooth'
  <2>1. \A g \in SmoothFiles' : g \in File /\ file'[g].name \in Smooth'
    BY DEF SmoothFiles
  <2>2. f \in SmoothFiles' => b \in Smooth' /\ f \in SmoothFiles
    BY <1>1, <1>5, <2>1 DEF SmoothFiles
  <2>3. \A g \in SmoothFiles' : g # f => file[g].name \in Smooth' /\ g \in SmoothFiles
    BY <1>1, <1>3, <2>1 DEF SmoothFiles
  <2>4. \A d \in SmoothDocs' : d \in Doc /\ doc[d].name \in Smooth' /\ d \in SmoothDocs
    BY <1>2, <1>3 DEF SmoothDocs
  <2> QED  BY <2>1, <2>2, <2>3, <2>4
\* No document of a smooth name is its.
<1>8. \A d \in SmoothDocs' : d # file[f].moved /\ stored'[d] = stored[d]
  <2>1. ASSUME NEW d \in SmoothDocs', d = file[f].moved PROVE FALSE
    <3>1. Cur(f) /\ a = doc[d].name
      BY <1>0, <1>1, <1>7, <2>1 DEF DoneInv
    <3> QED  BY <1>7, <1>5, <3>1
  <2>2. \A d \in SmoothDocs' : d # file[f].moved => stored'[d] = stored[d]
    BY <1>0, <1>1, <1>7 DEF TypeInv, DiskType
  <2> QED  BY <2>1, <2>2
\* Other names keep their file and its inode.
<1>9. ASSUME NEW m \in Smooth', m # a, m # b
      PROVE  /\ m \in Smooth /\ m \in Name /\ pending'[m] = pending[m] /\ staging'[m] = staging[m]
             /\ pending[m] # Nil =>
                   /\ pending[m] # f /\ pending[m] \in File /\ file'[pending[m]] = file[pending[m]]
                   /\ (Inode(pending[m]))' = Inode(pending[m])
  <2>1. m \in Smooth /\ m \in Name /\ pending'[m] = pending[m] /\ staging'[m] = staging[m]
    BY <1>0, <1>1, <1>2, <1>3, <1>9 DEF Smooth, TypeInv, DiskType
  <2>2. ASSUME pending[m] # Nil
        PROVE  pending[m] # f /\ pending[m] \in File /\ file'[pending[m]] = file[pending[m]]
               /\ (Inode(pending[m]))' = Inode(pending[m])
    <3>1. pending[m] # f /\ pending[m] \in File /\ file'[pending[m]] = file[pending[m]]
          /\ file[pending[m]].name = m /\ pending[m] \in Born
      BY <1>0, <1>1, <1>9, <2>1, <2>2, SmoothIs, PendingOnce
    <3>2. file[f].moved # Nil => file[f].moved # file[pending[m]].moved
      BY <1>0, <3>1 DEF MovedInv
    <3>3. file[pending[m]].moved # Nil => file[pending[m]].moved \in Doc
      BY <1>0, <3>1, InodeIs
    <3> QED  BY <1>0, <1>1, <2>1, <3>1, <3>2, <3>3 DEF Inode, TypeInv, DiskType
  <2> QED  BY <2>1, <2>2
\* The parts
<1>11. PathInv'
  <2>1. MovedInv'
    BY <1>0, <1>1, <1>2 DEF MovedInv
  <2>2. CASE Inode(f) = Nil
    BY <1>0, <1>1, <2>1, <2>2 DEF PathInv, OnePath, TypeInv, DiskType
  <2>3. CASE Inode(f) # Nil /\ file[f].moved = Nil
    <3>1. Inode(f) = staging[a]
      BY <1>1, <2>3 DEF Inode
    <3> QED  BY <1>0, <1>1, <1>2, <2>1, <2>3, <3>1 DEF PathInv, OnePath, TypeInv, DiskType
  <2>4. CASE Inode(f) # Nil /\ file[f].moved # Nil
    <3>1. Inode(f) = stored[file[f].moved]
      BY <1>1, <2>4 DEF Inode
    <3> QED  BY <1>0, <1>1, <1>2, <2>1, <2>4, <3>1 DEF PathInv, OnePath, TypeInv, DiskType
  <2> QED  BY <2>1, <2>2, <2>3, <2>4 DEF PathInv
<1>12. NamesInv'
  <2>1. \A g \in Born' : g # f => g \in Born /\ file'[g] = file[g]
    BY <1>1 DEF Born
  <2>2. /\ file[f].temp => b \in Temp \cup rough'
        /\ ~file[f].temp /\ b \in Temp => b \in rough'
    <3>1. CASE b \in rough'
      BY <3>1
    <3>2. CASE b \notin rough'
      <4>1. rough' # rough \cup {a, b}
        BY <3>2
      <4>2. b \notin Temp /\ a \notin rough
        BY <1>2, <4>1 DEF Renames
      <4>3. b \in Smooth'
        BY <3>2, <4>2 DEF Smooth
      <4>4. a \in Smooth
        BY <1>5, <4>3
      <4>5. ~file[f].temp
        BY <1>0, <1>1, <4>4 DEF NamesInv, Smooth
      <4> QED  BY <4>2, <4>5
    <3> QED  BY <3>1, <3>2
  <2>3. ASSUME NEW g \in Born'
        PROVE  /\ file'[g].temp => file'[g].name \in Temp \cup rough'
               /\ ~file'[g].temp /\ file'[g].name \in Temp => file'[g].name \in rough'
    <3>1. CASE g = f
      BY <1>1, <2>2, <3>1
    <3>2. CASE g # f
      BY <1>0, <1>2, <2>1, <3>2 DEF NamesInv
    <3> QED  BY <3>1, <3>2
  <2> QED  BY <1>0, <1>2, <2>3 DEF NamesInv
<1>13. TokenInv'
  BY <1>0, <1>4, <1>7 DEF TokenInv
<1>14. HeldInv'
  <2> SUFFICES ASSUME NEW g \in SmoothFiles'
               PROVE  /\ (Token(g))' /\ ~file'[g].deleted => pending'[file'[g].name] = g
                      /\ (Going(g))' => ~file'[g].deleted
    BY DEF HeldInv
  <2>1. g \in SmoothFiles /\ g \in File /\ g # Nil
    BY <1>7 DEF File
  <2>2. CASE g = f
    BY <1>1, <1>2, <2>2
  <2>3. CASE g # f
    <3>1. file[g].name \in Smooth' /\ file[g].name \in Name
      BY <1>7, <2>3 DEF Smooth
    <3>2. Token(g) /\ ~file[g].deleted => /\ pending[file[g].name] = g
                                          /\ file[g].name # a /\ file[g].name # b
      BY <1>0, <1>1, <1>6, <2>1, <2>3, <3>1 DEF HeldInv
    <3> QED  BY <1>0, <1>1, <1>2, <1>4, <2>1, <2>3, <3>1, <3>2 DEF HeldInv
  <2> QED  BY <2>2, <2>3
<1>15. WorkInv'
  <2>1. ASSUME NEW m \in Smooth', pending'[m] # Nil, file'[pending'[m]].moved # Nil
        PROVE  (Cur(pending[m]))' /\ step' \in {"insert", "forget"}
    <3>1. m # a /\ m # b
      BY <1>1, <1>2, <2>1
    <3>2. pending'[m] = pending[m] /\ pending[m] # Nil /\ file'[pending[m]] = file[pending[m]] /\ m \in Smooth
      BY <1>9, <2>1, <3>1
    <3>3. Cur(pending[m]) /\ step \in {"insert", "forget"}
      BY <1>0, <2>1, <3>2 DEF WorkInv
    <3> QED  BY <1>2, <3>2, <3>3 DEF Cur
  <2>2. ASSUME NEW g \in SmoothFiles', (Cur(g))'
        PROVE  /\ g \in SmoothFiles /\ Cur(g) /\ file'[g] = file[g]
               /\ (file[g].moved # Nil => stored'[file[g].moved] = stored[file[g].moved])
    <3>1. g \in SmoothFiles /\ g \in File /\ Cur(g)
      BY <1>4, <1>7, <2>2
    <3>2. g # f
      BY <1>5, <1>7, <2>2, <3>1
    <3>3. file[f].moved # Nil => file[f].moved # file[g].moved
      BY <1>0, <1>1, <3>1, <3>2 DEF MovedInv
    <3>4. file[g].moved # Nil => file[g].moved \in Doc
      BY <1>0, <3>1, SmoothFilesIs, InodeIs
    <3> QED  BY <1>0, <1>1, <3>1, <3>2, <3>3, <3>4 DEF TypeInv, DiskType
  <2>3. ASSUME NEW g \in SmoothFiles', (Cur(g))', step' = "insert"
        PROVE  /\ file'[g].moved # Nil /\ doc'[file'[g].moved].state = "path"
               /\ stored'[file'[g].moved] # Nil
    BY <1>0, <1>2, <2>2, <2>3 DEF WorkInv
  <2>4. ASSUME NEW g \in SmoothFiles', (Cur(g))', step' = "forget"
        PROVE  /\ file'[g].moved # Nil /\ doc'[file'[g].moved].state = "live"
               /\ doc'[file'[g].moved].name = file'[g].name
    BY <1>0, <1>2, <2>2, <2>4 DEF WorkInv
  <2> QED  BY <2>1, <2>3, <2>4 DEF WorkInv
<1>16. DoneInv'
  <2> SUFFICES ASSUME NEW g \in File, file'[g].moved \in SmoothDocs'
               PROVE  \/ (Cur(g))' /\ step' = "forget" /\ file'[g].name = doc'[file'[g].moved].name
                      \/ ~(Token(g))' /\ \A m \in Name : pending'[m] # g
    BY DEF DoneInv
  <2>1. g # f /\ file'[g] = file[g] /\ g # Nil
    BY <1>1, <1>7 DEF File, Doc
  <2>2. \A m \in Name : pending[m] # g => pending'[m] # g
    BY <1>2, <2>1
  <2> QED  BY <1>0, <1>2, <1>4, <1>7, <2>1, <2>2 DEF DoneInv
<1>17. OneLive' /\ LiveDocHasFile' /\ HandleOfDoc' /\ IndexInv'
  BY <1>0, <1>2, <1>7, <1>8, DocsKeep
<1>18. ShownOnce'
  <2> SUFFICES ASSUME NEW d \in SmoothDocs', pending'[doc[d].name] # Nil
               PROVE  /\ (Cur(pending[doc[d].name]))' /\ step' = "forget"
                      /\ file'[pending'[doc[d].name]].moved = d
    BY <1>2 DEF ShownOnce, Cur
  <2>1. doc[d].name # a /\ doc[d].name # b /\ doc[d].name \in Smooth' /\ d \in SmoothDocs
    BY <1>2, <1>6, <1>7
  <2>2. /\ pending'[doc[d].name] = pending[doc[d].name] /\ pending[doc[d].name] # Nil
        /\ file'[pending[doc[d].name]] = file[pending[doc[d].name]]
    BY <1>9, <2>1
  <2>3. Cur(pending[doc[d].name]) /\ step = "forget" /\ file[pending[doc[d].name]].moved = d
    BY <1>0, <2>1, <2>2 DEF ShownOnce
  <2> QED  BY <1>2, <2>2, <2>3 DEF Cur
<1>19. StagingInv'
  <2> SUFFICES ASSUME NEW m \in Smooth', staging'[m] # Nil
               PROVE  pending'[m] # Nil /\ file'[pending'[m]].moved = Nil
    BY DEF StagingInv
  <2>1. m # a
    <3>1. ASSUME m = a PROVE FALSE
      <4>1. file[f].moved = Nil /\ Inode(f) = staging[a]
        BY <1>1, <1>5, <3>1 DEF Inode
      <4> QED  BY <1>0, <1>1, <1>2, <3>1, <4>1 DEF TypeInv, DiskType
    <3> QED  BY <3>1
  <2>2. CASE m = b
    BY <1>1, <1>2, <2>2
  <2>3. CASE m # b
    BY <1>0, <1>9, <2>1, <2>3 DEF StagingInv
  <2> QED  BY <2>2, <2>3
<1>20. HandleOfFile'
  <2> SUFFICES ASSUME NEW m \in Smooth', NEW k \in Handle, pending'[m] # Nil,
                      (Inode(pending[m]))' # Nil, handle[k].inode = (Inode(pending[m]))'
               PROVE  (Held(k, pending[m]))'
    BY <1>2 DEF HandleOfFile
  <2>1. m # a
    BY <1>2
  <2>2. CASE m = b
    <3>1. (Inode(pending[m]))' = Inode(f)
      <4>1. (Inode(pending[m]))' = (Inode(f))'
        BY <1>2, <2>2 DEF Inode
      <4> QED  BY <1>6, <2>2, <4>1
    <3>2. Held(k, f)
      BY <1>0, <1>1, <1>5, <2>2, <3>1 DEF HandleOfFile
    <3> QED  BY <1>2, <2>2, <3>2 DEF Held
  <2>3. CASE m # b
    <3>1. pending'[m] = pending[m] /\ m \in Smooth /\ (Inode(pending[m]))' = Inode(pending[m])
      BY <1>9, <2>1, <2>3
    <3>2. Held(k, pending[m])
      BY <1>0, <3>1 DEF HandleOfFile
    <3> QED  BY <1>2, <3>1, <3>2 DEF Held
  <2> QED  BY <2>2, <2>3
<1>21. InodeOfHandle'
  <2> SUFFICES ASSUME NEW g \in SmoothFiles', NEW k \in Handle, Held(k, g), ~file'[g].deleted
               PROVE  handle[k].inode = (Inode(g))'
    BY <1>2, <1>4 DEF InodeOfHandle
  <2>1. g \in File /\ g \in SmoothFiles /\ g # Nil
    BY <1>7 DEF File
  <2>2. CASE g = f
    BY <1>0, <1>1, <1>6, <1>7, <2>1, <2>2 DEF InodeOfHandle
  <2>3. CASE g # f
    <3>1. ~file[g].deleted /\ Token(g) /\ file[g].name \in Smooth'
      BY <1>1, <1>7, <2>1, <2>3 DEF Token
    <3>2. pending[file[g].name] = g
      BY <1>0, <2>1, <3>1 DEF HeldInv
    <3>3. file[g].name # a /\ file[g].name # b
      BY <1>1, <1>6, <2>1, <2>3, <3>1, <3>2
    <3>4. (Inode(g))' = Inode(g)
      BY <1>9, <2>1, <3>1, <3>2, <3>3 DEF Inode
    <3> QED  BY <1>0, <2>1, <3>1, <3>4 DEF InodeOfHandle
  <2> QED  BY <2>2, <2>3
<1>22. SavedInv'
  <2> SUFFICES ASSUME NEW m \in Smooth', saved'[m] # Nil
               PROVE  \/ (Catalogued(m, saved[m]))'
                      \/ (Staged(m, saved[m]))' /\ ((Queued(pending[m]))' \/ (Going(pending[m]))')
    BY DEF SavedInv
  <2>1. m # a
    BY <1>2
  <2>2. CASE m = b
    <3>1. a \in Smooth /\ saved[a] # Nil /\ ~Cur(f)
      BY <1>2, <1>5, <2>2
    <3>2. ~Catalogued(a, saved[a])
      <4>1. SUFFICES ASSUME NEW d \in SameName(a) PROVE FALSE
        BY DEF Catalogued
      <4>2. d \in SmoothDocs /\ doc[d].name = a
        BY <3>1 DEF SameName, SmoothDocs
      <4> QED  BY <1>0, <1>1, <3>1, <4>2 DEF ShownOnce
    <3>3. Staged(a, saved[a]) /\ (Queued(f) \/ Going(f))
      BY <1>0, <1>1, <3>1, <3>2 DEF SavedInv
    <3>4. (Staged(m, saved[m]))'
      <4>1. (IsPending(m))'
        BY <1>1, <1>2, <2>2, <3>3 DEF Staged, IsPending
      <4>2. (Inode(pending[m]))' = (Inode(f))'
        BY <1>2, <2>2 DEF Inode
      <4> QED  BY <1>1, <1>2, <1>6, <2>2, <3>3, <4>1, <4>2 DEF Staged
    <3>5. (Queued(pending[m]))' \/ (Going(pending[m]))'
      BY <1>2, <2>2, <3>3 DEF Queued, Going, In, FileItem
    <3> QED  BY <3>4, <3>5
  <2>3. CASE m # b
    <3>2. m \in Smooth /\ m \in Name /\ saved'[m] = saved[m] /\ saved[m] # Nil
      BY <1>2, <1>9, <2>1, <2>3
    <3>3. \A d \in SameName(m) : d \in (SameName(m))' /\ stored'[d] = stored[d]
      BY <1>2, <1>8, <3>2 DEF SameName, SmoothDocs
    <3>4. IsPending(m) =>
             /\ pending'[m] = pending[m] /\ file'[pending[m]].temp = file[pending[m]].temp
             /\ (Inode(pending[m]))' = Inode(pending[m])
      BY <1>9, <2>1, <2>3 DEF IsPending
    <3>5. Queued(pending[m]) \/ Going(pending[m]) =>
             In(queue', FileItem(pending[m])) \/ In(round', FileItem(pending[m]))
      BY <1>2 DEF Queued, Going
    <3>6. data' = data
      BY <1>2
    <3> QED  BY <1>0, <3>2, <3>3, <3>4, <3>5, <3>6, SavedKeeps
  <2> QED  BY <2>2, <2>3
<1> QED  BY <1>11, <1>12, <1>13, <1>14, <1>15, <1>16, <1>17, <1>18, <1>19, <1>20, <1>21, <1>22
         DEF SmoothInv, FileInv, SyncInv, NameInv, OpenInv, TextInv

\* Rename of a document: its smooth name has nothing in staging, and its new one was free.
LEMMA RenameDocKeeps ==
    ASSUME IInv, TypeInv', NEW a \in Name, NEW b \in Name, RenameDoc(a, b),
           NEW e \in Doc, RenamesDoc(a, b, e)
    PROVE  SmoothInv'
<1>0. /\ TypeInv /\ MovedInv /\ OnePath /\ PathInv /\ NamesInv /\ TokenInv /\ HeldInv
      /\ WorkInv /\ DoneInv /\ OneLive /\ ShownOnce /\ StagingInv
      /\ HandleOfFile /\ InodeOfHandle /\ HandleOfDoc /\ IndexInv /\ SavedInv /\ LiveDocHasFile
  BY Parts
<1>1. /\ pending[a] = Nil /\ doc[e].state = "live" /\ doc[e].name = a
      /\ \A d \in Doc : d # e => doc'[d] = doc[d]
      /\ doc'[e].state = "live" /\ doc'[e].name = b /\ doc'[e].indexed = doc[e].indexed
  BY DEF RenamesDoc
<1>2. /\ UNCHANGED <<file, pending, staging, stored, data, handle, queue, round, step>>
      /\ Renames(a, b) /\ a # b
      /\ saved'[a] = Nil /\ saved'[b] = saved[a]
      /\ \A m \in Name : m # a /\ m # b => saved'[m] = saved[m]
      /\ rough \subseteq rough'
  <2>1. a # b /\ Renames(a, b) /\ rough \subseteq rough'
    BY <1>0, RenameDocIs DEF Renames
  <2> QED  BY <1>0, <2>1, RenameDocIs DEF TypeInv, SavedType
<1>3. /\ \/ a \notin Smooth' /\ b \notin Smooth'
         \/ rough' = rough /\ a \in Smooth /\ ~Shown(b)
      /\ Smooth' \subseteq Smooth
  BY <1>0, <1>2, RenameSmooth
<1>4. /\ \A g : (Queued(g))' <=> Queued(g)
      /\ \A g : (Going(g))' <=> Going(g)
      /\ \A g : (Cur(g))' <=> Cur(g)
      /\ \A g, k : (Held(k, g))' <=> Held(k, g)
      /\ \A g : (Token(g))' <=> Token(g)
      /\ \A g : (Once(queue, FileItem(g)))' <=> Once(queue, FileItem(g))
      /\ \A g : (Once(round, FileItem(g)))' <=> Once(round, FileItem(g))
  BY <1>2, SameTokens
\* The document was smooth if it is, and the new name was free then.
<1>5. b \in Smooth' => /\ a \in Smooth /\ b \in Smooth /\ pending[b] = Nil
                       /\ \A d \in SmoothDocs : doc[d].name # b
  BY <1>0, <1>3, SmoothIs
<1>6. /\ SmoothFiles' \subseteq SmoothFiles /\ SmoothDocs' \subseteq SmoothDocs
      /\ \A d \in SmoothDocs' : d \in Doc /\ doc'[d].indexed = doc[d].indexed /\ doc'[d].name \in Smooth'
      /\ e \in SmoothDocs' => b \in Smooth'
  <2>1. \A d \in SmoothDocs' : d \in Doc /\ doc'[d].state = "live" /\ doc'[d].name \in Smooth'
    BY DEF SmoothDocs
  <2>2. SmoothFiles' \subseteq SmoothFiles
    BY <1>2, <1>3 DEF SmoothFiles
  <2>3. \A d \in SmoothDocs' : doc'[d].indexed = doc[d].indexed /\ d \in SmoothDocs
    BY <1>1, <1>3, <1>5, <2>1 DEF SmoothDocs
  <2> QED  BY <1>1, <2>1, <2>2, <2>3
\* No file of a smooth name is its, unless it is through.
<1>7. ASSUME NEW g \in SmoothFiles', Cur(g), step \in {"insert", "forget"}
      PROVE  file[g].moved \in Doc /\ file[g].moved # e /\ g \in SmoothFiles
  <2>1. g \in SmoothFiles /\ g \in File /\ g \in Born /\ g # Nil
    BY <1>0, <1>6, SmoothFilesIs DEF File
  <2>2. file[g].moved \in Doc
    BY <1>0, <1>7, <2>1, InodeIs DEF WorkInv
  <2>3. Token(g) /\ ~file[g].deleted
    BY <1>0, <1>7, <2>1, TokenIs DEF Token, HeldInv
  <2>4. pending[file[g].name] = g
    BY <1>0, <2>1, <2>3 DEF HeldInv
  <2>5. file[g].moved # e
    BY <1>0, <1>1, <1>7, <2>1, <2>4 DEF WorkInv
  <2> QED  BY <2>1, <2>2, <2>5
\* The parts
<1>11. PathInv'
  <2>1. \A f \in File : file[f].moved # Nil => doc'[file[f].moved].state # "none"
    <3> SUFFICES ASSUME NEW f \in File, file[f].moved # Nil PROVE doc'[file[f].moved].state # "none"
      OBVIOUS
    <3>1. file[f].moved \in Doc
      BY <1>0 DEF TypeInv, FileType, FileRecord
    <3> QED  BY <1>0, <1>1, <3>1 DEF MovedInv
  <2> QED  BY <1>0, <1>2, <2>1 DEF PathInv, MovedInv, OnePath
<1>12. NamesInv'
  <2>1. b \in Temp => b \in rough'
    <3>1. b \in Temp => rough' = rough \cup {a, b}
      BY <1>2 DEF Renames
    <3> QED  BY <3>1
  <2>2. \A d \in Doc : doc'[d].state = "live" /\ doc'[d].name \in Temp => doc'[d].name \in rough'
    BY <1>0, <1>1, <1>2, <2>1 DEF NamesInv
  <2> QED  BY <1>0, <1>2, <2>2 DEF NamesInv, Born
<1>13. TokenInv'
  BY <1>0, <1>4, <1>6 DEF TokenInv
<1>14. HeldInv'
  BY <1>0, <1>2, <1>4, <1>6 DEF HeldInv
<1>15. WorkInv'
  <2>1. ASSUME NEW m \in Smooth', pending[m] # Nil, file[pending[m]].moved # Nil
        PROVE  Cur(pending[m]) /\ step \in {"insert", "forget"}
    BY <1>0, <1>3, <2>1 DEF WorkInv
  <2>2. WorkInv
    BY <1>0
  <2> QED  BY <1>1, <1>2, <1>4, <1>7, <2>1, <2>2 DEF WorkInv, Cur
<1>16. DoneInv'
  <2> SUFFICES ASSUME NEW g \in File, file[g].moved \in SmoothDocs'
               PROVE  \/ Cur(g) /\ step = "forget" /\ file[g].name = doc'[file[g].moved].name
                      \/ ~Token(g) /\ \A m \in Name : pending[m] # g
    BY <1>2, <1>4 DEF DoneInv
  <2>1. CASE file[g].moved # e
    BY <1>0, <1>1, <1>6, <2>1 DEF DoneInv
  <2>2. CASE file[g].moved = e
    <3>1. e \in SmoothDocs /\ b \in Smooth'
      BY <1>6, <2>2
    <3>2. ~(Cur(g) /\ step = "forget" /\ file[g].name = a)
      <4> SUFFICES ASSUME Cur(g), step = "forget", file[g].name = a PROVE FALSE
        OBVIOUS
      <4>1. g \in SmoothFiles
        BY <1>5, <3>1 DEF SmoothFiles
      <4>2. Token(g) /\ ~file[g].deleted
        BY <1>0, <4>1, TokenIs DEF Token, HeldInv
      <4>3. pending[a] = g
        BY <1>0, <4>1, <4>2 DEF HeldInv
      <4> QED  BY <1>1, <4>3 DEF File
    <3> QED  BY <1>0, <1>1, <2>2, <3>1, <3>2 DEF DoneInv
  <2> QED  BY <2>1, <2>2
<1>17. OneLive'
  <2> SUFFICES ASSUME NEW c \in SmoothDocs', NEW d \in SmoothDocs', doc'[c].name = doc'[d].name, c # d
               PROVE  FALSE
    BY DEF OneLive
  <2>1. c \in SmoothDocs /\ d \in SmoothDocs /\ c \in Doc /\ d \in Doc
    BY <1>6
  <2>2. CASE c = e
    BY <1>1, <1>5, <1>6, <2>1, <2>2
  <2>3. CASE d = e
    BY <1>1, <1>5, <1>6, <2>1, <2>3
  <2>4. CASE c # e /\ d # e
    BY <1>0, <1>1, <2>1, <2>4 DEF OneLive
  <2> QED  BY <2>2, <2>3, <2>4
<1>18. LiveDocHasFile' /\ HandleOfDoc'
  BY <1>0, <1>2, <1>6 DEF LiveDocHasFile, HandleOfDoc, SmoothDocs
<1>19. IndexInv'
  <2> SUFFICES ASSUME NEW d \in SmoothDocs'
               PROVE  \/ doc[d].indexed = data[stored[d]]
                      \/ \E k \in Handle : handle[k].kind = "db" /\ handle[k].of = d /\ handle[k].dirty
                      \/ In(queue, DocItem(d)) \/ In(round, DocItem(d))
    BY <1>2, <1>6 DEF IndexInv, In, DocItem
  <2> QED  BY <1>0, <1>6 DEF IndexInv
<1>20. ShownOnce'
  <2> SUFFICES ASSUME NEW d \in SmoothDocs', pending[doc'[d].name] # Nil
               PROVE  Cur(pending[doc'[d].name]) /\ step = "forget" /\ file[pending[doc'[d].name]].moved = d
    BY <1>2 DEF ShownOnce, Cur
  <2>1. d # e
    BY <1>1, <1>5, <1>6
  <2> QED  BY <1>0, <1>1, <1>6, <2>1 DEF ShownOnce
<1>21. StagingInv'
  BY <1>0, <1>2, <1>3 DEF StagingInv
<1>22. HandleOfFile' /\ InodeOfHandle'
  BY <1>0, <1>2, <1>3, <1>6 DEF HandleOfFile, InodeOfHandle, Held, Inode
<1>23. SavedInv'
  <2> SUFFICES ASSUME NEW m \in Smooth', saved'[m] # Nil
               PROVE  \/ (Catalogued(m, saved[m]))'
                      \/ (Staged(m, saved[m]))' /\ ((Queued(pending[m]))' \/ (Going(pending[m]))')
    BY DEF SavedInv
  <2>1. m # a
    BY <1>2
  <2>2. CASE m = b
    <3>1. a \in Smooth /\ saved[a] # Nil
      BY <1>2, <1>5, <2>2
    <3>2. Catalogued(a, saved[a])
      BY <1>0, <1>1, <3>1 DEF SavedInv, Staged, IsPending
    <3>3. PICK d \in SameName(a) : stored[d] # Nil /\ data[stored[d]] >= saved[a]
      BY <3>2 DEF Catalogued
    <3>4. d = e
      BY <1>0, <1>1, <3>1 DEF OneLive, SameName, SmoothDocs
    <3>5. e \in (SameName(m))'
      BY <1>1, <2>2 DEF SameName
    <3> QED  BY <1>2, <2>2, <3>3, <3>4, <3>5 DEF Catalogued
  <2>3. CASE m # b
    <3>1. m \in Smooth /\ m \in Name /\ saved'[m] = saved[m] /\ saved[m] # Nil
      BY <1>2, <1>3, <2>1, <2>3 DEF Smooth
    <3>2. \A d \in SameName(m) : d \in (SameName(m))'
      BY <1>1, <2>1 DEF SameName
    <3>3. (Inode(pending[m]))' = Inode(pending[m])
      BY <1>2 DEF Inode
    <3>4. Queued(pending[m]) \/ Going(pending[m]) =>
             In(queue', FileItem(pending[m])) \/ In(round', FileItem(pending[m]))
      BY <1>2 DEF Queued, Going
    <3> QED  BY <1>0, <1>2, <3>1, <3>2, <3>3, <3>4, SavedKeeps
  <2> QED  BY <2>2, <2>3
<1> QED  BY <1>11, <1>12, <1>13, <1>14, <1>15, <1>16, <1>17, <1>18, <1>19, <1>20, <1>21, <1>22, <1>23
         DEF SmoothInv, FileInv, SyncInv, NameInv, OpenInv, TextInv

\* When the current item is done its token is gone, the other ones stay.
LEMMA TailTokens ==
    ASSUME TypeInv, round # <<>>, UNCHANGED <<handle, queue>>, round' = Tail(round)
    PROVE  /\ \A g : (Queued(g))' <=> Queued(g)
           /\ \A g : (Going(g))' => Going(g)
           /\ \A g : Going(g) => Cur(g) \/ (Going(g))'
           /\ \A g, k : (Held(k, g))' <=> Held(k, g)
           /\ \A g : (Token(g))' => Token(g)
           /\ \A g : (Once(queue, FileItem(g)))' <=> Once(queue, FileItem(g))
           /\ \A g : Once(round, FileItem(g)) =>
                 (Once(round, FileItem(g)))' /\ (Cur(g) => ~(Going(g))')
           /\ \A x : In(round, x) => x = Head(round) \/ In(round', x)
<1>1. round \in Seq(Work)
  BY DEF TypeInv, SyncType
<1>2. \A x : In(round, x) <=> x = Head(round) \/ In(round', x)
  BY <1>1, InTail
<1>3. \A x : Once(round, x) => Once(round', x) /\ (x = Head(round) => ~In(round', x))
  BY <1>1, InTail
<1>4. /\ \A g : (Going(g))' <=> In(round', FileItem(g))
      /\ \A g : (Once(round, FileItem(g)))' <=> Once(round', FileItem(g))
  BY DEF Going, In, Once, FileItem
<1>5. /\ \A g : (Queued(g))' <=> Queued(g)
      /\ \A g, k : (Held(k, g))' <=> Held(k, g)
      /\ \A g : (Once(queue, FileItem(g)))' <=> Once(queue, FileItem(g))
  BY DEF Queued, In, Held, Once
<1>6. /\ \A g : (Going(g))' => Going(g)
      /\ \A g : Going(g) => Cur(g) \/ (Going(g))'
  BY <1>2, <1>4 DEF Going, Cur
<1>7. \A g : (Token(g))' => Token(g)
  BY <1>5, <1>6 DEF Token
<1>8. \A g : Once(round, FileItem(g)) => (Once(round, FileItem(g)))' /\ (Cur(g) => ~(Going(g))')
  BY <1>3, <1>4 DEF Cur
<1> QED  BY <1>2, <1>5, <1>6, <1>7, <1>8

\* A step of the sync that leaves the disk and the names alone, before the move.
LEMMA QuietKeeps ==
    ASSUME IInv, TypeInv', UNCHANGED <<file, pending, staging, stored, data, handle, saved, rough>>,
           step \in {"look", "move"}, step' \in {"look", "move"},
           \A d \in Doc : doc'[d].state = doc[d].state /\ doc'[d].name = doc[d].name,
           IndexInv',
           \A g \in File : (Queued(g))' => Queued(g) \/ Going(g),
           \A g \in File : (Going(g))' => Queued(g) \/ Going(g),
           \A g \in SmoothFiles : /\ (Going(g))' => ~file[g].deleted
                                  /\ ~((Queued(g))' /\ (Going(g))')
                                  /\ (Once(queue, FileItem(g)))' /\ (Once(round, FileItem(g)))',
           \A m \in Smooth : Staged(m, saved[m]) /\ (Queued(pending[m]) \/ Going(pending[m])) =>
                                  In(queue', FileItem(pending[m])) \/ In(round', FileItem(pending[m]))
    PROVE  SmoothInv'
<1>0. /\ TypeInv /\ MovedInv /\ OnePath /\ PathInv /\ NamesInv /\ TokenInv /\ HeldInv
      /\ WorkInv /\ DoneInv /\ OneLive /\ ShownOnce /\ StagingInv
      /\ HandleOfFile /\ InodeOfHandle /\ HandleOfDoc /\ IndexInv /\ SavedInv /\ LiveDocHasFile
  BY Parts
<1>1. /\ Smooth' = Smooth /\ SmoothFiles' = SmoothFiles /\ SmoothDocs' = SmoothDocs
      /\ \A g \in SmoothFiles : g \in File
      /\ \A d \in SmoothDocs : d \in Doc /\ doc[d].name \in Smooth
      /\ \A n \in Smooth : n \in Name
  BY DEF Smooth, SmoothFiles, SmoothDocs
<1>2. /\ \A g : (Inode(g))' = Inode(g)
      /\ \A g, k : (Held(k, g))' <=> Held(k, g)
      /\ \A g \in File : (Token(g))' => Token(g)
  BY DEF Inode, Held, Token
<1>11. PathInv' /\ NamesInv'
  <2>1. \A f \in File : file[f].moved # Nil => file[f].moved \in Doc
    BY <1>0 DEF TypeInv, FileType, FileRecord
  <2>2. Born' = Born /\ Born \subseteq File
    BY DEF Born
  <2>3. PathInv'
    BY <1>0, <2>1 DEF PathInv, MovedInv, OnePath
  <2> QED  BY <1>0, <2>2, <2>3 DEF NamesInv
<1>12. TokenInv' /\ HeldInv'
  BY <1>0, <1>1, <1>2 DEF TokenInv, HeldInv, Token
<1>13. WorkInv'
  BY <1>0, <1>1 DEF WorkInv
<1>14. DoneInv'
  BY <1>0, <1>1, <1>2 DEF DoneInv
<1>15. OneLive' /\ ShownOnce' /\ StagingInv'
  <2>1. OneLive'
    BY <1>0, <1>1 DEF OneLive
  <2>2. ShownOnce'
    BY <1>0, <1>1 DEF ShownOnce
  <2> QED  BY <1>0, <1>1, <2>1, <2>2 DEF StagingInv
<1>16. HandleOfFile' /\ InodeOfHandle' /\ HandleOfDoc'
  <2>1. HandleOfFile'
    BY <1>0, <1>1 DEF HandleOfFile, Inode, Held
  <2>2. InodeOfHandle'
    BY <1>0, <1>1, <1>2 DEF InodeOfHandle
  <2> QED  BY <1>0, <1>1, <2>1, <2>2 DEF HandleOfDoc
<1>17. SavedInv' /\ LiveDocHasFile'
  <2>1. LiveDocHasFile'
    BY <1>0, <1>1 DEF LiveDocHasFile
  <2>2. ASSUME NEW m \in Smooth, saved[m] # Nil
        PROVE  \/ (Catalogued(m, saved[m]))'
               \/ (Staged(m, saved[m]))' /\ ((Queued(pending[m]))' \/ (Going(pending[m]))')
    <3>1. Catalogued(m, saved[m]) => (Catalogued(m, saved[m]))'
      BY DEF Catalogued, SameName
    <3>2. Staged(m, saved[m]) => (Staged(m, saved[m]))'
      BY DEF Staged, IsPending, Inode
    <3>3. /\ (Queued(pending[m]))' <=> In(queue', FileItem(pending[m]))
          /\ (Going(pending[m]))' <=> In(round', FileItem(pending[m]))
      BY DEF Queued, Going, In, FileItem
    <3> QED  BY <1>0, <2>2, <3>1, <3>2, <3>3 DEF SavedInv
  <2> QED  BY <1>1, <2>1, <2>2 DEF SavedInv
<1> QED  BY <1>11, <1>12, <1>13, <1>14, <1>15, <1>16, <1>17
         DEF SmoothInv, FileInv, SyncInv, NameInv, OpenInv, TextInv

\* StartRound: the ready items go from the queue to the round; none of them was deleted.
LEMMA StartRoundKeeps ==
    ASSUME IInv, TypeInv', StartRound
    PROVE  SmoothInv'
<1>0. TypeInv /\ StepInv /\ TokenInv /\ IndexInv
  BY Parts
<1>1. /\ round = <<>> /\ step = "look" /\ queue \in Seq(Work)
      /\ UNCHANGED <<file, pending, staging, stored, data, handle, saved, rough, step, doc>>
  BY <1>0 DEF StartRound, StepInv, TypeInv, SyncType
<1>2. /\ \A x : In(queue, x) => x \in Range(queue)
      /\ \A x : In(queue', x) <=> In(queue, x) /\ x \in Range(queue) \ ReadyItems
      /\ \A x : In(round', x) <=> In(queue, x) /\ x \in ReadyItems
      /\ \A x : Once(queue, x) => Once(queue', x) /\ Once(round', x)
      /\ \A x : ~In(round, x)
  <2>1. \A x : In(queue, x) => x \in Range(queue)
    BY <1>1 DEF In, Range
  <2>2. \A x : ~In(round, x)
    BY <1>1 DEF In
  <2>3. round' = Picked(queue, ReadyItems) /\ queue' = Picked(queue, Range(queue) \ ReadyItems)
    BY DEF StartRound
  <2> QED  BY <1>1, <2>1, <2>2, <2>3, PickedIs
<1>3. \A x : In(queue', x) \/ In(round', x) <=> In(queue, x)
  BY <1>2
<1>4. \A g : FileItem(g) \in ReadyItems => ~file[g].deleted
  BY DEF ReadyItems, Ready, FileItem
<1>5. /\ \A g : (Queued(g))' <=> In(queue', FileItem(g))
      /\ \A g : (Going(g))' <=> In(round', FileItem(g))
      /\ \A g : (Once(queue, FileItem(g)))' <=> Once(queue', FileItem(g))
      /\ \A g : (Once(round, FileItem(g)))' <=> Once(round', FileItem(g))
  BY DEF Queued, Going, In, Once, FileItem
<1>6. IndexInv'
  <2> SUFFICES ASSUME NEW d \in SmoothDocs
               PROVE  \/ doc[d].indexed = data[stored[d]]
                      \/ \E k \in Handle : handle[k].kind = "db" /\ handle[k].of = d /\ handle[k].dirty
                      \/ In(queue', DocItem(d)) \/ In(round', DocItem(d))
    BY <1>1 DEF IndexInv, In, DocItem, SmoothDocs, Smooth
  <2> QED  BY <1>0, <1>2, <1>3 DEF IndexInv
<1>7. \A g \in SmoothFiles : /\ (Going(g))' => ~file[g].deleted
                             /\ ~((Queued(g))' /\ (Going(g))')
                             /\ (Once(queue, FileItem(g)))' /\ (Once(round, FileItem(g)))'
  BY <1>0, <1>2, <1>4, <1>5 DEF TokenInv
<1> QED  BY <1>1, <1>2, <1>3, <1>5, <1>6, <1>7, QuietKeeps DEF Queued, Going

\* Reindex: the index has the text that the document has now, and its item is done.
LEMMA ReindexKeeps ==
    ASSUME IInv, TypeInv', Reindex
    PROVE  SmoothInv'
<1>0. TypeInv /\ StepInv /\ TokenInv /\ HeldInv /\ IndexInv /\ LiveDocHasFile
  BY Parts
<1>1. /\ round # <<>> /\ Item \in Known /\ Head(round) = DocItem(Item) /\ Head(round)[1] # "file"
      /\ \A d \in Doc : doc'[d].state = doc[d].state /\ doc'[d].name = doc[d].name
      /\ \A d \in Doc : d # Item => doc'[d] = doc[d]
      /\ stored[Item] # Nil => doc'[Item].indexed = data[stored[Item]]
      /\ round' = Tail(round) /\ step' = "look"
      /\ UNCHANGED <<file, pending, staging, stored, data, handle, queue, saved, rough>>
  BY <1>0, ReindexIs
<1>2. step = "look"
  BY <1>0, <1>1 DEF StepInv
<1>3. \A g : ~Cur(g)
  BY <1>1 DEF Cur, FileItem
<1>4. /\ \A g : (Queued(g))' <=> Queued(g)
      /\ \A g : (Going(g))' <=> Going(g)
      /\ \A g : (Once(queue, FileItem(g)))' <=> Once(queue, FileItem(g))
      /\ \A g : Once(round, FileItem(g)) => (Once(round, FileItem(g)))'
      /\ \A x : In(round, x) => x = Head(round) \/ In(round', x)
  BY <1>0, <1>1, <1>3, TailTokens
<1>5. IndexInv'
  <2> SUFFICES ASSUME NEW d \in SmoothDocs
               PROVE  \/ doc'[d].indexed = data[stored[d]]
                      \/ \E k \in Handle : handle[k].kind = "db" /\ handle[k].of = d /\ handle[k].dirty
                      \/ In(queue, DocItem(d)) \/ In(round', DocItem(d))
    <3>1. SmoothDocs' = SmoothDocs
      BY <1>1 DEF SmoothDocs, Smooth
    <3> QED  BY <1>1, <3>1 DEF IndexInv, In, DocItem
  <2>1. d \in Doc /\ stored[d] # Nil
    BY <1>0 DEF LiveDocHasFile, SmoothDocs
  <2>2. CASE d = Item
    BY <1>1, <2>1, <2>2
  <2>3. CASE d # Item
    <3>1. DocItem(d) # Head(round)
      BY <1>1, <2>3 DEF DocItem
    <3> QED  BY <1>0, <1>1, <1>4, <2>1, <2>3, <3>1 DEF IndexInv
  <2> QED  BY <2>2, <2>3
<1>6. \A g \in SmoothFiles : /\ (Going(g))' => ~file[g].deleted
                             /\ ~((Queued(g))' /\ (Going(g))')
                             /\ (Once(queue, FileItem(g)))' /\ (Once(round, FileItem(g)))'
  BY <1>0, <1>4 DEF TokenInv, HeldInv
<1>7. \A g : /\ Queued(g) => In(queue', FileItem(g))
             /\ Going(g) => In(round', FileItem(g))
  BY <1>1, <1>4 DEF Queued, Going, In, FileItem
<1> QED  BY <1>1, <1>2, <1>4, <1>5, <1>6, <1>7, QuietKeeps

\* The file has gone: what was saved under its name, if that is smooth, is a document.
LEMMA SkipMissingKeeps ==
    ASSUME IInv, TypeInv', SkipMissing \/ MoveRaises
    PROVE  SmoothInv'
<1>0. TypeInv /\ StepInv /\ TokenInv /\ HeldInv /\ IndexInv
  BY Parts
<1>1. /\ round # <<>> /\ Head(round) = FileItem(Item) /\ Inode(Item) = Nil
      /\ round' = Tail(round) /\ step' = "look" /\ step \in {"look", "move"}
      /\ UNCHANGED <<file, pending, staging, stored, data, handle, queue, doc, saved, rough>>
  BY <1>0, ItemIs DEF SkipMissing, MoveRaises, Done
<1>2. \A g : Cur(g) => g = Item
  BY <1>1 DEF Cur, FileItem
<1>3. /\ \A g : (Queued(g))' <=> Queued(g)
      /\ \A g : (Going(g))' => Going(g)
      /\ \A g : (Once(queue, FileItem(g)))' <=> Once(queue, FileItem(g))
      /\ \A g : Once(round, FileItem(g)) => (Once(round, FileItem(g)))'
      /\ \A x : In(round, x) => x = Head(round) \/ In(round', x)
  BY <1>0, <1>1, TailTokens
<1>4. IndexInv'
  <2> SUFFICES ASSUME NEW d \in SmoothDocs
               PROVE  \/ doc[d].indexed = data[stored[d]]
                      \/ \E k \in Handle : handle[k].kind = "db" /\ handle[k].of = d /\ handle[k].dirty
                      \/ In(queue, DocItem(d)) \/ In(round', DocItem(d))
    BY <1>1 DEF IndexInv, In, DocItem, SmoothDocs, Smooth
  <2>1. DocItem(d) # Head(round)
    BY <1>1 DEF DocItem, FileItem
  <2> QED  BY <1>0, <1>3, <2>1 DEF IndexInv
<1>5. \A g \in SmoothFiles : /\ (Going(g))' => ~file[g].deleted
                             /\ ~((Queued(g))' /\ (Going(g))')
                             /\ (Once(queue, FileItem(g)))' /\ (Once(round, FileItem(g)))'
  BY <1>0, <1>3 DEF TokenInv, HeldInv
<1>6. ASSUME NEW m \in Smooth, Staged(m, saved[m]), Queued(pending[m]) \/ Going(pending[m])
      PROVE  In(queue', FileItem(pending[m])) \/ In(round', FileItem(pending[m]))
  <2>1. ~Cur(pending[m]) /\ FileItem(pending[m]) # Head(round)
    BY <1>1, <1>2, <1>6 DEF Staged, FileItem
  <2> QED  BY <1>1, <1>3, <1>6, <2>1 DEF Queued, Going
<1> QED  BY <1>1, <1>3, <1>4, <1>5, <1>6, QuietKeeps

\* Look: the file is there, and the sync goes on to move it.
LEMMA LookKeeps ==
    ASSUME IInv, TypeInv', Look
    PROVE  SmoothInv'
<1>0. TypeInv /\ TokenInv /\ HeldInv /\ IndexInv
  BY Parts
<1>1. /\ step' = "move" /\ step = "look"
      /\ UNCHANGED <<file, pending, staging, stored, data, handle, queue, round, doc, saved, rough>>
  BY <1>0, ItemIs DEF Look
<1>2. /\ \A g : (Queued(g))' <=> Queued(g)
      /\ \A g : (Going(g))' <=> Going(g)
      /\ \A g : (Once(queue, FileItem(g)))' <=> Once(queue, FileItem(g))
      /\ \A g : (Once(round, FileItem(g)))' <=> Once(round, FileItem(g))
  BY <1>1, SameTokens
<1>3. IndexInv'
  BY <1>0, <1>1 DEF IndexInv, In, DocItem, SmoothDocs, Smooth
<1>4. \A g \in SmoothFiles : /\ (Going(g))' => ~file[g].deleted
                             /\ ~((Queued(g))' /\ (Going(g))')
                             /\ (Once(queue, FileItem(g)))' /\ (Once(round, FileItem(g)))'
  BY <1>0, <1>2 DEF TokenInv, HeldInv
<1>5. \A g : Queued(g) \/ Going(g) => In(queue', FileItem(g)) \/ In(round', FileItem(g))
  BY <1>1 DEF Queued, Going
<1> QED  BY <1>1, <1>2, <1>3, <1>4, <1>5, QuietKeeps

\* SkipRemoved: a smooth file that is removed has nothing saved, as no document of its name is
\* there while it is pending; its inode was only its own.
LEMMA SkipRemovedKeeps ==
    ASSUME IInv, TypeInv', SkipRemoved
    PROVE  SmoothInv'
<1>0. /\ TypeInv /\ StepInv /\ MovedInv /\ OnePath /\ PathInv /\ NamesInv /\ TokenInv /\ HeldInv
      /\ WorkInv /\ DoneInv /\ OneLive /\ ShownOnce /\ StagingInv
      /\ HandleOfFile /\ InodeOfHandle /\ HandleOfDoc /\ IndexInv /\ SavedInv /\ LiveDocHasFile
  BY Parts
<1>a. PICK f \in File : f = Item
  BY <1>0, ItemIs DEF SkipRemoved
<1>1. /\ round # <<>> /\ f \in Born /\ f \in File /\ Head(round) = FileItem(f) /\ Cur(f)
      /\ step = "look" /\ Inode(f) # Nil /\ (data[Inode(f)] = Nil \/ Duplicate(f)) /\ f # Nil
  BY <1>0, <1>a, ItemIs DEF SkipRemoved, Cur, File
<1>2. /\ \/ /\ file[f].moved = Nil
            /\ staging' = [staging EXCEPT ![file[f].name] = Nil] /\ stored' = stored
         \/ /\ file[f].moved # Nil /\ staging' = staging
            /\ stored' = [stored EXCEPT ![file[f].moved] = Nil]
      /\ round' = Tail(round) /\ step' = "look"
      /\ UNCHANGED <<file, pending, data, handle, queue, doc, saved, rough>>
  BY <1>0, <1>a, SkipRemovedIs
<1>3. /\ Smooth' = Smooth /\ SmoothFiles' = SmoothFiles /\ SmoothDocs' = SmoothDocs
      /\ \A g \in SmoothFiles : g \in File /\ g \in Born /\ g # Nil
      /\ \A d \in SmoothDocs : d \in Doc /\ doc[d].name \in Smooth
      /\ \A n \in Smooth : n \in Name
  <2>1. Smooth' = Smooth /\ SmoothFiles' = SmoothFiles /\ SmoothDocs' = SmoothDocs
    BY <1>2 DEF Smooth, SmoothFiles, SmoothDocs
  <2>2. \A g \in SmoothFiles : g \in File /\ g \in Born /\ g # Nil
    BY <1>0, SmoothFilesIs DEF File
  <2> QED  BY <2>1, <2>2 DEF Smooth, SmoothDocs
<1>4. /\ \A g : (Queued(g))' <=> Queued(g)
      /\ \A g : (Going(g))' => Going(g)
      /\ \A g : Going(g) => Cur(g) \/ (Going(g))'
      /\ \A g, k : (Held(k, g))' <=> Held(k, g)
      /\ \A g : (Token(g))' => Token(g)
      /\ \A g : (Once(queue, FileItem(g)))' <=> Once(queue, FileItem(g))
      /\ \A g : Once(round, FileItem(g)) => (Once(round, FileItem(g)))'
      /\ \A x : In(round, x) => x = Head(round) \/ In(round', x)
  BY <1>0, <1>1, <1>2, TailTokens
<1>5. Going(f) /\ Token(f) /\ \A g : Cur(g) => g = f
  <2>1. Going(f)
    BY <1>0, <1>1, TokenIs
  <2> QED  BY <1>1, <2>1 DEF Token, Cur, FileItem
\* Smooth documents keep their file.
<1>6. \A d \in SmoothDocs : d # file[f].moved /\ stored'[d] = stored[d]
  <2>1. \A d \in SmoothDocs : d # file[f].moved
    BY <1>0, <1>1, <1>5 DEF DoneInv
  <2> QED  BY <1>0, <1>2, <1>3, <2>1 DEF TypeInv, DiskType
\* A smooth file in staging is that one, and its name is free now, or it stays where it is.
<1>7. ASSUME NEW m \in Smooth, pending[m] # Nil
      PROVE  /\ pending[m] \in SmoothFiles /\ file[pending[m]].name = m
             /\ pending[m] = f => (Inode(pending[m]))' = Nil
             /\ pending[m] # f => (Inode(pending[m]))' = Inode(pending[m])
  <2>1. /\ pending[m] \in SmoothFiles /\ pending[m] \in File /\ file[pending[m]].name = m /\ m \in Name
        /\ file[pending[m]].moved = Nil
    BY <1>0, <1>1, <1>3, <1>7, SmoothIs DEF WorkInv
  <2>2. (Inode(pending[m]))' = staging'[m] /\ Inode(pending[m]) = staging[m]
    BY <1>2, <2>1 DEF Inode
  <2>3. CASE pending[m] = f
    BY <1>0, <1>2, <2>1, <2>2, <2>3 DEF TypeInv, DiskType
  <2>4. CASE pending[m] # f
    <3>1. file[f].name # m
      BY <1>0, <1>1, <1>5, <1>7, <2>4 DEF HeldInv, SmoothFiles
    <3> QED  BY <1>0, <1>2, <2>1, <2>2, <2>4, <3>1 DEF TypeInv, DiskType
  <2> QED  BY <2>1, <2>3, <2>4
\* The parts
<1>11. PathInv' /\ NamesInv'
  <2>1. MovedInv'
    BY <1>0, <1>2 DEF MovedInv
  <2>2. OnePath'
    BY <1>0, <1>2 DEF OnePath, TypeInv, DiskType
  <2>3. Born' = Born
    BY <1>2 DEF Born
  <2> QED  BY <1>0, <1>2, <2>1, <2>2, <2>3 DEF PathInv, NamesInv
<1>12. TokenInv' /\ HeldInv'
  BY <1>0, <1>2, <1>3, <1>4 DEF TokenInv, HeldInv
<1>13. WorkInv' /\ DoneInv'
  <2>1. WorkInv'
    BY <1>0, <1>1, <1>2, <1>3 DEF WorkInv
  <2>2. DoneInv'
    BY <1>0, <1>1, <1>2, <1>3, <1>4 DEF DoneInv
  <2> QED  BY <2>1, <2>2
<1>14. ShownOnce' /\ StagingInv'
  <2>1. ShownOnce'
    BY <1>0, <1>1, <1>2, <1>3 DEF ShownOnce
  <2>2. \A m \in Smooth : staging'[m] # Nil => staging[m] # Nil
    BY <1>0, <1>2, <1>3 DEF TypeInv, DiskType
  <2> QED  BY <1>0, <1>2, <1>3, <2>1, <2>2 DEF StagingInv
<1>15. OneLive' /\ LiveDocHasFile' /\ HandleOfDoc' /\ IndexInv'
  <2>1. \A d : DocItem(d) # Head(round)
    BY <1>1 DEF DocItem, FileItem
  <2> QED  BY <1>0, <1>2, <1>3, <1>4, <1>6, <2>1, DocsKeep
<1>16. HandleOfFile'
  <2> SUFFICES ASSUME NEW m \in Smooth, NEW k \in Handle, pending[m] # Nil,
                      (Inode(pending[m]))' # Nil, handle[k].inode = (Inode(pending[m]))'
               PROVE  (Held(k, pending[m]))'
    BY <1>2, <1>3 DEF HandleOfFile
  <2>1. (Inode(pending[m]))' = Inode(pending[m])
    BY <1>7
  <2>2. Held(k, pending[m])
    BY <1>0, <2>1 DEF HandleOfFile
  <2> QED  BY <1>2, <2>2 DEF Held
<1>17. InodeOfHandle'
  <2> SUFFICES ASSUME NEW g \in SmoothFiles, NEW k \in Handle, Held(k, g), ~file[g].deleted
               PROVE  handle[k].inode = (Inode(g))'
    BY <1>2, <1>3, <1>4 DEF InodeOfHandle
  <2>1. g # f
    BY <1>0, <1>5 DEF TokenInv
  <2>2. file[g].name \in Smooth /\ pending[file[g].name] = g /\ g # Nil
    BY <1>0, <1>3, SmoothFilesIs DEF HeldInv, Token
  <2>3. (Inode(g))' = Inode(g)
    <3>1. PICK m \in Smooth : m = file[g].name
      BY <2>2
    <3>2. (Inode(pending[m]))' = Inode(pending[m])
      BY <1>7, <2>1, <2>2, <3>1
    <3> QED  BY <1>2, <2>2, <3>1, <3>2 DEF Inode
  <2> QED  BY <1>0, <2>3 DEF InodeOfHandle
<1>18. SavedInv'
  <2> SUFFICES ASSUME NEW m \in Smooth, saved[m] # Nil
               PROVE  \/ (Catalogued(m, saved[m]))'
                      \/ (Staged(m, saved[m]))' /\ ((Queued(pending[m]))' \/ (Going(pending[m]))')
    BY <1>2, <1>3 DEF SavedInv
  <2>1. \A d \in SameName(m) : d \in (SameName(m))' /\ stored'[d] = stored[d]
    BY <1>2, <1>6 DEF SameName, SmoothDocs
  <2>2. CASE pending[m] # Nil /\ pending[m] = f
    <3>1. SameName(m) = {}
      BY <1>0, <1>1, <2>2 DEF SameName, SmoothDocs, ShownOnce
    <3>2. ~Catalogued(m, saved[m])
      BY <3>1 DEF Catalogued
    <3>3. Inode(f) # Nil /\ data[Inode(f)] >= saved[m]
      BY <1>0, <2>2, <3>2 DEF SavedInv, Staged
    <3>4. file[f].name = m
      BY <1>7, <2>2
    <3>5. ~Duplicate(f)
      BY <3>1, <3>4 DEF Duplicate, SameName
    <3>6. data[Inode(f)] = 0
      BY <1>1, <3>5
    <3>7. saved[m] \in Nat
      BY <1>0, <1>3 DEF TypeInv, SavedType, Text
    <3> QED  BY <3>3, <3>6, <3>7
  <2>3. CASE ~(pending[m] # Nil /\ pending[m] = f)
    <3>1. IsPending(m) =>
             /\ pending'[m] = pending[m] /\ file'[pending[m]].temp = file[pending[m]].temp
             /\ (Inode(pending[m]))' = Inode(pending[m])
      BY <1>2, <1>7, <2>3 DEF IsPending
    <3>2. IsPending(m) /\ (Queued(pending[m]) \/ Going(pending[m])) =>
             In(queue', FileItem(pending[m])) \/ In(round', FileItem(pending[m]))
      <4>1. IsPending(m) => FileItem(pending[m]) # Head(round)
        BY <1>1, <2>3 DEF IsPending, FileItem
      <4> QED  BY <1>2, <1>4, <4>1 DEF Queued, Going
    <3>3. data' = data /\ saved' = saved
      BY <1>2
    <3> QED  BY <1>0, <2>1, <3>1, <3>2, <3>3, SavedKeeps
  <2> QED  BY <2>2, <2>3
<1> QED  BY <1>11, <1>12, <1>13, <1>14, <1>15, <1>16, <1>17, <1>18
         DEF SmoothInv, FileInv, SyncInv, NameInv, OpenInv, TextInv

\* Move: the file keeps its inode, at a path that was nobody's.
LEMMA MoveKeeps ==
    ASSUME IInv, TypeInv', Move
    PROVE  SmoothInv'
<1>0. /\ TypeInv /\ StepInv /\ RoomInv /\ MovedInv /\ OnePath /\ PathInv /\ NamesInv /\ TokenInv /\ HeldInv
      /\ WorkInv /\ DoneInv /\ OneLive /\ ShownOnce /\ StagingInv
      /\ HandleOfFile /\ InodeOfHandle /\ HandleOfDoc /\ IndexInv /\ SavedInv /\ LiveDocHasFile
  BY Parts DEF IInv, BaseInv
<1>a. PICK f \in File, e \in Doc : f = Item /\ e = NextDoc
  BY <1>0, ItemIs, MoveIs DEF Move
<1>1. /\ f \in Born /\ f \in File /\ Cur(f) /\ step = "move" /\ Inode(f) # Nil /\ f # Nil /\ ~file[f].temp
  BY <1>0, <1>a, ItemIs DEF Move, Cur, File
<1>2. /\ e \in Doc /\ doc[e].state = "none" /\ e # Nil
      /\ \A g \in File : g # f => file'[g] = file[g]
      /\ file'[f].name = file[f].name /\ file'[f].moved = e
      /\ file'[f].temp = file[f].temp /\ file'[f].deleted = file[f].deleted
      /\ \A d \in Doc : d # e => doc'[d] = doc[d]
      /\ doc'[e].state = "path"
      /\ \/ /\ file[f].moved = Nil
            /\ staging' = [staging EXCEPT ![file[f].name] = Nil]
            /\ stored' = [stored EXCEPT ![e] = Inode(f)]
         \/ /\ file[f].moved # Nil /\ staging' = staging
            /\ stored' = [stored EXCEPT ![file[f].moved] = Nil, ![e] = Inode(f)]
      /\ step' = "insert"
      /\ UNCHANGED <<pending, data, handle, queue, round, saved, rough>>
  BY <1>0, <1>a, MoveIs DEF NoDoc, Doc
<1>3. /\ Smooth' = Smooth /\ SmoothFiles' = SmoothFiles /\ SmoothDocs' = SmoothDocs
      /\ \A g \in SmoothFiles : g \in File /\ g \in Born /\ g # Nil
      /\ \A d \in SmoothDocs : d \in Doc /\ doc[d].name \in Smooth /\ d # e /\ doc'[d] = doc[d]
      /\ \A n \in Smooth : n \in Name
  <2>1. Smooth' = Smooth /\ \A n \in Smooth : n \in Name
    BY <1>2 DEF Smooth
  <2>2. SmoothFiles' = SmoothFiles
    BY <1>2, <2>1 DEF SmoothFiles
  <2>3. SmoothDocs' = SmoothDocs
    BY <1>2, <2>1 DEF SmoothDocs
  <2>4. \A g \in SmoothFiles : g \in File /\ g \in Born /\ g # Nil
    BY <1>0, SmoothFilesIs DEF File
  <2> QED  BY <1>2, <2>1, <2>2, <2>3, <2>4 DEF SmoothDocs
<1>4. /\ \A g : (Queued(g))' <=> Queued(g)
      /\ \A g : (Going(g))' <=> Going(g)
      /\ \A g : (Cur(g))' <=> Cur(g)
      /\ \A g, k : (Held(k, g))' <=> Held(k, g)
      /\ \A g : (Token(g))' <=> Token(g)
      /\ \A g : (Once(queue, FileItem(g)))' <=> Once(queue, FileItem(g))
      /\ \A g : (Once(round, FileItem(g)))' <=> Once(round, FileItem(g))
  BY <1>2, SameTokens
<1>5. Going(f) /\ Token(f) /\ \A g : Cur(g) => g = f
  <2>1. Going(f)
    BY <1>0, <1>1, TokenIs
  <2> QED  BY <1>1, <2>1 DEF Token, Cur, FileItem
\* Nobody had that path, and smooth documents keep theirs.
<1>6. /\ \A g \in File : file[g].moved # e
      /\ \A d \in SmoothDocs : d # file[f].moved /\ stored'[d] = stored[d]
  <2>1. \A g \in File : file[g].moved # e
    BY <1>0, <1>2 DEF MovedInv
  <2>2. \A d \in SmoothDocs : d # file[f].moved
    BY <1>0, <1>1, <1>5 DEF DoneInv
  <2>3. file[f].moved # Nil => file[f].moved \in Doc
    BY <1>0, <1>1, InodeIs
  <2> QED  BY <1>0, <1>2, <1>3, <2>1, <2>2, <2>3 DEF TypeInv, DiskType
<1>7. /\ file[f].name \in Name /\ (file[f].moved # Nil => file[f].moved \in Doc)
      /\ (Inode(f))' = Inode(f) /\ stored'[e] = Inode(f)
  <2>1. file[f].name \in Name /\ (file[f].moved # Nil => file[f].moved \in Doc)
    BY <1>0, <1>1, InodeIs
  <2>2. stored'[e] = Inode(f)
    BY <1>0, <1>2, <1>6, <2>1 DEF TypeInv, DiskType
  <2>3. (Inode(f))' = stored'[e]
    BY <1>2 DEF Inode
  <2> QED  BY <2>1, <2>2, <2>3
\* A smooth file in staging keeps its inode; only the moved one has moved.
<1>8. ASSUME NEW m \in Smooth, pending[m] # Nil
      PROVE  /\ pending[m] \in SmoothFiles /\ pending[m] \in File /\ file[pending[m]].name = m
             /\ file[pending[m]].moved = Nil
             /\ (Inode(pending[m]))' = Inode(pending[m])
             /\ file'[pending[m]].temp = file[pending[m]].temp
  <2>1. /\ pending[m] \in SmoothFiles /\ pending[m] \in File /\ file[pending[m]].name = m /\ m \in Name
        /\ file[pending[m]].moved = Nil
    BY <1>0, <1>1, <1>3, <1>8, SmoothIs DEF WorkInv
  <2>2. CASE pending[m] = f
    <3>1. (Inode(pending[m]))' = (Inode(f))'
      BY <1>2, <2>2 DEF Inode
    <3> QED  BY <1>2, <1>7, <2>1, <2>2, <3>1
  <2>3. CASE pending[m] # f
    <3>1. file[f].name # m
      BY <1>0, <1>1, <1>5, <1>8, <2>3 DEF HeldInv, SmoothFiles
    <3>2. file'[pending[m]] = file[pending[m]] /\ staging'[m] = staging[m]
      BY <1>0, <1>2, <2>1, <2>3, <3>1 DEF TypeInv, DiskType
    <3>3. (Inode(pending[m]))' = Inode(pending[m])
      BY <1>2, <2>1, <3>2 DEF Inode
    <3> QED  BY <2>1, <3>2, <3>3
  <2> QED  BY <2>2, <2>3
\* The parts
<1>11. PathInv'
  <2>1. MovedInv'
    <3>1. \A g \in File : file'[g].moved # Nil => doc'[file'[g].moved].state # "none"
      <4>1. ASSUME NEW g \in File, g # f, file'[g].moved # Nil
            PROVE doc'[file'[g].moved].state # "none"
        <5>1. file'[g] = file[g] /\ file[g].moved \in Doc /\ file[g].moved # e
          BY <1>0, <1>2, <1>6, <4>1 DEF TypeInv, FileType, FileRecord
        <5> QED  BY <1>0, <1>2, <4>1, <5>1 DEF MovedInv
      <4> QED  BY <1>2, <4>1
    <3>2. \A g, k \in File : file'[g].moved # Nil /\ file'[g].moved = file'[k].moved => g = k
      BY <1>0, <1>2, <1>6 DEF MovedInv
    <3> QED  BY <3>1, <3>2 DEF MovedInv
  <2>2. CASE file[f].moved = Nil
    <3>1. Inode(f) = staging[file[f].name] /\ staging' = [staging EXCEPT ![file[f].name] = Nil]
          /\ stored' = [stored EXCEPT ![e] = Inode(f)]
      BY <1>2, <2>2 DEF Inode
    <3> QED  BY <1>0, <1>1, <1>2, <1>7, <2>1, <2>2, <3>1 DEF PathInv, OnePath, TypeInv, DiskType
  <2>3. CASE file[f].moved # Nil
    <3>1. Inode(f) = stored[file[f].moved] /\ staging' = staging
          /\ stored' = [stored EXCEPT ![file[f].moved] = Nil, ![e] = Inode(f)]
      BY <1>2, <2>3 DEF Inode
    <3> QED  BY <1>0, <1>1, <1>2, <1>7, <2>1, <2>3, <3>1 DEF PathInv, OnePath, TypeInv, DiskType
  <2> QED  BY <2>2, <2>3
<1>12. NamesInv'
  <2>1. Born' = Born /\ Born \subseteq File
    BY <1>2 DEF Born
  <2>2. \A g \in File : file'[g].temp = file[g].temp /\ file'[g].name = file[g].name
    BY <1>2
  <2>3. \A d \in Doc : doc'[d].state = "live" => doc'[d] = doc[d]
    BY <1>2
  <2> QED  BY <1>0, <1>2, <2>1, <2>2, <2>3 DEF NamesInv
<1>13. TokenInv' /\ HeldInv'
  <2>1. \A g \in File : file'[g].deleted = file[g].deleted /\ file'[g].name = file[g].name
    BY <1>2
  <2> QED  BY <1>0, <1>2, <1>3, <1>4, <2>1 DEF TokenInv, HeldInv
<1>14. WorkInv'
  <2>1. \A m \in Smooth : pending[m] # Nil /\ file'[pending[m]].moved # Nil => (Cur(pending[m]))'
    <3> SUFFICES ASSUME NEW m \in Smooth, pending[m] # Nil, file'[pending[m]].moved # Nil
                 PROVE  (Cur(pending[m]))'
      OBVIOUS
    <3>1. pending[m] = f
      BY <1>2, <1>8
    <3> QED  BY <1>1, <1>2, <3>1 DEF Cur
  <2>2. \A g \in SmoothFiles : Cur(g) => /\ file'[g].moved # Nil /\ doc'[file'[g].moved].state = "path"
                                         /\ stored'[file'[g].moved] # Nil
    BY <1>1, <1>2, <1>5, <1>7
  <2>3. \A m \in Smooth : (Cur(pending[m]))' <=> Cur(pending[m])
    BY <1>2 DEF Cur
  <2> QED  BY <1>2, <1>3, <1>4, <2>1, <2>2 DEF WorkInv, Cur
<1>15. DoneInv'
  <2> SUFFICES ASSUME NEW g \in File, file'[g].moved \in SmoothDocs
               PROVE  ~Token(g) /\ \A m \in Name : pending[m] # g
    BY <1>2, <1>3, <1>4 DEF DoneInv
  <2>1. g # f
    BY <1>2, <1>3
  <2> QED  BY <1>0, <1>1, <1>2, <2>1 DEF DoneInv
<1>16. ShownOnce' /\ StagingInv'
  <2>1. \A d \in SmoothDocs : pending[doc[d].name] = Nil
    BY <1>0, <1>1 DEF ShownOnce
  <2>2. ShownOnce'
    BY <1>2, <1>3, <2>1 DEF ShownOnce
  <2>3. ASSUME NEW m \in Smooth, staging'[m] # Nil
        PROVE  pending[m] # Nil /\ file'[pending[m]].moved = Nil
    <3>1. staging[m] # Nil
      BY <1>0, <1>2, <1>3, <2>3 DEF TypeInv, DiskType
    <3>2. pending[m] # Nil /\ file[pending[m]].moved = Nil /\ file[pending[m]].name = m /\ pending[m] \in File
      BY <1>0, <1>8, <3>1 DEF StagingInv
    <3>3. pending[m] # f
      BY <1>0, <1>2, <1>3, <2>3, <3>2 DEF TypeInv, DiskType
    <3> QED  BY <1>2, <3>2, <3>3
  <2>4. StagingInv'
    BY <1>2, <1>3, <2>3 DEF StagingInv
  <2> QED  BY <2>2, <2>4
<1>17. OneLive' /\ LiveDocHasFile' /\ HandleOfDoc' /\ IndexInv'
  BY <1>0, <1>2, <1>3, <1>6, DocsKeep
<1>18. HandleOfFile'
  <2> SUFFICES ASSUME NEW m \in Smooth, NEW k \in Handle, pending[m] # Nil,
                      (Inode(pending[m]))' # Nil, handle[k].inode = (Inode(pending[m]))'
               PROVE  (Held(k, pending[m]))'
    BY <1>2, <1>3 DEF HandleOfFile
  <2>1. Held(k, pending[m])
    BY <1>0, <1>8 DEF HandleOfFile
  <2> QED  BY <1>2, <2>1 DEF Held
<1>19. InodeOfHandle'
  <2> SUFFICES ASSUME NEW g \in SmoothFiles, NEW k \in Handle, Held(k, g), ~file[g].deleted
               PROVE  handle[k].inode = (Inode(g))'
    BY <1>2, <1>3, <1>4 DEF InodeOfHandle
  <2>1. file[g].name \in Smooth /\ pending[file[g].name] = g /\ g # Nil
    BY <1>0, <1>3, SmoothFilesIs DEF HeldInv, Token
  <2>2. (Inode(g))' = Inode(g)
    <3>1. PICK m \in Smooth : m = file[g].name
      BY <2>1
    <3>2. (Inode(pending[m]))' = Inode(pending[m])
      BY <1>8, <2>1, <3>1
    <3> QED  BY <1>2, <2>1, <3>1, <3>2 DEF Inode
  <2> QED  BY <1>0, <2>2 DEF InodeOfHandle
<1>20. SavedInv'
  <2> SUFFICES ASSUME NEW m \in Smooth, saved[m] # Nil
               PROVE  \/ (Catalogued(m, saved[m]))'
                      \/ (Staged(m, saved[m]))' /\ ((Queued(pending[m]))' \/ (Going(pending[m]))')
    BY <1>2, <1>3 DEF SavedInv
  <2>1. \A d \in SameName(m) : d \in (SameName(m))' /\ stored'[d] = stored[d]
    <3>1. \A d \in SameName(m) : d \in SmoothDocs
      BY DEF SameName, SmoothDocs
    <3> QED  BY <1>3, <1>6, <3>1 DEF SameName
  <2>2. IsPending(m) =>
           /\ pending'[m] = pending[m] /\ file'[pending[m]].temp = file[pending[m]].temp
           /\ (Inode(pending[m]))' = Inode(pending[m])
    BY <1>2, <1>8 DEF IsPending
  <2>3. Queued(pending[m]) \/ Going(pending[m]) =>
           In(queue', FileItem(pending[m])) \/ In(round', FileItem(pending[m]))
    BY <1>2 DEF Queued, Going
  <2>4. data' = data /\ saved' = saved
    BY <1>2
  <2> QED  BY <1>0, <2>1, <2>2, <2>3, <2>4, SavedKeeps
<1> QED  BY <1>11, <1>12, <1>13, <1>14, <1>15, <1>16, <1>17, <1>18, <1>19, <1>20
         DEF SmoothInv, FileInv, SyncInv, NameInv, OpenInv, TextInv

\* NoOwner: the name of the file is not smooth any more, and its path was no document's.
LEMMA NoOwnerKeeps ==
    ASSUME IInv, TypeInv', NoOwner
    PROVE  SmoothInv'
<1>0. /\ TypeInv /\ StepInv /\ MovedInv /\ OnePath /\ PathInv /\ NamesInv /\ TokenInv /\ HeldInv
      /\ WorkInv /\ DoneInv /\ OneLive /\ ShownOnce /\ StagingInv
      /\ HandleOfFile /\ InodeOfHandle /\ HandleOfDoc /\ IndexInv /\ SavedInv /\ LiveDocHasFile
  BY Parts
<1>a. PICK f \in File, e \in Doc : f = Item /\ e = Final
  BY <1>0, ItemIs, FinalIs DEF NoOwner
<1>1. /\ round # <<>> /\ f \in Born /\ Head(round) = FileItem(f) /\ Cur(f)
      /\ step = "insert" /\ f # Nil /\ doc[e].state = "path"
  BY <1>0, <1>a, ItemIs, FinalIs DEF NoOwner, Cur, File
<1>2. /\ \A d \in Doc : d # e => doc'[d] = doc[d]
      /\ doc'[e].state = "gone"
      /\ stored' = [stored EXCEPT ![e] = Nil]
      /\ rough' = rough \cup {file[f].name}
      /\ round' = Tail(round) /\ step' = "look"
      /\ UNCHANGED <<file, pending, staging, data, handle, queue, saved>>
  BY <1>0, <1>a, NoOwnerIs DEF NoOwner, Done
<1>3. /\ Smooth' \subseteq Smooth /\ SmoothFiles' \subseteq SmoothFiles /\ SmoothDocs' \subseteq SmoothDocs
      /\ f \notin SmoothFiles' /\ file[f].name \notin Smooth'
      /\ \A g \in SmoothFiles' : g \in File /\ g \in Born /\ g # Nil /\ file[g].name \in Smooth'
      /\ \A d \in SmoothDocs' : d \in Doc /\ doc[d].name \in Smooth' /\ d # e /\ doc'[d] = doc[d]
                                /\ stored'[d] = stored[d]
      /\ \A n \in Smooth : n \in Name
  <2>1. Smooth' \subseteq Smooth /\ file[f].name \notin Smooth' /\ \A n \in Smooth : n \in Name
    BY <1>2 DEF Smooth
  <2>2. SmoothFiles' \subseteq SmoothFiles /\ \A g \in SmoothFiles' : file[g].name \in Smooth'
    BY <1>2, <2>1 DEF SmoothFiles
  <2>3. \A g \in SmoothFiles' : g \in File /\ g \in Born /\ g # Nil
    BY <1>0, <2>2, SmoothFilesIs DEF File
  <2>4. \A d \in SmoothDocs' : d \in Doc /\ d # e /\ doc'[d] = doc[d] /\ doc[d].name \in Smooth'
                               /\ d \in SmoothDocs
    BY <1>2, <2>1 DEF SmoothDocs
  <2>5. \A d \in SmoothDocs' : stored'[d] = stored[d]
    BY <1>0, <1>2, <2>4 DEF TypeInv, DiskType
  <2> QED  BY <2>1, <2>2, <2>3, <2>4, <2>5
<1>4. /\ \A g : (Queued(g))' <=> Queued(g)
      /\ \A g : (Going(g))' => Going(g)
      /\ \A g, k : (Held(k, g))' <=> Held(k, g)
      /\ \A g : (Token(g))' => Token(g)
      /\ \A g : (Once(queue, FileItem(g)))' <=> Once(queue, FileItem(g))
      /\ \A g : Once(round, FileItem(g)) => (Once(round, FileItem(g)))'
      /\ \A x : In(round, x) => x = Head(round) \/ In(round', x)
  BY <1>0, <1>1, <1>2, TailTokens
<1>5. \A g : Cur(g) => g = f
  BY <1>1 DEF Cur, FileItem
\* Another file in staging has not moved, and keeps its inode.
<1>6. ASSUME NEW m \in Smooth', pending[m] # Nil
      PROVE  /\ m \in Smooth /\ pending[m] \in File /\ pending[m] # f /\ file[pending[m]].moved = Nil
             /\ (Inode(pending[m]))' = Inode(pending[m])
  <2>1. m \in Smooth /\ pending[m] \in File /\ file[pending[m]].name = m
    BY <1>0, <1>3, <1>6, SmoothIs
  <2>2. pending[m] # f
    BY <1>3, <2>1
  <2>3. file[pending[m]].moved = Nil
    BY <1>0, <1>5, <1>6, <2>1, <2>2 DEF WorkInv
  <2>4. (Inode(pending[m]))' = Inode(pending[m])
    BY <1>2, <2>3 DEF Inode
  <2> QED  BY <2>1, <2>2, <2>3, <2>4
\* The parts
<1>11. PathInv' /\ NamesInv'
  <2>1. MovedInv'
    <3>1. \A g \in File : file[g].moved # Nil => file[g].moved \in Doc
      BY <1>0 DEF TypeInv, FileType, FileRecord
    <3> QED  BY <1>0, <1>2, <3>1 DEF MovedInv
  <2>2. OnePath'
    BY <1>0, <1>2 DEF OnePath, TypeInv, DiskType
  <2>3. Born' = Born
    BY <1>2 DEF Born
  <2>4. \A d \in Doc : doc'[d].state = "live" => doc'[d] = doc[d]
    BY <1>2
  <2>5. NamesInv'
    BY <1>0, <1>2, <2>3, <2>4 DEF NamesInv
  <2> QED  BY <2>1, <2>2, <2>5 DEF PathInv
<1>12. TokenInv' /\ HeldInv'
  BY <1>0, <1>2, <1>3, <1>4 DEF TokenInv, HeldInv
<1>13. WorkInv'
  BY <1>2, <1>6 DEF WorkInv
<1>14. DoneInv'
  BY <1>0, <1>1, <1>2, <1>3, <1>4 DEF DoneInv
<1>15. ShownOnce' /\ StagingInv'
  <2>1. \A d \in SmoothDocs' : pending[doc[d].name] = Nil
    BY <1>0, <1>1, <1>3 DEF ShownOnce
  <2>2. ShownOnce'
    BY <1>2, <1>3, <2>1 DEF ShownOnce
  <2>3. StagingInv'
    BY <1>0, <1>2, <1>3 DEF StagingInv
  <2> QED  BY <2>2, <2>3
<1>16. OneLive' /\ LiveDocHasFile' /\ HandleOfDoc' /\ IndexInv'
  <2>1. \A d : DocItem(d) # Head(round)
    BY <1>1 DEF DocItem, FileItem
  <2> QED  BY <1>0, <1>2, <1>3, <1>4, <2>1, DocsKeep
<1>17. HandleOfFile'
  <2> SUFFICES ASSUME NEW m \in Smooth', NEW k \in Handle, pending[m] # Nil,
                      (Inode(pending[m]))' # Nil, handle[k].inode = (Inode(pending[m]))'
               PROVE  (Held(k, pending[m]))'
    BY <1>2 DEF HandleOfFile
  <2>1. Held(k, pending[m])
    BY <1>0, <1>6 DEF HandleOfFile
  <2> QED  BY <1>2, <2>1 DEF Held
<1>18. InodeOfHandle'
  <2> SUFFICES ASSUME NEW g \in SmoothFiles', NEW k \in Handle, Held(k, g), ~file[g].deleted
               PROVE  handle[k].inode = (Inode(g))'
    BY <1>2, <1>4 DEF InodeOfHandle
  <2>1. pending[file[g].name] = g /\ g # Nil /\ g \in SmoothFiles
    BY <1>0, <1>3 DEF HeldInv, Token
  <2>2. (Inode(g))' = Inode(g)
    <3>1. PICK m \in Smooth' : m = file[g].name
      BY <1>3
    <3>2. (Inode(pending[m]))' = Inode(pending[m])
      BY <1>6, <2>1, <3>1
    <3> QED  BY <1>2, <2>1, <3>1, <3>2 DEF Inode
  <2> QED  BY <1>0, <2>1, <2>2 DEF InodeOfHandle
<1>19. SavedInv'
  <2> SUFFICES ASSUME NEW m \in Smooth', saved[m] # Nil
               PROVE  \/ (Catalogued(m, saved[m]))'
                      \/ (Staged(m, saved[m]))' /\ ((Queued(pending[m]))' \/ (Going(pending[m]))')
    BY <1>2 DEF SavedInv
  <2>1. \A d \in SameName(m) : d \in (SameName(m))' /\ stored'[d] = stored[d]
    <3>1. \A d \in SameName(m) : d \in Doc /\ d # e
      BY <1>1 DEF SameName
    <3> QED  BY <1>0, <1>2, <3>1 DEF SameName, TypeInv, DiskType
  <2>2. IsPending(m) =>
           /\ pending'[m] = pending[m] /\ file'[pending[m]].temp = file[pending[m]].temp
           /\ (Inode(pending[m]))' = Inode(pending[m])
    BY <1>2, <1>6 DEF IsPending
  <2>3. IsPending(m) /\ (Queued(pending[m]) \/ Going(pending[m])) =>
           In(queue', FileItem(pending[m])) \/ In(round', FileItem(pending[m]))
    <3>1. IsPending(m) => FileItem(pending[m]) # Head(round)
      BY <1>1, <1>6 DEF IsPending, FileItem
    <3> QED  BY <1>2, <1>4, <3>1 DEF Queued, Going
  <2>4. data' = data /\ saved' = saved /\ m \in Smooth
    BY <1>2, <1>3
  <2> QED  BY <1>0, <2>1, <2>2, <2>3, <2>4, SavedKeeps
<1> QED  BY <1>11, <1>12, <1>13, <1>14, <1>15, <1>16, <1>17, <1>18, <1>19
         DEF SmoothInv, FileInv, SyncInv, NameInv, OpenInv, TextInv

\* Insert: a smooth name had no document, and nobody but the closed file had the inode.
LEMMA InsertKeeps ==
    ASSUME IInv, TypeInv', Insert
    PROVE  SmoothInv'
<1>0. /\ TypeInv /\ StepInv /\ MovedInv /\ OnePath /\ PathInv /\ NamesInv /\ TokenInv /\ HeldInv
      /\ WorkInv /\ DoneInv /\ OneLive /\ ShownOnce /\ StagingInv
      /\ HandleOfFile /\ InodeOfHandle /\ HandleOfDoc /\ IndexInv /\ SavedInv /\ LiveDocHasFile
  BY Parts
<1>a. PICK f \in File, e \in Doc : f = Item /\ e = Final
  BY <1>0, ItemIs, FinalIs DEF Insert
<1>1. /\ f \in Born /\ Cur(f) /\ ~file[f].temp
      /\ step = "insert" /\ f # Nil /\ doc[e].state = "path"
      /\ \A d \in Doc : doc[d].state = "path" => d = e
  BY <1>0, <1>a, ItemIs, FinalIs DEF Insert, Cur, File
<1>2. /\ \A d \in Doc : d # e => doc'[d] = doc[d]
      /\ doc'[e].state = "live" /\ doc'[e].name = file[f].name
      /\ stored[e] # Nil => doc'[e].indexed = data[stored[e]]
      /\ step' = "forget"
      /\ UNCHANGED <<file, pending, staging, stored, data, handle, queue, round, saved, rough>>
  BY <1>0, <1>a, InsertIs DEF Insert
<1>3. /\ Smooth' = Smooth /\ SmoothFiles' = SmoothFiles
      /\ \A n \in Smooth : n \in Name
      /\ \A g \in SmoothFiles : g \in File
      /\ SmoothDocs \subseteq SmoothDocs' /\ e \notin SmoothDocs
      /\ \A d \in SmoothDocs : d \in Doc /\ doc[d].name \in Smooth /\ doc'[d] = doc[d]
      /\ \A d \in SmoothDocs' : d = e \/ d \in SmoothDocs
      /\ e \in SmoothDocs' => file[f].name \in Smooth /\ f \in SmoothFiles
  <2>1. Smooth' = Smooth /\ \A n \in Smooth : n \in Name
    BY <1>2 DEF Smooth
  <2>2. SmoothFiles' = SmoothFiles /\ \A g \in SmoothFiles : g \in File
    BY <1>2, <2>1 DEF SmoothFiles
  <2>3. \A d \in SmoothDocs : d \in Doc /\ doc[d].name \in Smooth /\ d # e /\ doc'[d] = doc[d]
    BY <1>1, <1>2 DEF SmoothDocs
  <2> QED  BY <1>1, <1>2, <2>1, <2>2, <2>3 DEF SmoothDocs, SmoothFiles
<1>4. /\ \A g : (Queued(g))' <=> Queued(g)
      /\ \A g : (Going(g))' <=> Going(g)
      /\ \A g : (Cur(g))' <=> Cur(g)
      /\ \A g, k : (Held(k, g))' <=> Held(k, g)
      /\ \A g : (Token(g))' <=> Token(g)
      /\ \A g : (Once(queue, FileItem(g)))' <=> Once(queue, FileItem(g))
      /\ \A g : (Once(round, FileItem(g)))' <=> Once(round, FileItem(g))
  BY <1>2, SameTokens
<1>5. Going(f) /\ \A g : Cur(g) => g = f
  <2>1. Going(f)
    BY <1>0, <1>1, TokenIs
  <2> QED  BY <1>1, <2>1 DEF Cur, FileItem
\* No smooth document is shown beside a file in staging before the insert.
<1>6. \A d \in SmoothDocs : pending[doc[d].name] = Nil
  BY <1>0, <1>1 DEF ShownOnce
\* If the file is smooth: it is pending, at the path, and the document is the only one.
<1>7. ASSUME f \in SmoothFiles
      PROVE  /\ file[f].moved = e /\ stored[e] # Nil /\ pending[file[f].name] = f
             /\ \A d \in SmoothDocs : doc[d].name # file[f].name
             /\ \A k \in Handle : ~Held(k, f)
             /\ \A g \in File : file[g].moved = e => g = f
             /\ Inode(f) = stored[e]
  <2>1. file[f].moved # Nil /\ file[f].moved \in Doc /\ doc[file[f].moved].state = "path"
        /\ stored[file[f].moved] # Nil
    BY <1>0, <1>1, <1>7, InodeIs DEF WorkInv
  <2>2. file[f].moved = e
    BY <1>1, <2>1
  <2>3. pending[file[f].name] = f
    BY <1>0, <1>5, <1>7 DEF HeldInv, Token
  <2>4. \A k \in Handle : ~Held(k, f)
    BY <1>0, <1>5, <1>7 DEF TokenInv
  <2>5. \A g \in File : file[g].moved = e => g = f
    BY <1>0, <2>1, <2>2 DEF MovedInv
  <2>6. Inode(f) = stored[e]
    BY <2>1, <2>2 DEF Inode
  <2> QED  BY <1>1, <1>6, <2>1, <2>2, <2>3, <2>4, <2>5, <2>6
<1>8. /\ \A g : (Inode(g))' = Inode(g)
      /\ \A m \in Smooth : (Cur(pending[m]))' <=> Cur(pending[m])
  BY <1>2 DEF Inode, Cur
\* The parts
<1>11. PathInv' /\ NamesInv'
  <2>1. MovedInv'
    <3>1. \A g \in File : file[g].moved # Nil => file[g].moved \in Doc
      BY <1>0 DEF TypeInv, FileType, FileRecord
    <3> QED  BY <1>0, <1>2, <3>1 DEF MovedInv
  <2>2. Born' = Born
    BY <1>2 DEF Born
  <2>3. \A d \in Doc : doc'[d].state = "live" /\ doc'[d].name \in Temp => doc'[d].name \in rough
    BY <1>0, <1>1, <1>2 DEF NamesInv
  <2>4. NamesInv'
    BY <1>0, <1>2, <2>2, <2>3 DEF NamesInv
  <2> QED  BY <1>0, <1>2, <2>1, <2>4 DEF PathInv, OnePath
<1>12. TokenInv' /\ HeldInv'
  BY <1>0, <1>2, <1>3, <1>4 DEF TokenInv, HeldInv
<1>13. WorkInv'
  <2>1. \A m \in Smooth : pending[m] # Nil /\ file[pending[m]].moved # Nil => Cur(pending[m])
    BY <1>0 DEF WorkInv
  <2>2. \A g \in SmoothFiles : Cur(g) => /\ file[g].moved # Nil /\ doc'[file[g].moved].state = "live"
                                         /\ doc'[file[g].moved].name = file[g].name
    <3>1. \A g \in SmoothFiles : Cur(g) => g = f /\ f \in SmoothFiles
      BY <1>5
    <3>2. e # Nil
      BY DEF Doc
    <3> QED  BY <1>2, <1>7, <3>1, <3>2
  <2> QED  BY <1>2, <1>3, <1>4, <1>8, <2>1, <2>2 DEF WorkInv
<1>14. DoneInv'
  <2> SUFFICES ASSUME NEW g \in File, file[g].moved \in SmoothDocs'
               PROVE  \/ Cur(g) /\ file[g].name = doc'[file[g].moved].name
                      \/ ~Token(g) /\ \A m \in Name : pending[m] # g
    BY <1>2, <1>4 DEF DoneInv
  <2>1. CASE file[g].moved = e
    BY <1>1, <1>2, <1>3, <1>7, <2>1
  <2>2. CASE file[g].moved # e
    BY <1>0, <1>1, <1>3, <2>2 DEF DoneInv
  <2> QED  BY <2>1, <2>2
<1>15. OneLive' /\ LiveDocHasFile'
  <2>1. OneLive'
    BY <1>0, <1>2, <1>3, <1>7 DEF OneLive
  <2>2. \A d \in SmoothDocs' : stored[d] # Nil
    BY <1>0, <1>3, <1>7 DEF LiveDocHasFile, SmoothDocs
  <2>3. LiveDocHasFile'
    BY <1>2, <2>2 DEF LiveDocHasFile, SmoothDocs
  <2> QED  BY <2>1, <2>3
<1>16. ShownOnce' /\ StagingInv'
  <2>1. ASSUME NEW d \in SmoothDocs', pending[doc'[d].name] # Nil
        PROVE  Cur(pending[doc'[d].name]) /\ file[pending[doc'[d].name]].moved = d
    <3>1. d = e
      BY <1>3, <1>6, <2>1
    <3> QED  BY <1>1, <1>2, <1>3, <1>7, <2>1, <3>1
  <2>2. ShownOnce'
    <3> SUFFICES ASSUME NEW d \in SmoothDocs', pending'[doc'[d].name] # Nil
                 PROVE  /\ round' # <<>> /\ Head(round') = FileItem(pending'[doc'[d].name])
                        /\ step' = "forget" /\ file'[pending'[doc'[d].name]].moved = d
      BY DEF ShownOnce, Cur, FileItem
    <3> QED  BY <1>2, <2>1 DEF Cur
  <2> QED  BY <1>0, <1>2, <1>3, <2>2 DEF StagingInv
<1>17. HandleOfFile' /\ InodeOfHandle'
  <2>1. HandleOfFile'
    BY <1>0, <1>2, <1>3 DEF HandleOfFile, Inode, Held
  <2>2. InodeOfHandle'
    BY <1>0, <1>2, <1>3, <1>4, <1>8 DEF InodeOfHandle
  <2> QED  BY <2>1, <2>2
<1>18. HandleOfDoc'
  <2> SUFFICES ASSUME NEW d \in SmoothDocs', NEW k \in Handle, handle[k].kind # "free"
               PROVE  handle[k].inode = stored[d] <=> handle[k].kind = "db" /\ handle[k].of = d
    BY <1>2 DEF HandleOfDoc
  <2>1. CASE d # e
    BY <1>0, <1>3, <2>1 DEF HandleOfDoc
  <2>2. CASE d = e
    <3>1. ~(handle[k].kind = "db" /\ handle[k].of = d)
      BY <1>0, <1>1, <2>2 DEF TypeInv, HandleType, Known
    <3>2. f \in SmoothFiles /\ file[f].name \in Smooth
      BY <1>3, <2>2
    <3>3. handle[k].inode # stored[d]
      BY <1>0, <1>1, <1>7, <2>2, <3>2 DEF HandleOfFile
    <3> QED  BY <3>1, <3>3
  <2> QED  BY <2>1, <2>2
<1>19. IndexInv'
  <2> SUFFICES ASSUME NEW d \in SmoothDocs'
               PROVE  \/ doc'[d].indexed = data[stored[d]]
                      \/ \E k \in Handle : handle[k].kind = "db" /\ handle[k].of = d /\ handle[k].dirty
                      \/ In(queue, DocItem(d)) \/ In(round, DocItem(d))
    BY <1>2 DEF IndexInv
  <2>1. CASE d # e
    <3>1. d \in SmoothDocs /\ doc'[d] = doc[d]
      BY <1>3, <2>1
    <3> QED  BY <1>0, <3>1 DEF IndexInv
  <2>2. CASE d = e
    BY <1>2, <1>3, <1>7, <2>2
  <2> QED  BY <2>1, <2>2
<1>20. SavedInv'
  <2> SUFFICES ASSUME NEW m \in Smooth, saved[m] # Nil
               PROVE  \/ (Catalogued(m, saved[m]))'
                      \/ (Staged(m, saved[m]))' /\ ((Queued(pending[m]))' \/ (Going(pending[m]))')
    BY <1>2, <1>3 DEF SavedInv
  <2>1. \A d \in SameName(m) : d \in (SameName(m))' /\ stored'[d] = stored[d]
    BY <1>1, <1>2 DEF SameName
  <2>2. IsPending(m) =>
           /\ pending'[m] = pending[m] /\ file'[pending[m]].temp = file[pending[m]].temp
           /\ (Inode(pending[m]))' = Inode(pending[m])
    BY <1>2 DEF Inode
  <2>3. Queued(pending[m]) \/ Going(pending[m]) =>
           In(queue', FileItem(pending[m])) \/ In(round', FileItem(pending[m]))
    BY <1>2 DEF Queued, Going
  <2>4. data' = data /\ saved' = saved
    BY <1>2
  <2> QED  BY <1>0, <2>1, <2>2, <2>3, <2>4, SavedKeeps
<1> QED  BY <1>11, <1>12, <1>13, <1>14, <1>15, <1>16, <1>17, <1>18, <1>19, <1>20
         DEF SmoothInv, FileInv, SyncInv, NameInv, OpenInv, TextInv

\* Forget: the file of a smooth name leaves the pending map, its document is there by then.
LEMMA ForgetKeeps ==
    ASSUME IInv, TypeInv', Forget
    PROVE  SmoothInv'
<1>0. /\ TypeInv /\ StepInv /\ MovedInv /\ OnePath /\ PathInv /\ NamesInv /\ TokenInv /\ HeldInv
      /\ WorkInv /\ DoneInv /\ OneLive /\ ShownOnce /\ StagingInv
      /\ HandleOfFile /\ InodeOfHandle /\ HandleOfDoc /\ IndexInv /\ SavedInv /\ LiveDocHasFile
  BY Parts
<1>a. PICK f \in File : f = Item
  BY <1>0, ItemIs DEF Forget
<1>1. /\ round # <<>> /\ f \in Born /\ Head(round) = FileItem(f) /\ Cur(f)
      /\ step = "forget" /\ f # Nil /\ file[f].name \in Name
  BY <1>0, <1>a, ItemIs, InodeIs DEF Forget, Cur, File
<1>2. /\ \A n \in Name : pending'[n] = IF n = file[f].name /\ pending[n] = f THEN Nil ELSE pending[n]
      /\ round' = Tail(round) /\ step' = "look"
      /\ UNCHANGED <<file, staging, stored, data, handle, queue, doc, saved, rough>>
  BY <1>a DEF Forget, Done
<1>3. /\ Smooth' = Smooth /\ SmoothFiles' = SmoothFiles /\ SmoothDocs' = SmoothDocs
      /\ \A g \in SmoothFiles : g \in File /\ g \in Born /\ file[g].name \in Name
      /\ \A d \in SmoothDocs : d \in Doc /\ doc[d].name \in Smooth
      /\ \A n \in Smooth : n \in Name
  <2>1. Smooth' = Smooth /\ SmoothFiles' = SmoothFiles /\ SmoothDocs' = SmoothDocs
    BY <1>2 DEF Smooth, SmoothFiles, SmoothDocs
  <2>2. \A g \in SmoothFiles : g \in File /\ g \in Born /\ file[g].name \in Name
    BY <1>0, SmoothFilesIs
  <2> QED  BY <2>1, <2>2 DEF Smooth, SmoothDocs
<1>4. /\ \A g : (Queued(g))' <=> Queued(g)
      /\ \A g : (Going(g))' => Going(g)
      /\ \A g, k : (Held(k, g))' <=> Held(k, g)
      /\ \A g : (Token(g))' => Token(g)
      /\ \A g : (Once(queue, FileItem(g)))' <=> Once(queue, FileItem(g))
      /\ \A g : Once(round, FileItem(g)) => (Once(round, FileItem(g)))' /\ (Cur(g) => ~(Going(g))')
      /\ \A x : In(round, x) => x = Head(round) \/ In(round', x)
  BY <1>0, <1>1, <1>2, TailTokens
<1>5. Going(f) /\ \A g : Cur(g) => g = f
  <2>1. Going(f)
    BY <1>0, <1>1, TokenIs
  <2> QED  BY <1>1, <2>1 DEF Cur, FileItem
\* If the file is smooth its token is gone, and its document has its inode.
<1>6. ASSUME f \in SmoothFiles
      PROVE  /\ ~(Token(f))' /\ file[f].moved # Nil /\ file[f].moved \in SameName(file[f].name)
             /\ Inode(f) = stored[file[f].moved]
             /\ pending'[file[f].name] = Nil
  <2>1. ~(Token(f))'
    <3>1. /\ \A k \in Handle : ~Held(k, f)
          /\ ~Queued(f) /\ Once(round, FileItem(f))
      BY <1>0, <1>5, <1>6 DEF TokenInv
    <3>2. /\ \A k \in Handle : ~(Held(k, f))'
          /\ ~(Queued(f))' /\ ~(Going(f))'
      BY <1>1, <1>4, <3>1
    <3> QED  BY <1>2, <3>2 DEF Token
  <2>2. file[f].moved # Nil /\ doc[file[f].moved].state = "live" /\ doc[file[f].moved].name = file[f].name
    BY <1>0, <1>1, <1>6 DEF WorkInv
  <2>3. file[f].moved \in Doc
    BY <1>0, <1>1, <2>2, InodeIs
  <2>4. pending[file[f].name] = f
    BY <1>0, <1>5, <1>6 DEF HeldInv, Token
  <2> QED  BY <1>1, <1>2, <2>1, <2>2, <2>3, <2>4 DEF SameName, Inode
\* What stays pending under a smooth name is another file, that has not moved.
<1>7. ASSUME NEW m \in Smooth, pending'[m] # Nil
      PROVE  /\ pending'[m] = pending[m] /\ pending[m] \in File /\ pending[m] # f
             /\ file[pending[m]].moved = Nil /\ (Inode(pending[m]))' = Inode(pending[m])
  <2>1. m \in Name /\ pending'[m] = pending[m]
    BY <1>2, <1>3, <1>7
  <2>2. pending[m] \in File /\ file[pending[m]].name = m
    BY <1>0, <1>7, <2>1, SmoothIs
  <2>3. pending[m] # f
    BY <1>1, <1>2, <1>7, <2>1, <2>2
  <2>4. file[pending[m]].moved = Nil
    BY <1>0, <1>5, <1>7, <2>1, <2>3 DEF WorkInv
  <2>5. (Inode(pending[m]))' = Inode(pending[m])
    BY <1>2, <2>1 DEF Inode
  <2> QED  BY <2>1, <2>2, <2>3, <2>4, <2>5
<1>8. ASSUME NEW m \in Smooth, pending[m] # Nil, pending'[m] = Nil
      PROVE  f \in SmoothFiles /\ m = file[f].name /\ pending[m] = f
  BY <1>2, <1>3, <1>8 DEF SmoothFiles
\* The parts
<1>11. PathInv' /\ NamesInv'
  <2>1. Born' = Born
    BY <1>2 DEF Born
  <2> QED  BY <1>0, <1>2, <2>1 DEF PathInv, MovedInv, OnePath, NamesInv
<1>12. TokenInv'
  BY <1>0, <1>2, <1>3, <1>4 DEF TokenInv
<1>13. HeldInv'
  <2> SUFFICES ASSUME NEW g \in SmoothFiles
               PROVE  /\ (Token(g))' /\ ~file[g].deleted => pending'[file[g].name] = g
                      /\ (Going(g))' => ~file[g].deleted
    BY <1>2, <1>3 DEF HeldInv
  <2>1. (Token(g))' => g # f
    BY <1>6
  <2> QED  BY <1>0, <1>2, <1>3, <1>4, <2>1 DEF HeldInv
<1>14. WorkInv'
  BY <1>2, <1>3, <1>7 DEF WorkInv
<1>15. DoneInv'
  <2> SUFFICES ASSUME NEW g \in File, file[g].moved \in SmoothDocs
               PROVE  ~(Token(g))' /\ \A m \in Name : pending'[m] # g
    BY <1>2, <1>3 DEF DoneInv
  <2>0. g # Nil
    BY DEF File
  <2>1. CASE Cur(g) /\ file[g].name = doc[file[g].moved].name
    <3>1. g = f /\ f \in SmoothFiles
      BY <1>3, <1>5, <2>1 DEF SmoothFiles
    <3>2. \A m \in Name : pending[m] = f => m = file[f].name
      BY <1>0, <1>1 DEF TypeInv, PendingType
    <3> QED  BY <1>2, <1>6, <2>0, <3>1, <3>2
  <2>2. CASE ~Token(g) /\ \A m \in Name : pending[m] # g
    BY <1>2, <1>4, <2>0, <2>2
  <2> QED  BY <1>0, <2>1, <2>2 DEF DoneInv
<1>16. ShownOnce' /\ StagingInv'
  <2>1. ASSUME NEW d \in SmoothDocs, pending'[doc[d].name] # Nil PROVE FALSE
    <3>1. doc[d].name \in Smooth
      BY <1>3
    <3>2. pending[doc[d].name] # Nil /\ pending[doc[d].name] # f
      BY <1>7, <2>1, <3>1
    <3> QED  BY <1>0, <1>5, <3>2 DEF ShownOnce
  <2>2. ShownOnce'
    BY <1>2, <1>3, <2>1 DEF ShownOnce
  <2>3. ASSUME NEW m \in Smooth, staging[m] # Nil PROVE pending'[m] # Nil
    <3>1. pending[m] # Nil /\ file[pending[m]].moved = Nil
      BY <1>0, <2>3 DEF StagingInv
    <3> QED  BY <1>6, <1>8, <3>1
  <2>4. StagingInv'
    BY <1>2, <1>3, <1>7, <2>3 DEF StagingInv
  <2> QED  BY <2>2, <2>4
<1>17. OneLive' /\ LiveDocHasFile' /\ HandleOfDoc' /\ IndexInv'
  <2>1. \A d : DocItem(d) # Head(round)
    BY <1>1 DEF DocItem, FileItem
  <2> QED  BY <1>0, <1>2, <1>3, <1>4, <2>1, DocsKeep
<1>18. HandleOfFile'
  <2> SUFFICES ASSUME NEW m \in Smooth, NEW k \in Handle, pending'[m] # Nil,
                      (Inode(pending[m]))' # Nil, handle[k].inode = (Inode(pending[m]))'
               PROVE  (Held(k, pending[m]))'
    BY <1>2, <1>3 DEF HandleOfFile
  <2>1. Held(k, pending[m])
    BY <1>0, <1>7 DEF HandleOfFile
  <2> QED  BY <1>2, <1>7, <2>1 DEF Held
<1>19. InodeOfHandle'
  <2>1. \A g : (Inode(g))' = Inode(g)
    BY <1>2 DEF Inode
  <2> QED  BY <1>0, <1>2, <1>3, <1>4, <2>1 DEF InodeOfHandle
<1>20. SavedInv'
  <2> SUFFICES ASSUME NEW m \in Smooth, saved[m] # Nil
               PROVE  \/ (Catalogued(m, saved[m]))'
                      \/ (Staged(m, saved[m]))' /\ ((Queued(pending[m]))' \/ (Going(pending[m]))')
    BY <1>2, <1>3 DEF SavedInv
  <2>1. \A d \in SameName(m) : d \in (SameName(m))' /\ stored'[d] = stored[d]
    BY <1>2 DEF SameName
  <2>2. CASE pending[m] # Nil /\ pending'[m] = Nil
    <3>1. f \in SmoothFiles /\ m = file[f].name /\ pending[m] = f
      BY <1>8, <2>2
    <3>2. Staged(m, saved[m]) => Catalogued(m, saved[m])
      BY <1>6, <3>1 DEF Staged, Catalogued
    <3>3. Catalogued(m, saved[m])
      BY <1>0, <3>2 DEF SavedInv
    <3> QED  BY <1>2, <3>3 DEF Catalogued, SameName
  <2>3. CASE ~(pending[m] # Nil /\ pending'[m] = Nil)
    <3>1. IsPending(m) =>
             /\ pending'[m] = pending[m] /\ file'[pending[m]].temp = file[pending[m]].temp
             /\ (Inode(pending[m]))' = Inode(pending[m])
      BY <1>2, <1>7, <2>3 DEF IsPending
    <3>2. IsPending(m) /\ (Queued(pending[m]) \/ Going(pending[m])) =>
             In(queue', FileItem(pending[m])) \/ In(round', FileItem(pending[m]))
      <4>1. IsPending(m) => FileItem(pending[m]) # Head(round)
        BY <1>1, <1>7, <2>3 DEF IsPending, FileItem
      <4> QED  BY <1>2, <1>4, <4>1 DEF Queued, Going
    <3>3. data' = data /\ saved' = saved
      BY <1>2
    <3> QED  BY <1>0, <2>1, <3>1, <3>2, <3>3, SavedKeeps
  <2> QED  BY <2>2, <2>3
<1> QED  BY <1>11, <1>12, <1>13, <1>14, <1>15, <1>16, <1>17, <1>18, <1>19, <1>20
         DEF SmoothInv, FileInv, SyncInv, NameInv, OpenInv, TextInv

-----------------------------------------------------------------------------
(* What is smooth is kept                                                  *)

\* At the start nothing is there.
LEMMA SmoothInit == Init => SmoothInv
<1> SUFFICES ASSUME Init PROVE SmoothInv
  OBVIOUS
<1>1. /\ \A f \in File : file[f] = NoFile
      /\ \A n \in Name : pending[n] = Nil /\ staging[n] = Nil /\ saved[n] = Nil
      /\ \A d \in Doc : stored[d] = Nil /\ doc[d] = NoDoc
      /\ \A h \in Handle : handle[h] = Closed
      /\ queue = <<>> /\ round = <<>> /\ step = "look"
  BY DEF Init
<1>2. SmoothFiles = {} /\ SmoothDocs = {} /\ Born = {} /\ \A n \in Smooth : n \in Name
  BY <1>1 DEF SmoothFiles, SmoothDocs, Smooth, Born, NoFile, NoDoc
<1>3. PathInv
  BY <1>1 DEF PathInv, MovedInv, OnePath, NoFile
<1>4. FileInv
  BY <1>1, <1>2 DEF FileInv, NamesInv, TokenInv, HeldInv, NoDoc
<1>5. SyncInv
  BY <1>1, <1>2 DEF SyncInv, WorkInv, DoneInv
<1>6. NameInv
  BY <1>1, <1>2 DEF NameInv, OneLive, ShownOnce, StagingInv
<1>7. OpenInv
  BY <1>1, <1>2 DEF OpenInv, HandleOfFile, InodeOfHandle, HandleOfDoc
<1>8. TextInv
  BY <1>1, <1>2 DEF TextInv, IndexInv, SavedInv, LiveDocHasFile, NoDoc
<1> QED  BY <1>3, <1>4, <1>5, <1>6, <1>7, <1>8 DEF SmoothInv

\* A step that changes nothing keeps it.
LEMMA SmoothStutters ==
    ASSUME SmoothInv, UNCHANGED vars
    PROVE  SmoothInv'
<1>1. UNCHANGED <<file, pending, staging, stored, data, handle, queue, round, step, doc, saved, rough>>
  BY DEF vars
<1>2. PathInv' /\ FileInv'
  BY <1>1 DEF SmoothInv, PathInv, FileInv, MovedInv, OnePath, NamesInv, TokenInv, HeldInv, Born,
         SmoothFiles, Smooth, Token, Held, Queued, Going, In, Once
<1>3. SyncInv'
  BY <1>1 DEF SmoothInv, SyncInv, WorkInv, DoneInv, SmoothFiles, SmoothDocs, Smooth, Cur, Token,
         Held, Queued, Going, In
<1>4. NameInv' /\ OpenInv'
  BY <1>1 DEF SmoothInv, NameInv, OpenInv, OneLive, ShownOnce, StagingInv, HandleOfFile,
         InodeOfHandle, HandleOfDoc, SmoothFiles, SmoothDocs, Smooth, Cur, Held, Inode
<1>5. TextInv'
  BY <1>1 DEF SmoothInv, TextInv, IndexInv, SavedInv, LiveDocHasFile, SmoothDocs, Smooth, In,
         Catalogued, SameName, Staged, IsPending, Inode, Queued, Going
<1> QED  BY <1>2, <1>3, <1>4, <1>5 DEF SmoothInv

\* Every step keeps what is smooth.
LEMMA SmoothKept == IInv /\ TypeInv' /\ [Next]_vars => SmoothInv'
<1> SUFFICES ASSUME IInv, TypeInv', [Next]_vars PROVE SmoothInv'
  OBVIOUS
<1>0. TypeInv
  BY Parts
<1>1. CASE UNCHANGED vars
  BY <1>1, SmoothStutters DEF IInv
<1>2. ASSUME NEW n \in Name, NEW h \in Handle, Create(n, h) \/ OpenPending(n, h) \/ OpenDoc(n, h)
      PROVE  SmoothInv'
  BY <1>2, CreateKeeps, OpenKeeps
<1>3. ASSUME NEW h \in Handle, Write(h) \/ Release(h) PROVE SmoothInv'
  BY <1>3, WriteKeeps, ReleaseKeeps
<1>4. ASSUME NEW n \in Name, Unlink(n) PROVE SmoothInv'
  BY <1>0, <1>4, UnlinkIs, UnlinkFileKeeps, UnlinkDocKeeps
<1>5. ASSUME NEW a \in Name, NEW b \in Name, RenamePending(a, b) PROVE SmoothInv'
  BY <1>0, <1>5, RenameFileIs, RenameFileKeeps
<1>6. ASSUME NEW a \in Name, NEW b \in Name, RenameDoc(a, b) PROVE SmoothInv'
  BY <1>0, <1>6, RenameDocIs, RenameDocKeeps
<1>7. CASE SyncStep
  BY <1>7, StartRoundKeeps, ReindexKeeps, SkipMissingKeeps, SkipRemovedKeeps, LookKeeps, MoveKeeps,
     NoOwnerKeeps, InsertKeeps, ForgetKeeps DEF SyncStep
<1> QED  BY <1>1, <1>2, <1>3, <1>4, <1>5, <1>6, <1>7 DEF Next, Call

\* The whole invariant holds: it is inductive.
THEOREM InvariantHolds == Spec => []IInv
<1>1. Init => IInv
  BY BaseInit, SmoothInit DEF IInv
<1>2. IInv /\ [Next]_vars => IInv'
  BY BaseKept, SmoothKept DEF IInv, BaseInv
<1> QED  BY <1>1, <1>2, PTL DEF Spec

\* A text that was closed under a smooth name is there under it, however saves, renames and
\* removals come between the steps of the sync. (release, _commit_pending_sync)
THEOREM SavedTextStays == Spec => []SmoothTextIsKept
<1>1. IInv => SmoothTextIsKept
  BY Parts DEF SavedInv, SmoothTextIsKept, Kept
<1> QED  BY <1>1, InvariantHolds, PTL

\* A smooth document that is not deleted has its file. (_commit_pending_sync, unlink)
THEOREM LiveDocKeepsFile == Spec => []LiveDocHasFile
<1>1. IInv => LiveDocHasFile
  BY Parts
<1> QED  BY <1>1, InvariantHolds, PTL

\* When the sync is idle the queue has no item of a smooth file in staging, and none of a document.
LEMMA IdleIs ==
    ASSUME IInv, Idle
    PROVE  /\ \A n \in Smooth : pending[n] # Nil => ~Queued(pending[n]) /\ ~Going(pending[n])
           /\ \A d : ~In(queue, DocItem(d)) /\ ~In(round, DocItem(d))
<1>0. TypeInv
  BY Parts
<1>1. /\ round = <<>> /\ \A x : ~In(round, x)
      /\ \A x : In(queue, x) => ~Ready(x)
  <2>1. round = <<>> /\ ReadyItems = {}
    BY DEF Idle
  <2>2. \A x : In(queue, x) => x \in Range(queue)
    BY <1>0 DEF In, Range, TypeInv, SyncType
  <2> QED  BY <2>1, <2>2 DEF In, ReadyItems
<1>2. ASSUME NEW n \in Smooth, pending[n] # Nil, Queued(pending[n]) PROVE FALSE
  <2>1. pending[n] \in File /\ ~file[pending[n]].deleted
    BY <1>0, <1>2 DEF TypeInv, PendingType, Born, Smooth
  <2>2. file[pending[n]].closed
    BY <1>0, <1>2, <2>1, TokenIs
  <2> QED  BY <1>1, <1>2, <2>1, <2>2 DEF Queued, Ready, FileItem
<1>3. \A d : ~In(queue, DocItem(d))
  BY <1>1 DEF Ready, DocItem
<1> QED  BY <1>1, <1>2, <1>3 DEF Going

\* When the sync has nothing to do, what was saved under a smooth name is a document: nothing
\* stays in staging, where a restart would remove it. (_background_sync, release)
THEOREM StagingIsEmptied == Spec => []NothingStaysStaged
<1>1. IInv => NothingStaysStaged
  <2> SUFFICES ASSUME IInv, Idle, NEW n \in Smooth, saved[n] # Nil PROVE Catalogued(n, saved[n])
    BY DEF NothingStaysStaged
  <2>1. IsPending(n) => ~Queued(pending[n]) /\ ~Going(pending[n])
    BY IdleIs DEF IsPending
  <2> QED  BY <2>1, Parts DEF SavedInv, Staged
<1> QED  BY <1>1, InvariantHolds, PTL

\* When the sync has nothing to do and every file is closed, the last job of a smooth document
\* was created after the last write to it. (release, _reindex_sync)
THEOREM IndexIsLatest == Spec => []SearchSeesLastText
<1>1. IInv => SearchSeesLastText
  <2> SUFFICES ASSUME IInv, Idle, Opened = {}, NEW d \in Doc, doc[d].state = "live", doc[d].name \in Smooth
               PROVE  doc[d].indexed = data[stored[d]]
    BY DEF SearchSeesLastText
  <2>1. d \in SmoothDocs
    BY DEF SmoothDocs
  <2>2. \A h \in Handle : handle[h].kind # "db"
    BY DEF Opened, Closed
  <2> QED  BY <2>1, <2>2, IdleIs, Parts DEF IndexInv
<1> QED  BY <1>1, InvariantHolds, PTL
===============================================================================
