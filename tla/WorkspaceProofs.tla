---------------------------- MODULE WorkspaceProofs ----------------------------
(***************************************************************************)
(* Proofs about four parts that share nothing.  UnixIds: types, numbers    *)
(* for life, answers that agree, and a sequence that never falls, for any  *)
(* number of rows, requests and starting processes.  Sessions: types, and  *)
(* that who was shut out stays out, for any number of users, keys, tokens, *)
(* requests and logouts, any lives of the tokens and any margin of the     *)
(* blacklist of a second or more.  DriveView: what the network drive shows *)
(* was true not long ago, for any life times of the two caches and         *)
(* whatever invalidation is lost or overtaken.  SearchRun: types, and that *)
(* a page is right, for any documents, words, queries and order of the     *)
(* metadata signals, and any changes of documents during the search.       *)
(***************************************************************************)
EXTENDS UnixIds, Sessions, DriveView, SearchRun, FiniteSetTheorems, FunctionTheorems,
        WellFoundedInduction, TLAPS

AccountRow == [state : {"none", "row", "gone"}, number : Ids]
Giver == [pc : {"idle", "give", "answered"}, todo : SUBSET Accounts,
          given : [Accounts -> Ids], answer : [Accounts -> Ids]]
Starter == [pc : {"idle", "check", "lock", "set", "done"}, tries : Nat, seen : Ids]

\* UnixTypeOK, with the records closed.
TypeInv ==
  /\ account \in [Accounts -> AccountRow]
  /\ seq \in 1..(LastId + 1)
  /\ giver \in [Givers -> Giver]
  /\ starter \in [Starters -> Starter]
  /\ initLock \in Starters \cup {NoStarter} /\ tableLock \in Starters \cup {NoStarter}
  /\ byHand \in 0..MaxHand
  /\ owners \in [Ids -> SUBSET Accounts]
  /\ loose \subseteq Ids /\ regiven \subseteq Ids

\* What the sequence has still to come to has no owner, but for what was set by hand.
AheadIsFree == \A n \in Ids : n >= seq /\ owners[n] # {} => n \in loose

\* A number that was not given over one set by hand has one owner at most.
OneOwner == \A n \in Ids \ regiven : owners[n] = {} \/ \E a \in Accounts : owners[n] = {a}

\* A number that is given and not committed is its request's answer, for a row without a
\* number that no other request is giving one.
GivenOnce ==
  \A g \in Givers, a \in Accounts :
    giver[g].given[a] # 0 =>
      /\ giver[g].pc = "give" /\ giver[g].answer[a] = giver[g].given[a]
      /\ account[a].state = "row" /\ account[a].number = 0
      /\ \A h \in Givers : giver[h].given[a] # 0 => h = g

\* A row that is not there yet has no number and no answer.
NoneHasNone ==
  \A a \in Accounts : account[a].state = "none" =>
    account[a].number = 0 /\ \A g \in Givers : giver[g].answer[a] = 0

\* Any other answer is what the row holds, if nothing was set by hand.
AnswerIsNumber ==
  byHand = 0 =>
    \A g \in Givers, a \in Accounts :
      giver[g].answer[a] # 0 /\ giver[g].given[a] = 0 /\ account[a].state = "row"
        => account[a].number = giver[g].answer[a]

NumberInv == AheadIsFree /\ OneOwner
AnswerInv == GivenOnce /\ NoneHasNone /\ AnswerIsNumber

-----------------------------------------------------------------------------
(* The largest number                                                      *)

\* A set of numbers up to n that is not empty has a largest one.
LEMMA LargestExists ==
    ASSUME NEW n \in Nat, NEW S \in SUBSET (0 .. n), S # {}
    PROVE  \E m \in S : \A k \in S : k <= m
<1> DEFINE T == {i \in Nat : n - i \in S /\ i <= n}
<1>1. T \subseteq Nat /\ T # {}
  <2>1. PICK k \in S : TRUE
    OBVIOUS
  <2>2. n - k \in T
    BY <2>1
  <2> QED  BY <2>2
<1>2. PICK i \in T : \A k \in T : ~(k < i)
  <2>1. \E x \in T : \A y \in T : ~(<<y, x>> \in OpToRel(<, Nat))
    BY <1>1, NatLessThanWellFounded, WFMin, Zenon
  <2> QED  BY <1>1, <2>1 DEF OpToRel
<1>3. ASSUME NEW k \in S PROVE k <= n - i
  <2>1. n - k \in T
    OBVIOUS
  <2>2. ~(n - k < i)
    BY <1>2, <2>1
  <2>3. i \in Nat /\ k \in Nat
    OBVIOUS
  <2> HIDE DEF T
  <2> QED  BY <2>2, <2>3
<1> QED  BY <1>2, <1>3

\* Largest is a number that some row has, and none has a larger one.
LEMMA LargestIs ==
    ASSUME TypeInv
    PROVE  /\ Largest \in Ids
           /\ \A a \in Accounts : NumberOf(a) \in Ids /\ NumberOf(a) <= Largest
<1>1. ASSUME NEW a \in Accounts PROVE NumberOf(a) \in Ids
  BY UnixAssumption DEF TypeInv, AccountRow, NumberOf, Ids
<1>2. Taken \in SUBSET Ids
  BY <1>1 DEF Taken
<1>3. CASE Taken = {}
  BY <1>1, <1>3, UnixAssumption DEF Largest, Taken, Ids
<1>4. CASE Taken # {}
  <2>1. \E m \in Taken : \A k \in Taken : k <= m
    BY <1>2, <1>4, LargestExists, UnixAssumption DEF Ids
  <2>2. Largest \in Taken /\ \A k \in Taken : k <= Largest
    BY <1>4, <2>1 DEF Largest
  <2>3. ASSUME NEW a \in Accounts PROVE NumberOf(a) <= Largest
    <3>1. CASE NumberOf(a) = 0
      BY <1>2, <2>2, <3>1, UnixAssumption DEF Ids
    <3>2. CASE NumberOf(a) # 0
      BY <2>2, <3>2 DEF Taken
    <3> QED  BY <3>1, <3>2
  <2> QED  BY <1>1, <1>2, <2>2, <2>3
<1> QED  BY <1>3, <1>4

\* A start-up raises the sequence, to a number it can give, or leaves it.
LEMMA RaisedIs ==
    ASSUME TypeInv, NEW s \in Starters
    PROVE  Raised(s) \in 1..(LastId + 1) /\ Raised(s) >= seq
<1>1. Largest \in Ids /\ seq \in 1..(LastId + 1)
  BY LargestIs DEF TypeInv
<1> QED  BY <1>1, UnixAssumption DEF Raised, Behind, Ids

-----------------------------------------------------------------------------
(* Types                                                                   *)

LEMMA NoGiverTyped == NoGiver \in Giver
BY UnixAssumption DEF NoGiver, Giver, Ids

LEMMA TypeInit == UnixInit => TypeInv
BY NoGiverTyped, UnixAssumption DEF UnixInit, TypeInv, AccountRow, Starter, Ids

LEMMA TypeNext == TypeInv /\ [UnixNext]_unixVars => TypeInv'
<1> SUFFICES ASSUME TypeInv, [UnixNext]_unixVars PROVE TypeInv'
  OBVIOUS
<1> USE UnixAssumption
<1>0. /\ account \in [Accounts -> AccountRow] /\ giver \in [Givers -> Giver]
      /\ starter \in [Starters -> Starter] /\ 0 \in Ids
  BY DEF TypeInv, Ids
<1>1. ASSUME NEW a \in Accounts, NewAccount(a) PROVE TypeInv'
  <2>1. account' \in [Accounts -> AccountRow]
    BY <1>0, <1>1 DEF NewAccount, AccountRow
  <2> QED  BY <1>1, <2>1 DEF NewAccount, TypeInv
<1>2. ASSUME NEW a \in Accounts, DeleteAccount(a) PROVE TypeInv'
  <2>1. account' \in [Accounts -> AccountRow]
    BY <1>0, <1>2 DEF DeleteAccount, AccountRow
  <2> QED  BY <1>2, <2>1 DEF DeleteAccount, TypeInv
<1>3. ASSUME NEW a \in Accounts, NEW n \in 1..LastId, SetByHand(a, n) PROVE TypeInv'
  <2>1. account' \in [Accounts -> AccountRow]
    BY <1>0, <1>3 DEF SetByHand, AccountRow, Ids
  <2>2. owners' \in [Ids -> SUBSET Accounts] /\ loose' \subseteq Ids /\ byHand' \in 0..MaxHand
    BY <1>3 DEF SetByHand, TypeInv, Ids
  <2> QED  BY <1>3, <2>1, <2>2 DEF SetByHand, TypeInv
<1>4. ASSUME NEW g \in Givers, NEW r \in Giver, giver' = [giver EXCEPT ![g] = r]
      PROVE  giver' \in [Givers -> Giver]
  BY <1>0, <1>4
<1>5. ASSUME NEW g \in Givers, NEW S \in SUBSET Accounts, Ensure(g, S) PROVE TypeInv'
  <2> DEFINE r == [NoGiver EXCEPT !.pc = "give", !.todo = {a \in S : NumberOf(a) = 0},
                     !.answer = [a \in Accounts |-> IF a \in S THEN NumberOf(a) ELSE 0]]
  <2>1. r \in Giver
    BY <1>0, LargestIs, NoGiverTyped DEF Giver
  <2>2. giver' \in [Givers -> Giver]
    BY <1>4, <1>5, <2>1 DEF Ensure
  <2> QED  BY <1>5, <2>2 DEF Ensure, TypeInv
<1>6. ASSUME NEW g \in Givers, RollbackGiver(g) PROVE giver' \in [Givers -> Giver]
  BY <1>4, <1>6, NoGiverTyped DEF RollbackGiver
<1>7. ASSUME NEW g \in Givers, NEW a \in Accounts, Give(g, a) PROVE TypeInv'
  <2>1. seq \in Ids /\ seq' \in 1..(LastId + 1)
    BY <1>7 DEF Give, TypeInv, Ids
  <2>2. CASE NextVal \in Taken /\ RollbackGiver(g) /\ UNCHANGED <<owners, regiven>>
    BY <1>6, <1>7, <2>1, <2>2 DEF Give, TypeInv
  <2>3. CASE /\ giver' = [giver EXCEPT ![g].todo = @ \ {a}, ![g].given[a] = NextVal,
                                      ![g].answer[a] = NextVal]
             /\ owners' = [owners EXCEPT ![NextVal] = @ \cup {a}]
             /\ regiven' = IF NextVal \in loose THEN regiven \cup {NextVal} ELSE regiven
    <3> DEFINE r == [giver[g] EXCEPT !.todo = @ \ {a}, !.given[a] = seq, !.answer[a] = seq]
    <3>1. giver' \in [Givers -> Giver]
      <4>1. giver' = [giver EXCEPT ![g] = r]
        BY <1>0, <2>3 DEF NextVal
      <4>2. r \in Giver
        BY <1>0, <2>1 DEF Giver
      <4> QED  BY <1>4, <4>1, <4>2
    <3>2. owners' \in [Ids -> SUBSET Accounts] /\ regiven' \subseteq Ids
      BY <2>1, <2>3 DEF TypeInv, NextVal
    <3> QED  BY <1>7, <2>1, <3>1, <3>2 DEF Give, TypeInv
  <2> QED  BY <1>7, <2>2, <2>3 DEF Give
<1>8. ASSUME NEW g \in Givers, NEW a \in Accounts, GivenMeanwhile(g, a) PROVE TypeInv'
  <2>1. CASE giver' = [giver EXCEPT ![g].todo = @ \ {a}, ![g].answer[a] = NumberOf(a)]
    <3> DEFINE r == [giver[g] EXCEPT !.todo = @ \ {a}, !.answer[a] = NumberOf(a)]
    <3>1. giver' \in [Givers -> Giver]
      <4>1. giver' = [giver EXCEPT ![g] = r]
        BY <1>0, <2>1
      <4>2. r \in Giver
        BY <1>0, LargestIs DEF Giver
      <4> QED  BY <1>4, <4>1, <4>2
    <3> QED  BY <1>8, <3>1 DEF GivenMeanwhile, TypeInv
  <2>2. CASE RollbackGiver(g)
    BY <1>6, <1>8, <2>2 DEF GivenMeanwhile, TypeInv
  <2> QED  BY <1>8, <2>1, <2>2 DEF GivenMeanwhile
<1>9. ASSUME NEW g \in Givers, CommitGiver(g) PROVE TypeInv'
  <2>1. account' \in [Accounts -> AccountRow]
    BY <1>0, <1>9 DEF CommitGiver, AccountRow, Giver
  <2>2. giver' \in [Givers -> Giver]
    BY <1>0, <1>9 DEF CommitGiver, Giver
  <2> QED  BY <1>9, <2>1, <2>2 DEF CommitGiver, TypeInv
<1>10. ASSUME NEW g \in Givers, GiverEnds(g) PROVE TypeInv'
  BY <1>6, <1>10 DEF GiverEnds, TypeInv
<1>11. ASSUME NEW s \in Starters, TakeInitLock(s) PROVE TypeInv'
  BY <1>0, <1>11 DEF TakeInitLock, TypeInv, Starter
<1>12. ASSUME NEW s \in Starters, LetGo(s)
       PROVE  starter' \in [Starters -> Starter] /\ initLock' = NoStarter
  BY <1>0, <1>12 DEF LetGo, Starter
<1>13. ASSUME NEW s \in Starters, CheckBehind(s) PROVE TypeInv'
  <2>1. starter' \in [Starters -> Starter] /\ initLock' \in {initLock, NoStarter}
    BY <1>0, <1>12, <1>13, LargestIs DEF CheckBehind, Starter
  <2> QED  BY <1>13, <2>1 DEF CheckBehind, TypeInv
<1>14. ASSUME NEW s \in Starters, LockTable(s) PROVE TypeInv'
  BY <1>0, <1>14 DEF LockTable, TypeInv, Starter
<1>15. ASSUME NEW s \in Starters, LockTimesOut(s) PROVE TypeInv'
  <2>1. starter' \in [Starters -> Starter] /\ initLock' \in {initLock, NoStarter}
    BY <1>0, <1>12, <1>15 DEF LockTimesOut, Starter
  <2> QED  BY <1>15, <2>1 DEF LockTimesOut, TypeInv
<1>16. ASSUME NEW s \in Starters, SetSequence(s) PROVE TypeInv'
  BY <1>12, <1>16, RaisedIs DEF SetSequence, TypeInv
<1>17. ASSUME UNCHANGED unixVars PROVE TypeInv'
  BY <1>17 DEF unixVars, TypeInv
<1> QED
  BY <1>1, <1>2, <1>3, <1>5, <1>7, <1>8, <1>9, <1>10, <1>11, <1>13, <1>14, <1>15, <1>16, <1>17
  DEF UnixNext

\* The state always has its type.
THEOREM UnixTypes == UnixSpec => []UnixTypeOK
<1>1. TypeInv => UnixTypeOK
  BY DEF TypeInv, UnixTypeOK, AccountRow, Giver, Starter
<1> QED  BY <1>1, TypeInit, TypeNext, PTL DEF UnixSpec

\* A start-up never sets the sequence back, and nothing else does.
THEOREM SequenceRises == UnixSpec => SequenceNeverFalls
<1>1. TypeInv /\ [UnixNext]_unixVars => [seq' >= seq]_unixVars
  <2> SUFFICES ASSUME TypeInv, UnixNext PROVE seq' >= seq
    BY DEF unixVars
  <2>1. seq \in Nat
    BY UnixAssumption DEF TypeInv
  <2>2. ASSUME NEW s \in Starters, SetSequence(s) PROVE seq' >= seq
    BY <2>2, RaisedIs DEF SetSequence
  <2>3. ASSUME NEW g \in Givers, NEW a \in Accounts, Give(g, a) PROVE seq' >= seq
    BY <2>1, <2>3 DEF Give
  <2>4. \/ seq' = seq
        \/ \E s \in Starters : SetSequence(s)
        \/ \E g \in Givers, a \in Accounts : Give(g, a)
    BY DEF UnixNext, NewAccount, DeleteAccount, SetByHand, Ensure, GivenMeanwhile, CommitGiver,
           GiverEnds, TakeInitLock, CheckBehind, LockTable, LockTimesOut
  <2> QED  BY <2>1, <2>2, <2>3, <2>4
<1> QED  BY <1>1, TypeInit, TypeNext, PTL DEF UnixSpec, SequenceNeverFalls

-----------------------------------------------------------------------------
(* Numbers are for life                                                    *)

LEMMA NumberStep ==
    ASSUME TypeInv, NumberInv, [UnixNext]_unixVars
    PROVE  NumberInv'
<1> USE UnixAssumption
<1>0. /\ seq \in Nat /\ seq \in 1..(LastId + 1)
      /\ owners \in [Ids -> SUBSET Accounts] /\ loose \subseteq Ids
  BY DEF TypeInv
<1>1. ASSUME NEW a \in Accounts, NEW n \in 1..LastId, SetByHand(a, n) PROVE NumberInv'
  <2>1. /\ \A m \in Ids : owners'[m] = IF m = n THEN {a} ELSE owners[m]
        /\ loose' = loose \cup {n} /\ seq' = seq /\ regiven' = regiven
    BY <1>0, <1>1 DEF SetByHand
  <2>2. AheadIsFree'
    BY <2>1 DEF NumberInv, AheadIsFree
  <2>3. OneOwner'
    BY <2>1 DEF NumberInv, OneOwner
  <2> QED  BY <2>2, <2>3 DEF NumberInv
<1>2. ASSUME NEW g \in Givers, NEW a \in Accounts, Give(g, a) PROVE NumberInv'
  <2>1. seq \in Ids /\ seq' = seq + 1 /\ loose' = loose
    BY <1>0, <1>2 DEF Give, Ids
  <2>2. CASE owners' = owners /\ regiven' = regiven
    <3>1. \A n \in Ids : n >= seq' => n >= seq
      BY <1>0, <2>1 DEF Ids
    <3> QED  BY <2>1, <2>2, <3>1 DEF NumberInv, AheadIsFree, OneOwner
  <2>3. CASE /\ owners' = [owners EXCEPT ![NextVal] = @ \cup {a}]
             /\ regiven' = IF NextVal \in loose THEN regiven \cup {NextVal} ELSE regiven
    <3>1. \A n \in Ids : owners'[n] = IF n = seq THEN owners[seq] \cup {a} ELSE owners[n]
      BY <1>0, <2>1, <2>3 DEF NextVal
    <3>2. AheadIsFree'
      <4>1. \A n \in Ids : n >= seq' => n >= seq /\ n # seq
        BY <1>0, <2>1 DEF Ids
      <4> QED  BY <2>1, <3>1, <4>1 DEF NumberInv, AheadIsFree
    <3>3. OneOwner'
      <4>1. CASE seq \in loose
        BY <2>3, <3>1, <4>1 DEF NumberInv, OneOwner, NextVal
      <4>2. CASE seq \notin loose
        <5>1. owners[seq] = {}
          BY <1>0, <2>1, <4>2 DEF NumberInv, AheadIsFree
        <5> QED  BY <2>3, <3>1, <4>2, <5>1 DEF NumberInv, OneOwner, NextVal
      <4> QED  BY <4>1, <4>2
    <3> QED  BY <3>2, <3>3 DEF NumberInv
  <2> QED  BY <1>2, <2>2, <2>3 DEF Give
<1>3. ASSUME NEW s \in Starters, SetSequence(s) PROVE NumberInv'
  <2>1. /\ seq' >= seq /\ seq' \in Nat
        /\ loose' = {n \in loose : n >= seq'} /\ owners' = owners /\ regiven' = regiven
    BY <1>3, RaisedIs DEF SetSequence
  <2>2. \A n \in Ids : n >= seq' => n >= seq
    BY <1>0, <2>1 DEF Ids
  <2> QED  BY <2>1, <2>2 DEF NumberInv, AheadIsFree, OneOwner
<1>4. ASSUME UNCHANGED <<seq, owners, loose, regiven>> PROVE NumberInv'
  BY <1>4 DEF NumberInv, AheadIsFree, OneOwner
<1>5. \/ UNCHANGED <<seq, owners, loose, regiven>>
      \/ \E s \in Starters : SetSequence(s)
      \/ \E g \in Givers, a \in Accounts : Give(g, a)
      \/ \E a \in Accounts, n \in 1..LastId : SetByHand(a, n)
  BY DEF UnixNext, unixVars, NewAccount, DeleteAccount, Ensure, GivenMeanwhile, CommitGiver,
         GiverEnds, TakeInitLock, CheckBehind, LockTable, LockTimesOut
<1> QED  BY <1>1, <1>2, <1>3, <1>4, <1>5

\* No second row is ever given a number, but for one that was set by hand and that no start-up
\* has raised the sequence above.
THEOREM NumbersForLife == UnixSpec => []NumbersAreForLife
<1>1. UnixInit => NumberInv
  BY DEF UnixInit, NumberInv, AheadIsFree, OneOwner
<1>2. NumberInv => NumbersAreForLife
  BY FS_EmptySet, FS_Singleton DEF NumberInv, OneOwner, NumbersAreForLife
<1> QED  BY <1>1, <1>2, TypeInit, TypeNext, NumberStep, PTL DEF UnixSpec

-----------------------------------------------------------------------------
(* Answers agree                                                           *)

\* A request that ends takes its numbers and answers with it.
LEMMA RollbackKeeps ==
    ASSUME TypeInv, AnswerInv, NEW g \in Givers, RollbackGiver(g), UNCHANGED <<account, byHand>>
    PROVE  AnswerInv'
<1>1. \A h \in Givers, a \in Accounts :
         /\ giver'[h].given[a] = IF h = g THEN 0 ELSE giver[h].given[a]
         /\ giver'[h].answer[a] = IF h = g THEN 0 ELSE giver[h].answer[a]
         /\ giver'[h].pc = IF h = g THEN "idle" ELSE giver[h].pc
  BY DEF TypeInv, RollbackGiver, NoGiver
<1>2. GivenOnce'
  BY <1>1 DEF AnswerInv, GivenOnce
<1>3. NoneHasNone'
  BY <1>1 DEF AnswerInv, NoneHasNone
<1>4. AnswerIsNumber'
  BY <1>1 DEF AnswerInv, AnswerIsNumber
<1> QED  BY <1>2, <1>3, <1>4 DEF AnswerInv

LEMMA AnswerStep ==
    ASSUME TypeInv, AnswerInv, [UnixNext]_unixVars
    PROVE  AnswerInv'
<1> USE UnixAssumption
<1>0. /\ account \in [Accounts -> AccountRow] /\ giver \in [Givers -> Giver]
      /\ seq \in Nat \ {0} /\ byHand \in Nat
  BY DEF TypeInv
<1>1. ASSUME NEW a \in Accounts, NewAccount(a) PROVE AnswerInv'
  <2>1. /\ giver' = giver /\ byHand' = byHand /\ account[a].state = "none"
        /\ \A b \in Accounts : /\ account'[b].number = account[b].number
                               /\ account'[b].state = IF b = a THEN "row" ELSE account[b].state
    BY <1>0, <1>1 DEF NewAccount, AccountRow
  <2>2. GivenOnce' /\ NoneHasNone'
    BY <2>1 DEF AnswerInv, GivenOnce, NoneHasNone
  <2>3. AnswerIsNumber'
    BY <2>1 DEF AnswerInv, NoneHasNone, AnswerIsNumber
  <2> QED  BY <2>2, <2>3 DEF AnswerInv
<1>2. ASSUME NEW a \in Accounts, DeleteAccount(a) PROVE AnswerInv'
  <2>1. /\ giver' = giver /\ byHand' = byHand
        /\ \A h \in Givers : giver[h].given[a] = 0
        /\ \A b \in Accounts : /\ account'[b].number = account[b].number
                               /\ account'[b].state = IF b = a THEN "gone" ELSE account[b].state
    BY <1>0, <1>2 DEF DeleteAccount, LockedRow, AccountRow
  <2>2. GivenOnce' /\ NoneHasNone' /\ AnswerIsNumber'
    BY <2>1 DEF AnswerInv, GivenOnce, NoneHasNone, AnswerIsNumber
  <2> QED  BY <2>2 DEF AnswerInv
<1>3. ASSUME NEW a \in Accounts, NEW n \in 1..LastId, SetByHand(a, n) PROVE AnswerInv'
  <2>1. /\ giver' = giver /\ byHand' # 0 /\ account[a].state = "row"
        /\ \A h \in Givers : giver[h].given[a] = 0
        /\ \A b \in Accounts : /\ account'[b].state = account[b].state
                               /\ b # a => account'[b].number = account[b].number
    BY <1>0, <1>3 DEF SetByHand, LockedRow, AccountRow
  <2>2. GivenOnce' /\ NoneHasNone' /\ AnswerIsNumber'
    BY <2>1 DEF AnswerInv, GivenOnce, NoneHasNone, AnswerIsNumber
  <2> QED  BY <2>2 DEF AnswerInv
<1>4. ASSUME NEW g \in Givers, NEW S \in SUBSET Accounts, Ensure(g, S) PROVE AnswerInv'
  <2>1. /\ account' = account /\ byHand' = byHand /\ \A a \in S : account[a].state = "row"
        /\ \A h \in Givers, a \in Accounts :
             /\ giver'[h].given[a] = IF h = g THEN 0 ELSE giver[h].given[a]
             /\ h # g => giver'[h] = giver[h]
        /\ \A a \in Accounts : giver'[g].answer[a] = IF a \in S THEN NumberOf(a) ELSE 0
    BY <1>0, <1>4 DEF Ensure, NoGiver
  <2>2. GivenOnce'
    BY <2>1 DEF AnswerInv, GivenOnce
  <2>3. NoneHasNone'
    BY <2>1 DEF AnswerInv, NoneHasNone
  <2>4. AnswerIsNumber'
    BY <2>1 DEF AnswerInv, AnswerIsNumber, NumberOf
  <2> QED  BY <2>2, <2>3, <2>4 DEF AnswerInv
<1>5. ASSUME NEW g \in Givers, NEW a \in Accounts, Give(g, a) PROVE AnswerInv'
  <2>1. CASE RollbackGiver(g)
    BY <1>5, <2>1, RollbackKeeps DEF Give
  <2>2. CASE giver' = [giver EXCEPT ![g].todo = @ \ {a}, ![g].given[a] = NextVal,
                                    ![g].answer[a] = NextVal]
    <3>1. /\ account' = account /\ byHand' = byHand /\ giver[g].pc = "give"
          /\ account[a].state = "row" /\ account[a].number = 0
          /\ \A h \in Givers : giver[h].given[a] = 0
      BY <1>5 DEF Give, NumberOf, LockedRow
    <3>2. \A h \in Givers, b \in Accounts :
             /\ giver'[h].given[b] = IF h = g /\ b = a THEN seq ELSE giver[h].given[b]
             /\ giver'[h].answer[b] = IF h = g /\ b = a THEN seq ELSE giver[h].answer[b]
             /\ giver'[h].pc = giver[h].pc
      BY <1>0, <2>2 DEF Giver, NextVal
    <3>3. GivenOnce'
      BY <1>0, <3>1, <3>2 DEF AnswerInv, GivenOnce
    <3>4. NoneHasNone'
      BY <3>1, <3>2 DEF AnswerInv, NoneHasNone
    <3>5. AnswerIsNumber'
      BY <1>0, <3>1, <3>2 DEF AnswerInv, AnswerIsNumber
    <3> QED  BY <3>3, <3>4, <3>5 DEF AnswerInv
  <2> QED  BY <1>5, <2>1, <2>2 DEF Give
<1>6. ASSUME NEW g \in Givers, NEW a \in Accounts, GivenMeanwhile(g, a) PROVE AnswerInv'
  <2>1. CASE RollbackGiver(g)
    BY <1>6, <2>1, RollbackKeeps DEF GivenMeanwhile
  <2>2. CASE /\ NumberOf(a) # 0
             /\ giver' = [giver EXCEPT ![g].todo = @ \ {a}, ![g].answer[a] = NumberOf(a)]
    <3>1. /\ account' = account /\ byHand' = byHand
          /\ account[a].state = "row" /\ NumberOf(a) = account[a].number
          /\ \A h \in Givers : giver[h].given[a] = 0
      BY <1>6, <2>2 DEF GivenMeanwhile, NumberOf, LockedRow
    <3>2. \A h \in Givers, b \in Accounts :
             /\ giver'[h].given[b] = giver[h].given[b]
             /\ giver'[h].answer[b] = IF h = g /\ b = a THEN NumberOf(a) ELSE giver[h].answer[b]
             /\ giver'[h].pc = giver[h].pc
      BY <1>0, <2>2 DEF Giver
    <3>3. GivenOnce'
      BY <3>1, <3>2 DEF AnswerInv, GivenOnce
    <3>4. NoneHasNone'
      BY <3>1, <3>2 DEF AnswerInv, NoneHasNone
    <3>5. AnswerIsNumber'
      BY <3>1, <3>2 DEF AnswerInv, AnswerIsNumber
    <3> QED  BY <3>3, <3>4, <3>5 DEF AnswerInv
  <2> QED  BY <1>6, <2>1, <2>2 DEF GivenMeanwhile
<1>7. ASSUME NEW g \in Givers, CommitGiver(g) PROVE AnswerInv'
  <2>1. /\ byHand' = byHand
        /\ \A a \in Accounts :
             /\ account'[a].state = account[a].state
             /\ account'[a].number = IF giver[g].given[a] # 0 THEN giver[g].given[a]
                                     ELSE account[a].number
    BY <1>0, <1>7 DEF CommitGiver, AccountRow
  <2>2. \A h \in Givers, a \in Accounts :
           /\ giver'[h].given[a] = IF h = g THEN 0 ELSE giver[h].given[a]
           /\ giver'[h].answer[a] = giver[h].answer[a]
           /\ giver'[h].pc = IF h = g THEN "answered" ELSE giver[h].pc
    BY <1>0, <1>7 DEF CommitGiver, Giver
  <2>3. GivenOnce'
    BY <2>1, <2>2 DEF AnswerInv, GivenOnce
  <2>4. NoneHasNone'
    BY <2>1, <2>2 DEF AnswerInv, GivenOnce, NoneHasNone
  <2>5. AnswerIsNumber'
    BY <2>1, <2>2 DEF AnswerInv, GivenOnce, AnswerIsNumber
  <2> QED  BY <2>3, <2>4, <2>5 DEF AnswerInv
<1>8. ASSUME NEW g \in Givers, GiverEnds(g) PROVE AnswerInv'
  BY <1>8, RollbackKeeps DEF GiverEnds
<1>9. ASSUME UNCHANGED <<account, giver, byHand>> PROVE AnswerInv'
  BY <1>9 DEF AnswerInv, GivenOnce, NoneHasNone, AnswerIsNumber
<1>10. ASSUME NEW s \in Starters,
              TakeInitLock(s) \/ CheckBehind(s) \/ LockTable(s) \/ LockTimesOut(s) \/ SetSequence(s)
       PROVE  UNCHANGED <<account, giver, byHand>>
  BY <1>10 DEF TakeInitLock, CheckBehind, LockTable, LockTimesOut, SetSequence
<1> QED
  BY <1>1, <1>2, <1>3, <1>4, <1>5, <1>6, <1>7, <1>8, <1>9, <1>10 DEF UnixNext, unixVars

\* Requests that number the same rows at the same time, and start-ups in between, leave one
\* number for a row and one row for a number.
THEOREM NumbersRight == UnixSpec => []NumbersAreRight
<1>1. UnixInit => AnswerInv
  BY DEF UnixInit, NoGiver, AnswerInv, GivenOnce, NoneHasNone, AnswerIsNumber
<1>2. AnswerInv => AnswersAgree
  <2> SUFFICES ASSUME AnswerInv, byHand = 0, NEW g \in Givers, giver[g].pc = "answered",
                      NEW a \in Accounts, giver[g].answer[a] # 0, account[a].state = "row"
               PROVE  account[a].number = giver[g].answer[a]
    BY DEF AnswersAgree
  <2>1. giver[g].given[a] = 0
    BY DEF AnswerInv, GivenOnce
  <2> QED  BY <2>1 DEF AnswerInv, AnswerIsNumber
<1> QED  BY <1>1, <1>2, TypeInit, TypeNext, AnswerStep, NumbersForLife, PTL
         DEF UnixSpec, NumbersAreRight

-----------------------------------------------------------------------------
(* Logins                                                                  *)

TokenRec == [kind : {"none", "access", "refresh"}, sub : Holders \cup {NoHolder}, exp : Nat]
KeyRec == [state : {"row", "gone"}, on : BOOLEAN, owner : Holders, expires : Nat]
CallRec == [pc : {"idle", "blacklist", "user", "mint", "accepted", "revoke"},
            kind : {"none", "use", "refresh", "key", "logout"},
            tokens : SUBSET Tokens, left : SUBSET Tokens, sub : Holders \cup {NoHolder},
            barred : BOOLEAN, shut : BOOLEAN]

LoginTypeInv ==
  /\ tick \in 0..MaxTick /\ made \in 0..LastToken
  /\ edits \in 0..MaxUserEdits /\ redisFaults \in 0..MaxRedisFaults
  /\ holder \in [Holders -> {"active", "closed", "gone"}]
  /\ token \in [Tokens -> TokenRec]
  /\ black \in [Tokens -> Nat]
  /\ key \in [Keys -> KeyRec]
  /\ call \in [Calls -> CallRec]
  /\ revoked \subseteq 1..made

\* Tokens are made in order, have a user, and nobody revokes one that is not made.
MadeInv ==
  /\ \A t \in Tokens : token[t].kind = "none" <=> t > made
  /\ \A t \in Tokens : t <= made => token[t].sub \in Holders
  /\ \A t \in Tokens : t > made => black[t] = 0
  /\ \A c \in Calls : call[c].left \subseteq call[c].tokens /\ call[c].tokens \subseteq 1..made

\* An entry of the blacklist ends within the margin and a second of its token.
EntryInv == \A t \in Tokens : Good(t) => black[t] <= token[t].exp + 2 * Margin + 1

\* The entry of a token outlasts its signature.
Covered(t) == black[t] > token[t].exp + 1

\* A token that is still good has such an entry once its logout was answered, and from its turn in
\* a logout under way on.
CoverInv ==
  /\ \A t \in revoked : Good(t) => Covered(t)
  /\ \A c \in Calls : call[c].pc = "revoke" =>
       \A t \in call[c].tokens \ call[c].left : Good(t) => Covered(t)

\* A call with a revoked token is still to ask the blacklist, at the instant it began.
BarredInv ==
  \A c \in Calls :
    /\ call[c].pc = "blacklist" => call[c].kind \in {"use", "refresh"}
    /\ call[c].barred => /\ call[c].pc = "blacklist"
                         /\ \E t \in call[c].tokens : t \in revoked /\ Good(t)

\* A call that began when its user was shut out has a user who is, or looks at none.
ShutInv ==
  \A c \in Calls :
    /\ call[c].pc \in {"blacklist", "user", "mint"} => call[c].sub \in Holders
    /\ call[c].shut => call[c].sub \in Holders /\ holder[call[c].sub] # "active"
    /\ call[c].pc = "mint" => call[c].kind = "refresh"
    /\ call[c].pc = "accepted" /\ call[c].shut => call[c].kind = "refresh"

SessionInv == LoginTypeInv /\ MadeInv /\ EntryInv /\ CoverInv /\ BarredInv /\ ShutInv

-----------------------------------------------------------------------------
(* Arithmetic of the expiry and of the time to live                        *)

\* Doubling a half rounded up adds one at most.
LEMMA Halves ==
    ASSUME NEW n \in Nat
    PROVE  2 * (n \div 2) \in Nat /\ 2 * (n \div 2) <= n /\ 2 * (n \div 2) >= n - 1
<1>1. n \div 2 \in Nat /\ n = 2 * (n \div 2) + (n % 2) /\ n % 2 \in {0, 1}
  OBVIOUS
<1> QED  BY <1>1

LEMMA LivesAreNat == AccessLife \in Nat /\ RefreshLife \in Nat /\ MaxTick \in Nat
                     /\ LastToken \in Nat /\ Margin \in Nat /\ Margin >= 1
BY SessionAssumption

LEMMA ExpiresIsNat ==
    ASSUME NEW life \in Nat, tick \in Nat
    PROVE  Expires(life) \in Nat
BY Halves DEF Expires, Second

\* The time to live ends later than the second of the expiry, and within the margin of it.
LEMMA TtlCovers ==
    ASSUME NEW t \in Tokens, LoginTypeInv
    PROVE  /\ tick + Ttl(t) \in Nat
           /\ tick + Ttl(t) > token[t].exp + 1
           /\ Good(t) => tick + Ttl(t) <= token[t].exp + 2 * Margin + 1
<1>1. PICK e \in Nat : e = token[t].exp
  BY DEF LoginTypeInv, TokenRec
<1>2. PICK n \in Nat : n = tick
  BY LivesAreNat DEF LoginTypeInv
<1>3. CASE e > n
  <2>1. e - n + 1 \in Nat
    BY <1>3
  <2>2. PICK h \in Nat : h = 2 * ((e - n + 1) \div 2)
    BY <2>1, Halves
  <2>3. h <= e - n + 1 /\ h >= e - n
    BY <2>1, <2>2, Halves
  <2>4. Ttl(t) = h + 2 * Margin
    BY <1>1, <1>2, <1>3, <2>2 DEF Ttl
  <2> QED  BY <1>1, <1>2, <1>3, <2>3, <2>4, LivesAreNat
<1>4. CASE ~(e > n)
  <2>1. Ttl(t) = 2 * Margin
    BY <1>1, <1>2, <1>4, LivesAreNat DEF Ttl
  <2> QED  BY <1>1, <1>2, <1>4, <2>1, LivesAreNat DEF Good, GoodAt
<1> QED  BY <1>3, <1>4

-----------------------------------------------------------------------------
(* Types of logins                                                         *)

LEMMA NoCallTyped == NoCall \in CallRec
BY DEF NoCall, CallRec

LEMMA LoginTypeInit == SessionInit => LoginTypeInv
<1> SUFFICES ASSUME SessionInit PROVE LoginTypeInv
  OBVIOUS
<1>1. NoToken \in TokenRec
  BY DEF NoToken, TokenRec
<1>2. key \in [Keys -> KeyRec]
  BY LivesAreNat DEF SessionInit, KeyRec
<1>3. MaxUserEdits \in Nat /\ MaxRedisFaults \in Nat
  BY SessionAssumption
<1> QED  BY <1>1, <1>2, <1>3, NoCallTyped, LivesAreNat DEF SessionInit, LoginTypeInv

\* What an action makes of the calls.
LEMMA CallsTyped ==
    ASSUME LoginTypeInv, MadeInv, SessionNext
    PROVE  call' \in [Calls -> CallRec]
<1>a. call \in [Calls -> CallRec] /\ Requests \subseteq Calls /\ Logouts \subseteq Calls
  BY DEF LoginTypeInv, Calls
<1>b. ASSUME NEW c \in Calls, Closing(c) PROVE call' \in [Calls -> CallRec]
  BY <1>a, <1>b, NoCallTyped DEF Closing
<1>c. ASSUME NEW c \in Calls, NEW pc \in {"user", "mint", "accepted"}, Step(c, pc)
      PROVE  call' \in [Calls -> CallRec]
  BY <1>a, <1>c DEF Step, CallRec
<1>1. ASSUME NEW c \in Requests, NEW t \in Tokens, BeginWith(c, t)
      PROVE  call' \in [Calls -> CallRec]
  <2>1. (t \in revoked) \in BOOLEAN /\ (holder[token[t].sub] # "active") \in BOOLEAN
    OBVIOUS
  <2>2. token[t].sub \in Holders \cup {NoHolder}
    BY DEF LoginTypeInv, TokenRec
  <2>3. PICK k \in {"use", "refresh"} : k = IF token[t].kind = "access" THEN "use" ELSE "refresh"
    OBVIOUS
  <2>4. ASSUME NEW x \in BOOLEAN, NEW y \in BOOLEAN
        PROVE  [NoCall EXCEPT !.pc = "blacklist", !.tokens = {t}, !.sub = token[t].sub,
                  !.kind = k, !.barred = x, !.shut = y] \in CallRec
    BY <2>2 DEF NoCall, CallRec
  <2>5. [NoCall EXCEPT !.pc = "blacklist", !.tokens = {t}, !.sub = token[t].sub,
           !.kind = k, !.barred = t \in revoked, !.shut = holder[token[t].sub] # "active"]
          \in CallRec
    BY <2>1, <2>4
  <2>6. call' = [call EXCEPT ![c] =
          [NoCall EXCEPT !.pc = "blacklist", !.tokens = {t}, !.sub = token[t].sub,
             !.kind = k, !.barred = t \in revoked, !.shut = holder[token[t].sub] # "active"]]
    BY <1>1, <2>3 DEF BeginWith, Begin
  <2> QED  BY <1>a, <2>5, <2>6
<1>2. ASSUME NEW c \in Requests, NEW k \in Keys, BeginWithKey(c, k)
      PROVE  call' \in [Calls -> CallRec]
  <2>1. key[k].owner \in Holders
    BY DEF LoginTypeInv, KeyRec
  <2>2. (holder[key[k].owner] # "active") \in BOOLEAN
    OBVIOUS
  <2>3. ASSUME NEW y \in BOOLEAN
        PROVE  [NoCall EXCEPT !.pc = "user", !.kind = "key", !.sub = key[k].owner, !.shut = y]
                 \in CallRec
    BY <2>1 DEF NoCall, CallRec
  <2>4. [NoCall EXCEPT !.pc = "user", !.kind = "key", !.sub = key[k].owner,
           !.shut = holder[key[k].owner] # "active"] \in CallRec
    BY <2>2, <2>3
  <2> QED  BY <1>2, <1>a, <2>4 DEF BeginWithKey, Begin
<1>3. ASSUME NEW c \in Logouts, NEW T \in SUBSET Tokens, SignOut(c, T)
      PROVE  call' \in [Calls -> CallRec]
  <2>1. [NoCall EXCEPT !.pc = "revoke", !.kind = "logout", !.tokens = T, !.left = T] \in CallRec
    BY DEF NoCall, CallRec
  <2> QED  BY <1>3, <1>a, <2>1 DEF SignOut, Begin
<1>4. ASSUME NEW c \in Logouts, NEW t \in Tokens, Revoke(c, t) PROVE call' \in [Calls -> CallRec]
  BY <1>4, <1>a DEF Revoke, CallRec
<1>5. ASSUME NEW u \in Holders, OpenHolder(u) PROVE call' \in [Calls -> CallRec]
  <2>1. \A c \in Calls : [call[c] EXCEPT !.shut = FALSE] \in CallRec
    BY <1>a DEF CallRec
  <2> QED  BY <1>5, <1>a, <2>1 DEF OpenHolder
<1>6. ASSUME RedisCrash PROVE call' \in [Calls -> CallRec]
  <2>1. ASSUME NEW c \in Calls, NEW T \in SUBSET Tokens
        PROVE [call[c] EXCEPT !.barred = FALSE, !.tokens = T] \in CallRec
    BY <1>a DEF CallRec
  <2>2. \A c \in Calls : call[c].left \in SUBSET Tokens /\ call[c].tokens \in SUBSET Tokens
    BY <1>a DEF CallRec
  <2>3. \A c \in Calls : [call[c] EXCEPT !.barred = FALSE, !.tokens =
                           IF call[c].pc = "revoke" THEN call[c].left ELSE call[c].tokens] \in CallRec
    BY <2>1, <2>2
  <2>4. call' = [c \in Calls |-> [call[c] EXCEPT !.barred = FALSE, !.tokens =
                           IF call[c].pc = "revoke" THEN call[c].left ELSE call[c].tokens]]
    BY <1>6, <1>a DEF RedisCrash, CallRec
  <2> QED  BY <2>3, <2>4
<1>7. ASSUME NEW c \in Requests, AskBlacklist(c) PROVE call' \in [Calls -> CallRec]
  <2>1. Closing(c) \/ \E pc \in {"user", "mint"} : Step(c, pc)
    BY <1>7 DEF AskBlacklist
  <2> QED  BY <1>a, <1>b, <1>c, <2>1
<1>8. ASSUME NEW c \in Requests, RedisSilent(c) \/ MintAccess(c) \/ FindUser(c) \/ EndCall(c)
      PROVE  call' \in [Calls -> CallRec]
  <2>1. Closing(c) \/ Step(c, "accepted")
    BY <1>8 DEF RedisSilent, MintAccess, FindUser, EndCall
  <2> QED  BY <1>a, <1>b, <1>c, <2>1
<1>9. ASSUME NEW c \in Logouts, AnswerSignOut(c) PROVE call' \in [Calls -> CallRec]
  BY <1>a, <1>b, <1>9 DEF AnswerSignOut
<1>10. ASSUME UNCHANGED call PROVE call' \in [Calls -> CallRec]
  BY <1>10, <1>a
<1>11. /\ TickOn => UNCHANGED call
       /\ \A u \in Holders : SignIn(u) \/ CloseHolder(u) => UNCHANGED call
       /\ \A k \in Keys : DeleteKey(k) => UNCHANGED call
       /\ \A e : \A k \in Keys, on \in BOOLEAN : UpdateKey(k, on, e) => UNCHANGED call
  BY DEF TickOn, SignIn, CloseHolder, DeleteKey, UpdateKey
<1> QED
  BY <1>1, <1>2, <1>3, <1>4, <1>5, <1>6, <1>7, <1>8, <1>9, <1>10, <1>11 DEF SessionNext

-----------------------------------------------------------------------------
(* What an action changes                                                  *)

\* Which actions change the time, the tokens, Redis, the history and the users.
LEMMA Frames ==
    ASSUME [SessionNext]_sessionVars
    PROVE  /\ TickOn \/ tick' = tick
           /\ \/ \E u \in Holders : SignIn(u)
              \/ \E c \in Requests : MintAccess(c)
              \/ token' = token /\ made' = made
           /\ TickOn \/ RedisCrash \/ (\E c \in Logouts, t \in Tokens : Revoke(c, t)) \/ black' = black
           /\ TickOn \/ RedisCrash \/ (\E c \in Logouts : AnswerSignOut(c)) \/ revoked' = revoked
           /\ (\E u \in Holders : CloseHolder(u) \/ OpenHolder(u)) \/ holder' = holder
BY DEF SessionNext, sessionVars, TickOn, RedisCrash, SignIn, CloseHolder, OpenHolder, AskBlacklist,
       RedisSilent, MintAccess, FindUser, EndCall, BeginWith, BeginWithKey, SignOut, AnswerSignOut,
       Revoke, DeleteKey, UpdateKey, redisVars

\* Tokens that are made stay as they are, and new ones have a kind and a user.
LEMMA TokensKept ==
    ASSUME LoginTypeInv, MadeInv, ShutInv, [SessionNext]_sessionVars
    PROVE  /\ token' \in [Tokens -> TokenRec] /\ made' \in 0..LastToken /\ made' >= made
           /\ \A t \in Tokens : t <= made \/ t > made' => token'[t] = token[t]
           /\ \A t \in Tokens : t > made /\ t <= made' =>
                token'[t].kind # "none" /\ token'[t].sub \in Holders
<1>a. /\ token \in [Tokens -> TokenRec] /\ made \in 0..LastToken /\ tick \in Nat
      /\ made \in Nat /\ LastToken \in Nat /\ Tokens = 1..LastToken
  BY LivesAreNat DEF LoginTypeInv, Tokens
<1>b. Expires(AccessLife) \in Nat /\ Expires(RefreshLife) \in Nat
  BY <1>a, LivesAreNat, ExpiresIsNat
<1>c. \A u \in Holders : [kind |-> "access", sub |-> u, exp |-> Expires(AccessLife)] \in TokenRec
                      /\ [kind |-> "refresh", sub |-> u, exp |-> Expires(RefreshLife)] \in TokenRec
  BY <1>b DEF TokenRec
<1>1. CASE \E u \in Holders : SignIn(u)
  <2>1. PICK u \in Holders : SignIn(u)
    BY <1>1
  <2>2. PICK a \in TokenRec : a = [kind |-> "access", sub |-> u, exp |-> Expires(AccessLife)]
    BY <1>c
  <2>3. PICK b \in TokenRec : b = [kind |-> "refresh", sub |-> u, exp |-> Expires(RefreshLife)]
    BY <1>c
  <2>4. token' = [[token EXCEPT ![made + 1] = a] EXCEPT ![made + 2] = b]
    BY <2>1, <2>2, <2>3 DEF SignIn, Mint
  <2>5. made' = made + 2 /\ made + 2 <= LastToken
    BY <2>1 DEF SignIn
  <2>6. a.kind # "none" /\ a.sub \in Holders /\ b.kind # "none" /\ b.sub \in Holders
    BY <2>2, <2>3
  <2>7. made + 1 \in Tokens /\ made + 2 \in Tokens /\ made + 1 # made + 2
    BY <1>a, <2>5
  <2>8. \A t \in Tokens : token'[t] = IF t = made + 2 THEN b ELSE IF t = made + 1 THEN a ELSE token[t]
    BY <1>a, <2>4
  <2>9. token' \in [Tokens -> TokenRec]
    BY <1>a, <2>4
  <2>10. \A t \in Tokens : t > made /\ t <= made' => t = made + 1 \/ t = made + 2
    BY <1>a, <2>5
  <2>11. \A t \in Tokens : t <= made \/ t > made' => t # made + 1 /\ t # made + 2
    BY <1>a, <2>5
  <2> QED  BY <1>a, <2>5, <2>6, <2>8, <2>9, <2>10, <2>11
<1>2. CASE \E c \in Requests : MintAccess(c)
  <2>1. PICK c \in Requests : MintAccess(c)
    BY <1>2
  <2>2. call[c].sub \in Holders \cup {NoHolder}
    BY DEF LoginTypeInv, CallRec, Calls
  <2>3. call[c].sub \in Holders
    BY <2>1 DEF MintAccess, ShutInv, Calls
  <2>4. PICK a \in TokenRec : a = [kind |-> "access", sub |-> call[c].sub, exp |-> Expires(AccessLife)]
    BY <1>c, <2>3
  <2>5. token' = [token EXCEPT ![made + 1] = a] /\ made' = made + 1 /\ made < LastToken
    BY <2>1, <2>4 DEF MintAccess, Mint
  <2>6. made + 1 \in Tokens /\ a.kind # "none" /\ a.sub \in Holders
    BY <1>a, <2>3, <2>4, <2>5
  <2> QED  BY <1>a, <2>5, <2>6
<1>3. CASE token' = token /\ made' = made
  BY <1>a, <1>3
<1> QED  BY <1>1, <1>2, <1>3, Frames

LEMMA LoginTypeNext == LoginTypeInv /\ MadeInv /\ ShutInv /\ [SessionNext]_sessionVars => LoginTypeInv'
<1> SUFFICES ASSUME LoginTypeInv, MadeInv, ShutInv, [SessionNext]_sessionVars PROVE LoginTypeInv'
  OBVIOUS
<1>a. /\ MaxTick \in Nat /\ MaxUserEdits \in Nat /\ MaxRedisFaults \in Nat /\ tick \in Nat
      /\ tick \in 0..MaxTick /\ made \in Nat
  BY SessionAssumption DEF LoginTypeInv
<1>1. token' \in [Tokens -> TokenRec] /\ made' \in 0..LastToken /\ made' >= made
  BY TokensKept
<1>2. tick' \in 0..MaxTick
  BY <1>a, Frames DEF TickOn
<1>3. call' \in [Calls -> CallRec]
  BY CallsTyped DEF sessionVars, LoginTypeInv
<1>4. black' \in [Tokens -> Nat]
  <2>1. ASSUME NEW c \in Logouts, NEW t \in Tokens, Revoke(c, t) PROVE black' \in [Tokens -> Nat]
    BY <2>1, TtlCovers DEF Revoke, LoginTypeInv
  <2>2. ASSUME TickOn PROVE black' \in [Tokens -> Nat]
    BY <2>2 DEF TickOn, LoginTypeInv
  <2>3. ASSUME RedisCrash PROVE black' \in [Tokens -> Nat]
    BY <2>3 DEF RedisCrash
  <2>4. black \in [Tokens -> Nat]
    BY DEF LoginTypeInv
  <2> QED  BY <2>1, <2>2, <2>3, <2>4, Frames
<1>5. revoked' \subseteq 1..made'
  <2>1. revoked \subseteq 1..made /\ 1..made \subseteq 1..made'
    BY <1>a, <1>1 DEF LoginTypeInv
  <2>2. ASSUME NEW c \in Logouts, AnswerSignOut(c) PROVE revoked' \subseteq 1..made
    BY <2>1, <2>2 DEF AnswerSignOut, MadeInv, Calls
  <2>3. TickOn \/ RedisCrash => revoked' \subseteq revoked
    BY DEF TickOn, RedisCrash
  <2> QED  BY <2>1, <2>2, <2>3, Frames
<1>6. holder' \in [Holders -> {"active", "closed", "gone"}]
  BY Frames DEF LoginTypeInv, CloseHolder, OpenHolder
<1>7. key' \in [Keys -> KeyRec]
  <2>1. key \in [Keys -> KeyRec]
    BY DEF LoginTypeInv
  <2>2. \A k \in Keys : [key[k] EXCEPT !.state = "gone"] \in KeyRec
    BY <2>1 DEF KeyRec
  <2>3. ASSUME NEW u \in Holders, CloseHolder(u) PROVE key' \in [Keys -> KeyRec]
    BY <2>1, <2>2, <2>3 DEF CloseHolder
  <2>4. ASSUME NEW k \in Keys, DeleteKey(k) PROVE key' \in [Keys -> KeyRec]
    BY <2>1, <2>2, <2>4 DEF DeleteKey
  <2>5. ASSUME NEW k \in Keys, NEW on \in BOOLEAN, NEW e \in Nat, UpdateKey(k, on, e)
        PROVE  key' \in [Keys -> KeyRec]
    <3>1. key' = [key EXCEPT ![k] = [key[k] EXCEPT !.on = on, !.expires = e]]
      BY <2>1, <2>5 DEF UpdateKey
    <3>2. [key[k] EXCEPT !.on = on, !.expires = e] \in KeyRec
      BY <2>1 DEF KeyRec
    <3> QED  BY <2>1, <3>1, <3>2
  <2>6. \A on \in BOOLEAN : (IF on THEN 0 ELSE MaxTick) \in Nat
    BY <1>a
  <2>7. \/ key' = key \/ (\E u \in Holders : CloseHolder(u)) \/ (\E k \in Keys : DeleteKey(k))
        \/ \E k \in Keys, on \in BOOLEAN : UpdateKey(k, on, IF on THEN 0 ELSE MaxTick)
    BY DEF SessionNext, sessionVars, TickOn, RedisCrash, SignIn, OpenHolder, AskBlacklist,
           RedisSilent, MintAccess, FindUser, EndCall, BeginWith, BeginWithKey, SignOut,
           AnswerSignOut, Revoke
  <2> QED  BY <2>1, <2>3, <2>4, <2>5, <2>6, <2>7
<1>8. edits' \in 0..MaxUserEdits
  <2>1. edits' = edits \/ Edited
    BY DEF SessionNext, sessionVars, TickOn, RedisCrash, SignIn, CloseHolder, OpenHolder,
           AskBlacklist, RedisSilent, MintAccess, FindUser, EndCall, BeginWith, BeginWithKey,
           SignOut, AnswerSignOut, Revoke, DeleteKey, UpdateKey
  <2> QED  BY <1>a, <2>1 DEF Edited, LoginTypeInv
<1>9. redisFaults' \in 0..MaxRedisFaults
  <2>1. redisFaults' = redisFaults \/ RedisFault
    BY DEF SessionNext, sessionVars, TickOn, RedisCrash, SignIn, CloseHolder, OpenHolder,
           AskBlacklist, RedisSilent, MintAccess, FindUser, EndCall, BeginWith, BeginWithKey,
           SignOut, AnswerSignOut, Revoke, DeleteKey, UpdateKey, redisVars
  <2> QED  BY <1>a, <2>1 DEF RedisFault, LoginTypeInv
<1> QED  BY <1>1, <1>2, <1>3, <1>4, <1>5, <1>6, <1>7, <1>8, <1>9 DEF LoginTypeInv

-----------------------------------------------------------------------------
(* Calls                                                                   *)

\* A call that an action does not touch but for what is named.
Keeps(c) == /\ call'[c].tokens = call[c].tokens /\ call'[c].sub = call[c].sub
            /\ call'[c].kind = call[c].kind /\ call'[c].barred = call[c].barred

\* How a call goes on.
LEMMA Moves ==
    ASSUME LoginTypeInv, [SessionNext]_sessionVars, NEW c \in Calls
    PROVE  \/ call'[c] = call[c]
           \/ call'[c] = NoCall
           \/ /\ AskBlacklist(c) /\ Keeps(c)
              /\ call'[c].left = call[c].left /\ call'[c].shut = call[c].shut
              /\ call'[c].pc = IF call[c].kind = "use" THEN "user" ELSE "mint"
              /\ ~(call[c].kind \in Asked /\ \E t \in call[c].tokens : Blacklisted(t))
           \/ /\ FindUser(c) \/ MintAccess(c)
              /\ Keeps(c) /\ call'[c].left = call[c].left /\ call'[c].shut = call[c].shut
              /\ call'[c].pc = "accepted" /\ (FindUser(c) => Found(call[c].sub))
           \/ \E t \in Tokens :
                /\ BeginWith(c, t)
                /\ call'[c].pc = "blacklist" /\ call'[c].kind \in {"use", "refresh"}
                /\ call'[c].tokens = {t} /\ call'[c].left = {} /\ call'[c].sub = token[t].sub
                /\ call'[c].barred => t \in revoked
                /\ call'[c].shut => holder[token[t].sub] # "active"
           \/ \E k \in Keys :
                /\ BeginWithKey(c, k)
                /\ call'[c].pc = "user" /\ call'[c].tokens = {} /\ call'[c].left = {}
                /\ call'[c].sub = key[k].owner /\ ~call'[c].barred
                /\ call'[c].shut => holder[key[k].owner] # "active"
           \/ \E T \in SUBSET Tokens :
                /\ SignOut(c, T)
                /\ call'[c].pc = "revoke" /\ call'[c].tokens = T /\ call'[c].left = T
                /\ ~call'[c].barred /\ ~call'[c].shut
           \/ \E t \in Tokens :
                /\ Revoke(c, t) /\ Keeps(c) /\ c \in Logouts
                /\ call'[c].pc = call[c].pc /\ call'[c].shut = call[c].shut
                /\ call'[c].left = call[c].left \ {t}
           \/ /\ OpenHolder(call[c].sub) /\ call[c].sub \in Holders /\ Keeps(c)
              /\ call'[c].pc = call[c].pc /\ call'[c].left = call[c].left /\ ~call'[c].shut
           \/ /\ RedisCrash
              /\ call'[c].pc = call[c].pc /\ call'[c].left = call[c].left
              /\ call'[c].sub = call[c].sub /\ call'[c].kind = call[c].kind
              /\ call'[c].shut = call[c].shut /\ ~call'[c].barred
              /\ call'[c].tokens = IF call[c].pc = "revoke" THEN call[c].left ELSE call[c].tokens
<1>a. call \in [Calls -> CallRec] /\ Requests \subseteq Calls /\ Logouts \subseteq Calls
  BY DEF LoginTypeInv, Calls
<1>b. ASSUME NEW d \in Calls, Closing(d) PROVE call'[c] = call[c] \/ call'[c] = NoCall
  BY <1>a, <1>b DEF Closing
<1>c. ASSUME NEW pc, NEW d \in Calls, Step(d, pc)
      PROVE  \/ d # c /\ call'[c] = call[c]
             \/ /\ d = c /\ Keeps(c) /\ call'[c].left = call[c].left
                /\ call'[c].shut = call[c].shut /\ call'[c].pc = pc
  BY <1>a, <1>c DEF Step, CallRec, Keeps
<1>1. ASSUME NEW d \in Requests, NEW t \in Tokens, BeginWith(d, t), d = c
      PROVE  /\ call'[c].pc = "blacklist" /\ call'[c].kind \in {"use", "refresh"}
             /\ call'[c].tokens = {t} /\ call'[c].left = {} /\ call'[c].sub = token[t].sub
             /\ call'[c].barred => t \in revoked
             /\ call'[c].shut => holder[token[t].sub] # "active"
  BY <1>a, <1>1 DEF BeginWith, Begin, NoCall
<1>2. ASSUME NEW d \in Requests, NEW k \in Keys, BeginWithKey(d, k), d = c
      PROVE  /\ call'[c].pc = "user" /\ call'[c].tokens = {} /\ call'[c].left = {}
             /\ call'[c].sub = key[k].owner /\ ~call'[c].barred
             /\ call'[c].shut => holder[key[k].owner] # "active"
  BY <1>a, <1>2 DEF BeginWithKey, Begin, NoCall
<1>3. ASSUME NEW d \in Logouts, NEW T \in SUBSET Tokens, SignOut(d, T), d = c
      PROVE  /\ call'[c].pc = "revoke" /\ call'[c].tokens = T /\ call'[c].left = T
             /\ ~call'[c].barred /\ ~call'[c].shut
  BY <1>a, <1>3 DEF SignOut, Begin, NoCall
<1>4. ASSUME NEW d \in Calls, call'[c] # call[c],
             \/ \E t \in Tokens : BeginWith(d, t) \/ Revoke(d, t)
             \/ \E k \in Keys : BeginWithKey(d, k)
             \/ \E T \in SUBSET Tokens : SignOut(d, T)
      PROVE  d = c
  BY <1>a, <1>4 DEF BeginWith, BeginWithKey, SignOut, Begin, Revoke
<1>5. ASSUME NEW d \in Logouts, NEW t \in Tokens, Revoke(d, t), d = c
      PROVE  /\ Keeps(c) /\ call'[c].pc = call[c].pc /\ call'[c].shut = call[c].shut
             /\ call'[c].left = call[c].left \ {t}
  BY <1>a, <1>5 DEF Revoke, Keeps, CallRec
<1>6. ASSUME NEW u \in Holders, OpenHolder(u), call'[c] # call[c]
      PROVE  /\ u = call[c].sub /\ Keeps(c) /\ call'[c].pc = call[c].pc
             /\ call'[c].left = call[c].left /\ ~call'[c].shut
  BY <1>a, <1>6 DEF OpenHolder, Keeps, CallRec
<1>7. ASSUME RedisCrash
      PROVE  /\ call'[c].pc = call[c].pc /\ call'[c].left = call[c].left
             /\ call'[c].sub = call[c].sub /\ call'[c].kind = call[c].kind
             /\ call'[c].shut = call[c].shut /\ ~call'[c].barred
             /\ call'[c].tokens = IF call[c].pc = "revoke" THEN call[c].left ELSE call[c].tokens
  BY <1>a, <1>7 DEF RedisCrash, CallRec
<1>8. ASSUME NEW d \in Requests, AskBlacklist(d), call'[c] # call[c], call'[c] # NoCall
      PROVE  /\ d = c /\ Keeps(c)
             /\ call'[c].left = call[c].left /\ call'[c].shut = call[c].shut
             /\ call'[c].pc = IF call[c].kind = "use" THEN "user" ELSE "mint"
             /\ ~(call[c].kind \in Asked /\ \E t \in call[c].tokens : Blacklisted(t))
  <2>1. ~(call[d].kind \in Asked /\ \E t \in call[d].tokens : Blacklisted(t))
    BY <1>a, <1>b, <1>8 DEF AskBlacklist
  <2>2. Step(d, IF call[d].kind = "use" THEN "user" ELSE "mint")
    BY <1>8, <2>1 DEF AskBlacklist
  <2> QED  BY <1>a, <1>c, <1>8, <2>1, <2>2
<1>9. ASSUME NEW d \in Requests, FindUser(d) \/ MintAccess(d), call'[c] # call[c], call'[c] # NoCall
      PROVE  /\ d = c
             /\ Keeps(c) /\ call'[c].left = call[c].left /\ call'[c].shut = call[c].shut
             /\ call'[c].pc = "accepted" /\ (FindUser(c) => Found(call[c].sub))
  <2>1. Step(d, "accepted") /\ (FindUser(d) => Found(call[d].sub))
    BY <1>a, <1>b, <1>9 DEF FindUser, MintAccess
  <2> QED  BY <1>a, <1>c, <1>9, <2>1
<1>10. ASSUME NEW d \in Calls, RedisSilent(d) \/ EndCall(d) \/ AnswerSignOut(d)
       PROVE  call'[c] = call[c] \/ call'[c] = NoCall
  BY <1>b, <1>10 DEF RedisSilent, EndCall, AnswerSignOut
<1>11. ASSUME \/ TickOn \/ (\E u \in Holders : SignIn(u) \/ CloseHolder(u))
              \/ (\E k \in Keys : DeleteKey(k))
              \/ (\E k \in Keys, on \in BOOLEAN : UpdateKey(k, on, IF on THEN 0 ELSE MaxTick))
              \/ UNCHANGED sessionVars
       PROVE  call' = call
  BY <1>11 DEF TickOn, SignIn, CloseHolder, DeleteKey, UpdateKey, sessionVars
<1> SUFFICES ASSUME call'[c] # call[c], call'[c] # NoCall
             PROVE  \/ AskBlacklist(c) /\ c \in Requests
                    \/ (FindUser(c) \/ MintAccess(c)) /\ c \in Requests
                    \/ \E t \in Tokens : BeginWith(c, t) /\ c \in Requests
                    \/ \E k \in Keys : BeginWithKey(c, k) /\ c \in Requests
                    \/ \E T \in SUBSET Tokens : SignOut(c, T) /\ c \in Logouts
                    \/ \E t \in Tokens : Revoke(c, t) /\ c \in Logouts
                    \/ \E u \in Holders : OpenHolder(u)
                    \/ RedisCrash
  BY <1>1, <1>2, <1>3, <1>5, <1>6, <1>7, <1>8, <1>9
<1> QED
  BY <1>a, <1>4, <1>8, <1>9, <1>10, <1>11 DEF SessionNext

-----------------------------------------------------------------------------
(* The invariants are kept                                                 *)

LEMMA MadeNext ==
    LoginTypeInv /\ MadeInv /\ ShutInv /\ [SessionNext]_sessionVars => MadeInv'
<1> SUFFICES ASSUME LoginTypeInv, MadeInv, ShutInv, [SessionNext]_sessionVars PROVE MadeInv'
  OBVIOUS
<1>a. made \in Nat /\ made' \in Nat /\ made' >= made /\ Tokens \subseteq Nat
  BY TokensKept, LivesAreNat DEF LoginTypeInv, Tokens
<1>1. ASSUME NEW t \in Tokens PROVE token'[t].kind = "none" <=> t > made'
  <2>1. token[t].kind = "none" <=> t > made
    BY DEF MadeInv
  <2>2. t <= made \/ t > made' => token'[t] = token[t]
    BY TokensKept
  <2>3. t > made /\ t <= made' => token'[t].kind # "none"
    BY TokensKept
  <2> QED  BY <1>a, <2>1, <2>2, <2>3
<1>2. \A t \in Tokens : t <= made' => token'[t].sub \in Holders
  BY <1>a, TokensKept DEF MadeInv
<1>3. ASSUME NEW t \in Tokens, t > made' PROVE black'[t] = 0
  <2>1. t > made /\ black[t] = 0
    BY <1>a, <1>3 DEF MadeInv
  <2>2. ASSUME NEW c \in Logouts, NEW s \in Tokens, Revoke(c, s) PROVE black'[t] = 0
    <3>1. s \in 1..made
      BY <2>2 DEF Revoke, MadeInv, Calls
    <3>2. s # t
      BY <1>a, <2>1, <3>1
    <3> QED  BY <2>1, <2>2, <3>2 DEF Revoke, LoginTypeInv
  <2>3. TickOn \/ RedisCrash => black'[t] = 0
    BY <2>1 DEF TickOn, RedisCrash
  <2> QED  BY <2>1, <2>2, <2>3, Frames
<1>4. ASSUME NEW c \in Calls
      PROVE  call'[c].left \subseteq call'[c].tokens /\ call'[c].tokens \subseteq 1..made'
  <2>1. call[c].left \subseteq call[c].tokens /\ call[c].tokens \subseteq 1..made
    BY DEF MadeInv
  <2>2. 1..made \subseteq 1..made'
    BY <1>a
  <2>3. \A t \in Tokens : token[t].kind # "none" => t \in 1..made
    BY <1>a DEF MadeInv, Tokens
  <2> SUFFICES call'[c].left \subseteq call'[c].tokens /\ call'[c].tokens \subseteq 1..made
    BY <2>2
  <2>4. ASSUME NEW t \in Tokens, BeginWith(c, t) PROVE t \in 1..made
    BY <2>3, <2>4 DEF BeginWith
  <2>5. ASSUME NEW T \in SUBSET Tokens, SignOut(c, T) PROVE T \subseteq 1..made
    BY <2>3, <2>5 DEF SignOut
  <2> QED  BY <2>1, <2>4, <2>5, Moves DEF Keeps, NoCall
<1> QED  BY <1>1, <1>2, <1>3, <1>4 DEF MadeInv

\* A token that is made and still good was good before.
LEMMA GoodBefore ==
    ASSUME LoginTypeInv, MadeInv, ShutInv, [SessionNext]_sessionVars, NEW t \in Tokens, t <= made
    PROVE  /\ token'[t] = token[t]
           /\ Good(t)' => Good(t)
           /\ tick' = tick => (Good(t)' <=> Good(t))
<1>1. token'[t] = token[t]
  BY TokensKept
<1>2. PICK e \in Nat : e = token[t].exp
  BY DEF LoginTypeInv, TokenRec
<1>3. PICK n \in Nat : n = tick
  BY LivesAreNat DEF LoginTypeInv
<1>4. tick' = n \/ tick' = n + 1
  BY <1>3, Frames DEF TickOn
<1> QED  BY <1>1, <1>2, <1>3, <1>4 DEF Good, GoodAt

LEMMA EntryNext ==
    LoginTypeInv /\ MadeInv /\ ShutInv /\ EntryInv /\ [SessionNext]_sessionVars => EntryInv'
<1> SUFFICES ASSUME LoginTypeInv, MadeInv, ShutInv, EntryInv, [SessionNext]_sessionVars,
                    NEW t \in Tokens, Good(t)'
             PROVE  black'[t] <= token'[t].exp + 2 * Margin + 1
  BY DEF EntryInv
<1>1. CASE t > made
  <2>0. PICK e \in Nat : e = token'[t].exp
    BY LoginTypeNext DEF LoginTypeInv, TokenRec
  <2>1. black[t] = 0
    BY <1>1 DEF MadeInv
  <2>2. ASSUME NEW c \in Logouts, NEW s \in Tokens, Revoke(c, s) PROVE black'[t] = 0
    <3>1. s \in 1..made /\ made \in Nat
      BY <2>2, LivesAreNat DEF Revoke, MadeInv, Calls, LoginTypeInv
    <3>2. s # t
      BY <1>1, <3>1
    <3> QED  BY <2>1, <2>2, <3>2 DEF Revoke, LoginTypeInv
  <2>3. TickOn \/ RedisCrash => black'[t] = 0
    BY <2>1 DEF TickOn, RedisCrash
  <2>4. black'[t] = 0
    BY <2>1, <2>2, <2>3, Frames
  <2> QED  BY <2>0, <2>4, LivesAreNat
<1>2. CASE ~(t > made)
  <2>1. t <= made
    BY <1>2, LivesAreNat DEF LoginTypeInv, Tokens
  <2>2. token'[t] = token[t] /\ Good(t)
    BY <2>1, GoodBefore
  <2>3. PICK e \in Nat : e = token[t].exp
    BY DEF LoginTypeInv, TokenRec
  <2>4. black[t] <= e + 2 * Margin + 1 /\ black[t] \in Nat
    BY <2>2, <2>3 DEF EntryInv, LoginTypeInv
  <2>5. ASSUME NEW c \in Logouts, NEW s \in Tokens, Revoke(c, s)
        PROVE  black'[t] <= e + 2 * Margin + 1
    <3>1. CASE s = t
      <4>1. black'[t] = tick + Ttl(t)
        BY <2>5, <3>1 DEF Revoke, LoginTypeInv
      <4> QED  BY <2>2, <2>3, <4>1, TtlCovers
    <3>2. CASE s # t
      BY <2>4, <2>5, <3>2 DEF Revoke, LoginTypeInv
    <3> QED  BY <3>1, <3>2
  <2>6. TickOn \/ RedisCrash => black'[t] = black[t] \/ black'[t] = 0
    BY DEF TickOn, RedisCrash
  <2>7. black'[t] = black[t] \/ black'[t] = 0 => black'[t] <= e + 2 * Margin + 1
    BY <2>4, LivesAreNat
  <2> QED  BY <2>2, <2>3, <2>5, <2>6, <2>7, Frames
<1> QED  BY <1>1, <1>2

\* A token that stays good stays covered, but for a crash of Redis.
LEMMA CoverKept ==
    ASSUME LoginTypeInv, MadeInv, ShutInv, [SessionNext]_sessionVars, ~RedisCrash,
           NEW t \in Tokens, t <= made, Good(t)', Covered(t)
    PROVE  Covered(t)'
<1>1. token'[t] = token[t]
  BY GoodBefore
<1>2. PICK e \in Nat : e = token[t].exp
  BY DEF LoginTypeInv, TokenRec
<1>3. black[t] > e + 1 /\ black[t] \in Nat
  BY <1>2 DEF Covered, LoginTypeInv
<1>4. CASE TickOn
  <2>1. PICK n \in Nat : n = tick
    BY LivesAreNat DEF LoginTypeInv
  <2>2. tick' = n + 1 /\ black'[t] = IF black[t] > n + 1 THEN black[t] ELSE 0
    BY <1>4, <2>1 DEF TickOn
  <2>3. n + 1 <= e + 1
    BY <1>1, <1>2, <2>2 DEF Good, GoodAt
  <2> QED  BY <1>1, <1>2, <1>3, <2>2, <2>3 DEF Covered
<1>5. ASSUME NEW c \in Logouts, NEW s \in Tokens, Revoke(c, s) PROVE Covered(t)'
  <2>1. CASE s = t
    <3>1. black'[t] = tick + Ttl(t)
      BY <1>5, <2>1 DEF Revoke, LoginTypeInv
    <3> QED  BY <1>1, <3>1, TtlCovers DEF Covered
  <2>2. CASE s # t
    BY <1>1, <1>5, <2>2 DEF Revoke, LoginTypeInv, Covered
  <2> QED  BY <2>1, <2>2
<1>6. CASE black' = black
  BY <1>1, <1>6 DEF Covered
<1> QED  BY <1>4, <1>5, <1>6, Frames

LEMMA CoverNext ==
    LoginTypeInv /\ MadeInv /\ ShutInv /\ CoverInv /\ [SessionNext]_sessionVars => CoverInv'
<1> SUFFICES ASSUME LoginTypeInv, MadeInv, ShutInv, CoverInv, [SessionNext]_sessionVars PROVE CoverInv'
  OBVIOUS
<1>a. /\ \A t \in 1..made : t \in Tokens /\ t <= made
      /\ \A c \in Calls : call[c].tokens \subseteq 1..made
      /\ revoked \subseteq 1..made
  BY LivesAreNat DEF LoginTypeInv, MadeInv, Tokens
<1>1. CASE RedisCrash
  <2>1. revoked' = {}
    BY <1>1 DEF RedisCrash
  <2>2. ASSUME NEW c \in Calls, call'[c].pc = "revoke" PROVE call'[c].tokens = call'[c].left
    BY <1>1, <2>2 DEF RedisCrash, LoginTypeInv, CallRec
  <2> QED  BY <2>1, <2>2 DEF CoverInv
<1>2. CASE ~RedisCrash
  <2>1. \A t \in 1..made : Good(t)' => Good(t) /\ (Covered(t) => Covered(t)')
    BY <1>2, <1>a, GoodBefore, CoverKept
  <2>2. ASSUME NEW t \in revoked', Good(t)' PROVE Covered(t)'
    <3>1. ASSUME NEW c \in Logouts, AnswerSignOut(c), t \notin revoked
          PROVE  t \in call[c].tokens /\ t \notin call[c].left /\ call[c].pc = "revoke"
      BY <2>2, <3>1 DEF AnswerSignOut
    <3>2. t \in revoked \/ \E c \in Logouts : AnswerSignOut(c)
      BY <1>2, Frames DEF TickOn
    <3>3. t \in 1..made /\ (Good(t) => Covered(t))
      BY <1>a, <3>1, <3>2 DEF CoverInv, Calls
    <3> QED  BY <2>1, <2>2, <3>3
  <2>3. ASSUME NEW c \in Calls, call'[c].pc = "revoke",
               NEW t \in call'[c].tokens \ call'[c].left, Good(t)'
        PROVE  Covered(t)'
    <3>1. ASSUME call[c].pc = "revoke", t \in call[c].tokens \ call[c].left PROVE Covered(t)'
      BY <1>a, <2>1, <2>3, <3>1 DEF CoverInv
    <3>2. ASSUME NEW s \in Tokens, Revoke(c, s), c \in Logouts, s = t PROVE Covered(t)'
      <4>1. black'[t] = tick + Ttl(t) /\ t \in 1..made
        BY <1>a, <3>2 DEF Revoke, LoginTypeInv, MadeInv
      <4>2. token'[t] = token[t]
        BY <1>a, <4>1, GoodBefore
      <4> QED  BY <3>2, <4>1, <4>2, TtlCovers DEF Covered
    <3> QED
      BY <1>2, <2>3, <3>1, <3>2, Moves DEF Keeps, NoCall, OpenHolder, Revoke
  <2> QED  BY <2>2, <2>3 DEF CoverInv
<1> QED  BY <1>1, <1>2

\* An answered logout's token is found on the blacklist.
LEMMA CoveredIsBlack ==
    ASSUME LoginTypeInv, NEW t \in Tokens, Good(t), Covered(t)
    PROVE  Blacklisted(t)
<1>1. PICK e \in Nat : e = token[t].exp
  BY DEF LoginTypeInv, TokenRec
<1> QED  BY <1>1, LivesAreNat DEF Good, GoodAt, Covered, Blacklisted, LoginTypeInv

LEMMA BarredNext ==
    LoginTypeInv /\ MadeInv /\ ShutInv /\ CoverInv /\ BarredInv /\ [SessionNext]_sessionVars
      => BarredInv'
<1> SUFFICES ASSUME LoginTypeInv, MadeInv, ShutInv, CoverInv, BarredInv, [SessionNext]_sessionVars,
                    NEW c \in Calls
             PROVE  /\ call'[c].pc = "blacklist" => call'[c].kind \in {"use", "refresh"}
                    /\ call'[c].barred => /\ call'[c].pc = "blacklist"
                                          /\ \E t \in call'[c].tokens : t \in revoked' /\ Good(t)'
  BY DEF BarredInv
<1>a. /\ \A t \in 1..made : t \in Tokens /\ t <= made
      /\ call[c].tokens \subseteq 1..made /\ revoked \subseteq 1..made
  BY LivesAreNat DEF LoginTypeInv, MadeInv, Tokens
<1>b. /\ call[c].pc = "blacklist" => call[c].kind \in {"use", "refresh"}
      /\ call[c].barred => /\ call[c].pc = "blacklist"
                           /\ \E t \in call[c].tokens : t \in revoked /\ Good(t)
  BY DEF BarredInv
<1>1. CASE TickOn
  BY <1>1, <1>b DEF TickOn
<1>2. CASE RedisCrash
  <2>1. /\ call'[c].pc = call[c].pc /\ call'[c].kind = call[c].kind /\ ~call'[c].barred
    BY <1>2 DEF RedisCrash, LoginTypeInv, CallRec
  <2> QED  BY <1>b, <2>1
<1>3. CASE ~TickOn /\ ~RedisCrash
  <2>1. tick' = tick /\ \A t \in 1..made : Good(t)' <=> Good(t)
    BY <1>3, <1>a, GoodBefore, Frames
  <2>2. revoked \subseteq revoked'
    BY <1>3, Frames DEF AnswerSignOut
  <2>3. (\E t \in call[c].tokens : t \in revoked /\ Good(t))
          => \E t \in call[c].tokens : t \in revoked' /\ Good(t)'
    BY <1>a, <2>1, <2>2
  <2>4. CASE call'[c] = call[c] \/ call'[c] = NoCall
    BY <1>b, <2>3, <2>4 DEF NoCall
  <2>5. CASE /\ AskBlacklist(c) /\ Keeps(c)
             /\ call'[c].pc = IF call[c].kind = "use" THEN "user" ELSE "mint"
             /\ ~(call[c].kind \in Asked /\ \E t \in call[c].tokens : Blacklisted(t))
    <3>1. ~\E t \in call[c].tokens : Blacklisted(t)
      BY <1>b, <2>5 DEF AskBlacklist, Asked
    <3>2. ~\E t \in call[c].tokens : t \in revoked /\ Good(t)
      BY <1>a, <3>1, CoveredIsBlack DEF CoverInv
    <3> QED  BY <1>b, <2>5, <3>2 DEF Keeps
  <2>6. CASE (FindUser(c) \/ MintAccess(c)) /\ Keeps(c) /\ call'[c].pc = "accepted"
    BY <1>b, <2>6 DEF FindUser, MintAccess, Keeps
  <2>7. ASSUME NEW t \in Tokens, BeginWith(c, t), call'[c].barred => t \in revoked,
               call'[c].tokens = {t}
        PROVE  call'[c].barred => \E s \in call'[c].tokens : s \in revoked' /\ Good(s)'
    <3>1. Good(t)
      BY <2>7 DEF BeginWith
    <3> QED  BY <1>a, <2>1, <2>2, <2>7, <3>1
  <2>8. CASE Keeps(c) /\ call'[c].pc = call[c].pc
    BY <1>b, <2>3, <2>8 DEF Keeps
  <2> QED  BY <1>3, <2>4, <2>5, <2>6, <2>7, <2>8, Moves
<1> QED  BY <1>1, <1>2, <1>3

LEMMA ShutNext ==
    LoginTypeInv /\ MadeInv /\ BarredInv /\ ShutInv /\ [SessionNext]_sessionVars => ShutInv'
<1> SUFFICES ASSUME LoginTypeInv, MadeInv, BarredInv, ShutInv, [SessionNext]_sessionVars,
                    NEW c \in Calls
             PROVE  /\ call'[c].pc \in {"blacklist", "user", "mint"} => call'[c].sub \in Holders
                    /\ call'[c].shut => call'[c].sub \in Holders /\ holder'[call'[c].sub] # "active"
                    /\ call'[c].pc = "mint" => call'[c].kind = "refresh"
                    /\ call'[c].pc = "accepted" /\ call'[c].shut => call'[c].kind = "refresh"
  BY DEF ShutInv
<1>b. /\ call[c].pc \in {"blacklist", "user", "mint"} => call[c].sub \in Holders
      /\ call[c].shut => call[c].sub \in Holders /\ holder[call[c].sub] # "active"
      /\ call[c].pc = "mint" => call[c].kind = "refresh"
      /\ call[c].pc = "accepted" /\ call[c].shut => call[c].kind = "refresh"
      /\ call[c].pc = "blacklist" => call[c].kind \in {"use", "refresh"}
  BY DEF ShutInv, BarredInv
<1>c. ASSUME NEW u \in Holders, OpenHolder(u)
      PROVE  /\ call[c].sub = u => ~call'[c].shut
             /\ call[c].sub # u => call'[c] = call[c]
             /\ \A v \in Holders : v # u => holder'[v] = holder[v]
             /\ call'[c].pc = call[c].pc /\ call'[c].sub = call[c].sub /\ call'[c].kind = call[c].kind
  BY <1>c DEF OpenHolder, LoginTypeInv, CallRec
<1>d. ASSUME NEW u \in Holders, CloseHolder(u)
      PROVE  call' = call /\ \A v \in Holders : holder[v] # "active" => holder'[v] # "active"
  BY <1>d DEF CloseHolder, LoginTypeInv
<1>1. CASE \E u \in Holders : OpenHolder(u)
  BY <1>1, <1>b, <1>c
<1>2. CASE \E u \in Holders : CloseHolder(u)
  BY <1>2, <1>b, <1>d
<1>3. CASE ~(\E u \in Holders : OpenHolder(u)) /\ ~(\E u \in Holders : CloseHolder(u))
  <2>1. holder' = holder
    BY <1>3, Frames
  <2>2. CASE call'[c] = call[c] \/ call'[c] = NoCall
    BY <1>b, <2>1, <2>2 DEF NoCall
  <2>3. CASE /\ AskBlacklist(c) /\ Keeps(c) /\ call'[c].shut = call[c].shut
             /\ call'[c].pc = IF call[c].kind = "use" THEN "user" ELSE "mint"
    BY <1>b, <2>1, <2>3 DEF AskBlacklist, Keeps
  <2>4. CASE /\ FindUser(c) \/ MintAccess(c)
             /\ Keeps(c) /\ call'[c].shut = call[c].shut
             /\ call'[c].pc = "accepted" /\ (FindUser(c) => Found(call[c].sub))
    BY <1>b, <2>1, <2>4 DEF FindUser, MintAccess, Found, Keeps
  <2>5. ASSUME NEW t \in Tokens, BeginWith(c, t) PROVE token[t].sub \in Holders
    BY <2>5, LivesAreNat DEF BeginWith, MadeInv, LoginTypeInv, Tokens
  <2>6. \A k \in Keys : key[k].owner \in Holders
    BY DEF LoginTypeInv, KeyRec
  <2>7. CASE \/ \E t \in Tokens :
                  /\ BeginWith(c, t) /\ call'[c].pc = "blacklist" /\ call'[c].sub = token[t].sub
                  /\ call'[c].shut => holder[token[t].sub] # "active"
             \/ \E k \in Keys :
                  /\ call'[c].pc = "user" /\ call'[c].sub = key[k].owner
                  /\ call'[c].shut => holder[key[k].owner] # "active"
    BY <2>1, <2>5, <2>6, <2>7
  <2>8. CASE call'[c].pc = "revoke" /\ ~call'[c].shut
    BY <2>8
  <2>9. CASE /\ call'[c].pc = call[c].pc /\ call'[c].sub = call[c].sub /\ call'[c].kind = call[c].kind
             /\ call'[c].shut = call[c].shut
    BY <1>b, <2>1, <2>9
  <2>10. ~(OpenHolder(call[c].sub) /\ call[c].sub \in Holders)
    BY <1>3
  <2> QED  BY <2>2, <2>3, <2>4, <2>7, <2>8, <2>9, <2>10, Moves DEF Keeps
<1> QED  BY <1>1, <1>2, <1>3

-----------------------------------------------------------------------------
(* Theorems about logins                                                   *)

LEMMA InitRight == SessionInit => SessionInv
<1> SUFFICES ASSUME SessionInit PROVE SessionInv
  OBVIOUS
<1>1. LoginTypeInv
  BY LoginTypeInit
<1>2. \A c \in Calls : call[c] = NoCall
  BY DEF SessionInit
<1>3. \A t \in Tokens : t > made /\ ~(t <= made)
  BY LivesAreNat DEF SessionInit, Tokens
<1>4. MadeInv
  BY <1>2, <1>3 DEF SessionInit, MadeInv, NoToken, NoCall
<1>5. EntryInv
  BY LivesAreNat DEF SessionInit, EntryInv, NoToken
<1>6. CoverInv /\ BarredInv /\ ShutInv
  BY <1>2 DEF SessionInit, CoverInv, BarredInv, ShutInv, NoCall
<1> QED  BY <1>1, <1>4, <1>5, <1>6 DEF SessionInv

\* Everything above holds in every state.
THEOREM SessionInvariant == SessionSpec => []SessionInv
<1>1. SessionInit => SessionInv
  BY InitRight
<1>2. SessionInv /\ [SessionNext]_sessionVars => SessionInv'
  BY LoginTypeNext, MadeNext, EntryNext, CoverNext, BarredNext, ShutNext DEF SessionInv
<1> QED  BY <1>1, <1>2, PTL DEF SessionSpec

\* Every variable has its type, tokens are made in order, an entry of the blacklist ends within
\* the margin and a second of its token, and a logout revokes only what it was given (_revoke).
THEOREM SessionTypes == SessionSpec => []SessionTypeOK
<1>1. SessionInv => SessionTypeOK
  <2> SUFFICES ASSUME SessionInv PROVE SessionTypeOK
    OBVIOUS
  <2>1. \A t \in Tokens : token[t].sub \in Holders \cup {NoHolder}
    BY DEF SessionInv, LoginTypeInv, TokenRec
  <2>2. /\ \A t \in Tokens : token[t].kind = "none" <=> t > made
        /\ \A c \in Calls : call[c].left \subseteq call[c].tokens
        /\ \A t \in Tokens : Good(t) => black[t] <= token[t].exp + 2 * Margin + 1
    BY DEF SessionInv, MadeInv, EntryInv
  <2>3. /\ tick \in 0..MaxTick /\ made \in 0..LastToken
        /\ edits \in 0..MaxUserEdits /\ redisFaults \in 0..MaxRedisFaults
        /\ holder \in [Holders -> {"active", "closed", "gone"}] /\ revoked \subseteq 1..made
    BY DEF SessionInv, LoginTypeInv
  <2> QED  BY <2>1, <2>2, <2>3 DEF SessionTypeOK
<1> QED  BY <1>1, SessionInvariant, PTL

\* Who was shut out stays out, at whatever point time, other logouts, other requests and the
\* administrators come in between: an entry of the blacklist outlives its token, no request with
\* a revoked token and none of a closed user is let in (verify_token, refresh, get_current_user).
THEOREM ShutOut == SessionSpec => []ShutOutStaysOut
<1>1. SessionInv => ShutOutStaysOut
  <2> SUFFICES ASSUME SessionInv PROVE ShutOutStaysOut
    OBVIOUS
  <2>1. \A t \in revoked : t \in Tokens
    BY LivesAreNat DEF SessionInv, LoginTypeInv, Tokens
  <2>2. BlacklistOutlivesToken
    BY <2>1, CoveredIsBlack DEF SessionInv, CoverInv, BlacklistOutlivesToken
  <2>3. RevokedIsRefused
    BY DEF SessionInv, BarredInv, RevokedIsRefused
  <2>4. ClosedIsShut
    BY DEF SessionInv, ShutInv, ClosedIsShut
  <2> QED  BY <2>2, <2>3, <2>4 DEF ShutOutStaysOut
<1> QED  BY <1>1, SessionInvariant, PTL

-----------------------------------------------------------------------------
(* What the drive shows                                                    *)

CallSteps == {"idle", "load", "put", "info", "learn", "reply", "invalidate"}
CallStates == [pc : CallSteps, dir : Dirs \cup {Nowhere}, start : Nat, began : Nat, listed : Nat,
               known : Nat, row : Nat]
Entries == [state : Nat, stamp : Nat]

\* The states of the database, and what was read from them.
HistoryFits ==
  /\ now \in 0..MaxTime
  /\ history \in Seq([row : DocRows, user : Users]) /\ Len(history) \in 1..MaxChanges
  /\ ended \in [1..MaxChanges -> 0..now]

DriveTypes ==
  /\ HistoryFits
  /\ listing \in [Dirs -> Entries] /\ info \in Entries
  /\ op \in [Ops -> CallStates]
  /\ web \in [pc : {"idle", "commit"}, row : DocRows]
  /\ inbox \subseteq Dirs /\ raced \subseteq Dirs
  /\ own \in [Dirs -> 0..Current]

\* A state read at time t: it was the current one then, or later.
ReadAt(s, t) == s \in 1..Current /\ CurrentWithin(s, 0, t)

\* A listing was true at its timestamp.  It is not older than the drive's own last change of the
\* folder, unless a load was under way.
ListingFits(d) ==
  /\ listing[d].state \in 0..Current /\ listing[d].stamp \in 0..now
  /\ listing[d].state # 0 =>
       /\ ReadAt(listing[d].state, listing[d].stamp)
       /\ listing[d].state < own[d] => d \in raced

\* What is known of the user was true at most the length of a query before its timestamp.
InfoFits ==
  /\ info.state \in 0..Current /\ info.stamp \in 0..now
  /\ info.state # 0 => CurrentWithin(info.state, LoadMax, info.stamp)

\* What a call of the file system has read so far, and when.
CallFits(o) ==
  /\ op[o].start \in 0..now /\ op[o].began \in 0..now
  /\ op[o].listed \in 0..Current /\ op[o].known \in 0..Current /\ op[o].row \in 0..Current
  /\ op[o].pc \in {"load", "put"} => op[o].dir \in Dirs /\ op[o].began = op[o].start
  /\ op[o].pc = "put" =>
       /\ ReadAt(op[o].listed, op[o].began)
       /\ op[o].listed < own[op[o].dir] => op[o].dir \in raced
  /\ op[o].pc \in {"info", "learn", "reply"} =>
       op[o].listed # 0 /\ CurrentWithin(op[o].listed, CacheTTL, op[o].start)
  /\ op[o].pc = "learn" =>
       /\ ReadAt(op[o].known, op[o].began)
       /\ now <= op[o].began + LoadMax
  /\ op[o].pc = "reply" =>
       op[o].known # 0 /\ CurrentWithin(op[o].known, InfoTTL + LoadMax, op[o].began)
  /\ op[o].pc = "invalidate" => op[o].row # 0

DriveInv ==
  /\ DriveTypes /\ InfoFits
  /\ \A d \in Dirs : ListingFits(d)
  /\ \A o \in Ops : CallFits(o)

-----------------------------------------------------------------------------
(* States of the database                                                  *)

LEMMA ElementIs ==
    ASSUME NEW S, NEW q \in Seq(S), NEW i \in 1..Len(q)
    PROVE  q[i] \in S
OBVIOUS

LEMMA DriveStartFits == DriveInit => DriveInv
<1> SUFFICES ASSUME DriveInit PROVE DriveInv
  OBVIOUS
<1> USE DriveAssumption
<1>2. PICK row \in DocRows, user \in Users : history = <<[row |-> row, user |-> user]>>
  BY DEF DriveInit
<1>1. HistoryFits
  <2>1. [row |-> row, user |-> user] \in [row : DocRows, user : Users]
    OBVIOUS
  <2>2. history \in Seq([row : DocRows, user : Users]) /\ Len(history) = 1
    BY <1>2, <2>1
  <2>3. now = 0 /\ ended \in [1..MaxChanges -> 0..now]
    BY DEF DriveInit
  <2> QED  BY <2>2, <2>3 DEF HistoryFits
<1>3. Current = 1
  BY <1>2 DEF Current
<1>4. CallIdle \in CallStates /\ NoEntry \in Entries
  BY DEF CallIdle, CallStates, CallSteps, NoEntry, Entries
<1>5. NoRequest \in [pc : {"idle", "commit"}, row : DocRows]
  BY <1>2 DEF NoRequest
<1>6. DriveTypes
  BY <1>1, <1>3, <1>4, <1>5 DEF DriveInit, DriveTypes
<1>7. InfoFits /\ \A d \in Dirs : ListingFits(d)
  BY <1>3 DEF DriveInit, InfoFits, ListingFits, NoEntry
<1>8. ASSUME NEW o \in Ops PROVE CallFits(o)
  <2>1. op[o] = CallIdle
    BY DEF DriveInit
  <2> QED  BY <2>1, <1>3 DEF DriveInit, CallFits, CallIdle
<1> QED  BY <1>6, <1>7, <1>8 DEF DriveInv

\* A change of the database leaves the states that have been, and what was true lately stays so.
LEMMA CommitKeeps ==
    ASSUME HistoryFits, NEW row \in DocRows, NEW user \in Users, CommitState(row, user), now' = now
    PROVE  /\ HistoryFits' /\ Current' = Current + 1
           /\ \A s \in 1..Current, age \in Nat, t \in 0..now :
                CurrentWithin(s, age, t) => CurrentWithin(s, age, t)'
<1> USE DriveAssumption
<1>1. Len(history) \in 1..MaxChanges /\ Len(history) < MaxChanges
  BY DEF HistoryFits, CommitState
<1>2. [row |-> row, user |-> user] \in [row : DocRows, user : Users]
  OBVIOUS
<1>3. /\ history' \in Seq([row : DocRows, user : Users])
      /\ Len(history') = Len(history) + 1
  BY <1>2 DEF HistoryFits, CommitState
<1>4. now \in Nat /\ ended' \in [1..MaxChanges -> 0..now] /\ ended'[Current] = now
      /\ \A s \in 1..MaxChanges : s # Current => ended'[s] = ended[s]
  BY <1>1 DEF HistoryFits, CommitState, Current
<1>5. Current' = Current + 1 /\ Current \in 1..MaxChanges
  BY <1>1, <1>3 DEF Current
<1>6. HistoryFits'
  BY <1>1, <1>3, <1>4 DEF HistoryFits
<1>7. ASSUME NEW s \in 1..Current, NEW age \in Nat, NEW t \in 0..now, CurrentWithin(s, age, t)
      PROVE  CurrentWithin(s, age, t)'
  <2>1. CASE s = Current
    BY <2>1, <1>4 DEF CurrentWithin
  <2>2. CASE s # Current
    BY <2>2, <1>4, <1>5, <1>7 DEF CurrentWithin
  <2> QED  BY <2>1, <2>2
<1> QED  BY <1>5, <1>6, <1>7

\* So do listings, facts and calls, if only the call that made the change goes on.
LEMMA ChangeFits ==
    ASSUME DriveInv, NEW row \in DocRows, NEW user \in Users, CommitState(row, user),
           UNCHANGED <<now, listing, info, own, raced>>
    PROVE  /\ HistoryFits' /\ InfoFits' /\ own' \in [Dirs -> 0..Current']
           /\ \A d \in Dirs : ListingFits(d)'
           /\ \A o \in Ops : op'[o] = op[o] => CallFits(o)'
<1> USE DriveAssumption
<1>1. /\ HistoryFits' /\ Current' = Current + 1 /\ Current \in Nat
      /\ \A s \in 1..Current, age \in Nat, t \in 0..now :
           CurrentWithin(s, age, t) => CurrentWithin(s, age, t)'
  BY CommitKeeps DEF DriveInv, DriveTypes, HistoryFits, Current
<1>2. InfoFits'
  BY <1>1 DEF DriveInv, InfoFits
<1>3. own' \in [Dirs -> 0..Current']
  BY <1>1 DEF DriveInv, DriveTypes
<1>4. ASSUME NEW d \in Dirs PROVE ListingFits(d)'
  <2>1. ListingFits(d)
    BY DEF DriveInv
  <2> QED  BY <2>1, <1>1 DEF ListingFits, ReadAt
<1>5. ASSUME NEW o \in Ops, op'[o] = op[o] PROVE CallFits(o)'
  <2>1. CallFits(o) /\ InfoTTL + LoadMax \in Nat
    BY DEF DriveInv
  <2>2. /\ op[o].start \in 0..now /\ op[o].began \in 0..now
        /\ op[o].listed \in 0..Current /\ op[o].known \in 0..Current /\ op[o].row \in 0..Current
    BY <2>1 DEF CallFits
  <2>3. /\ ReadAt(op[o].listed, op[o].began) => ReadAt(op[o].listed, op[o].began)'
        /\ ReadAt(op[o].known, op[o].began) => ReadAt(op[o].known, op[o].began)'
    BY <1>1, <1>5, <2>2 DEF ReadAt
  <2>4. op[o].listed # 0 /\ CurrentWithin(op[o].listed, CacheTTL, op[o].start)
          => CurrentWithin(op[o].listed, CacheTTL, op[o].start)'
    BY <1>1, <1>5, <2>2
  <2>5. op[o].known # 0 /\ CurrentWithin(op[o].known, InfoTTL + LoadMax, op[o].began)
          => CurrentWithin(op[o].known, InfoTTL + LoadMax, op[o].began)'
    BY <1>1, <1>5, <2>1, <2>2
  <2> QED  BY <1>1, <1>5, <2>1, <2>2, <2>3, <2>4, <2>5 DEF CallFits
<1> QED  BY <1>1, <1>2, <1>3, <1>4, <1>5

\* A step of one call that changes nothing else.
LEMMA OneCall ==
    ASSUME DriveInv, UNCHANGED <<now, history, ended, own, raced>>,
           NEW o \in Ops, NEW r \in CallStates, op' = [op EXCEPT ![o] = r],
           op'[o] = r => CallFits(o)'
    PROVE  op' \in [Ops -> CallStates] /\ \A p \in Ops : CallFits(p)'
<1>1. op' \in [Ops -> CallStates] /\ op'[o] = r /\ \A p \in Ops \ {o} : op'[p] = op[p]
  BY DEF DriveInv, DriveTypes
<1>2. ASSUME NEW p \in Ops \ {o} PROVE CallFits(p)'
  <2>1. CallFits(p) /\ op'[p] = op[p] /\ Current' = Current
    BY <1>1 DEF DriveInv, Current
  <2> QED  BY <2>1 DEF CallFits, ReadAt, CurrentWithin
<1> QED  BY <1>1, <1>2

\* Where only calls change.
LEMMA CachesStay ==
    ASSUME DriveInv, UNCHANGED <<now, history, ended, listing, info, web, inbox, own, raced>>,
           op' \in [Ops -> CallStates], \A o \in Ops : CallFits(o)'
    PROVE  DriveInv'
BY DEF DriveInv, DriveTypes, HistoryFits, InfoFits, ListingFits, ReadAt, CurrentWithin, Current

-----------------------------------------------------------------------------
(* Steps of the file system                                                *)

LEMMA FolderHitFits ==
    ASSUME DriveInv, NEW o \in Ops, NEW d \in Dirs, FolderHit(o, d)
    PROVE  DriveInv'
<1> USE DriveAssumption
<1> DEFINE r == [CallIdle EXCEPT !.pc = "info", !.dir = d, !.start = now, !.listed = listing[d].state]
<1>1. /\ op' = [op EXCEPT ![o] = r] /\ FreshEntry(listing[d], CacheTTL)
      /\ UNCHANGED <<now, history, ended, listing, info, web, inbox, own, raced>>
  BY DEF FolderHit
<1>2. /\ now \in Nat /\ Current \in Nat /\ listing[d] \in Entries /\ ListingFits(d)
      /\ ended \in [1..MaxChanges -> 0..now] /\ Current <= MaxChanges
  BY DEF DriveInv, DriveTypes, HistoryFits, Current
<1>3. r \in CallStates
  BY <1>2 DEF CallIdle, CallStates, CallSteps, Entries
<1>4. /\ r.pc = "info" /\ r.dir = d /\ r.start = now /\ r.began = 0 /\ r.listed = listing[d].state
      /\ r.known = 0 /\ r.row = 0
  BY DEF CallIdle
<1> HIDE DEF r
<1>5. /\ listing[d].state # 0 /\ CurrentWithin(listing[d].state, CacheTTL, now)
  BY <1>1, <1>2 DEF FreshEntry, ListingFits, ReadAt, CurrentWithin, Entries
<1>6. ASSUME op'[o] = r PROVE CallFits(o)'
  <2>1. listing[d].state \in 0..Current /\ Current' = Current
    BY <1>1, <1>2 DEF ListingFits, Current
  <2>2. CurrentWithin(op[o].listed, CacheTTL, op[o].start)'
    BY <1>1, <1>4, <1>5, <1>6, <2>1 DEF CurrentWithin
  <2> QED  BY <1>1, <1>2, <1>4, <1>5, <1>6, <2>1, <2>2 DEF CallFits
<1>7. op' \in [Ops -> CallStates] /\ \A p \in Ops : CallFits(p)'
  BY <1>1, <1>3, <1>6, OneCall
<1> QED  BY <1>1, <1>7, CachesStay

LEMMA FolderMissFits ==
    ASSUME DriveInv, NEW o \in Ops, NEW d \in Dirs, FolderMiss(o, d)
    PROVE  DriveInv'
<1> USE DriveAssumption
<1> DEFINE r == [CallIdle EXCEPT !.pc = "load", !.dir = d, !.start = now, !.began = now]
<1>1. /\ op' = [op EXCEPT ![o] = r]
      /\ UNCHANGED <<now, history, ended, listing, info, web, inbox, own, raced>>
  BY DEF FolderMiss
<1>2. now \in Nat /\ Current \in Nat
  BY DEF DriveInv, DriveTypes, HistoryFits, Current
<1>3. r \in CallStates
  BY <1>2 DEF CallIdle, CallStates, CallSteps
<1>4. /\ r.pc = "load" /\ r.dir = d /\ r.start = now /\ r.began = now /\ r.listed = 0
      /\ r.known = 0 /\ r.row = 0
  BY DEF CallIdle
<1> HIDE DEF r
<1>5. ASSUME op'[o] = r PROVE CallFits(o)'
  BY <1>1, <1>2, <1>4, <1>5 DEF CallFits, Current
<1>6. op' \in [Ops -> CallStates] /\ \A p \in Ops : CallFits(p)'
  BY <1>1, <1>3, <1>5, OneCall
<1> QED  BY <1>1, <1>6, CachesStay

\* The state is read after the load began: it was the current one then, or later.
LEMMA LoadChildrenFits ==
    ASSUME DriveInv, NEW o \in Ops, LoadChildren(o)
    PROVE  DriveInv'
<1> USE DriveAssumption
<1> DEFINE r == [op[o] EXCEPT !.pc = "put", !.listed = Current]
<1>1. /\ op' = [op EXCEPT ![o] = r] /\ op[o].pc = "load"
      /\ UNCHANGED <<now, history, ended, listing, info, web, inbox, own, raced>>
  BY DEF LoadChildren
<1>2. /\ op[o] \in CallStates /\ CallFits(o) /\ Current \in Nat \ {0}
      /\ own \in [Dirs -> 0..Current]
  BY DEF DriveInv, DriveTypes, HistoryFits, Current
<1>3. r \in CallStates
  BY <1>2 DEF CallStates, CallSteps
<1>4. /\ r.pc = "put" /\ r.listed = Current /\ r.dir = op[o].dir /\ r.start = op[o].start
      /\ r.began = op[o].began /\ r.known = op[o].known /\ r.row = op[o].row
  BY <1>2 DEF CallStates
<1> HIDE DEF r
<1>5. ASSUME op'[o] = r PROVE CallFits(o)'
  <2>1. op[o].dir \in Dirs /\ own[op[o].dir] <= Current
    BY <1>1, <1>2 DEF CallFits
  <2> QED  BY <1>1, <1>2, <1>4, <1>5, <2>1 DEF CallFits, ReadAt, CurrentWithin, Current
<1>6. op' \in [Ops -> CallStates] /\ \A p \in Ops : CallFits(p)'
  BY <1>1, <1>3, <1>5, OneCall
<1> QED  BY <1>1, <1>6, CachesStay

LEMMA PutListingFits ==
    ASSUME DriveInv, NEW o \in Ops, PutListing(o)
    PROVE  DriveInv'
<1> USE DriveAssumption
<1> DEFINE r == [op[o] EXCEPT !.pc = "info"]
           dir == op[o].dir
           entry == [state |-> op[o].listed, stamp |-> op[o].began]
<1>1. /\ op' = [op EXCEPT ![o] = r] /\ op[o].pc = "put" /\ listing' = [listing EXCEPT ![dir] = entry]
      /\ UNCHANGED <<now, history, ended, info, web, inbox, own, raced>>
  BY DEF PutListing, Stamp
<1>2. /\ op[o] \in CallStates /\ CallFits(o) /\ listing \in [Dirs -> Entries]
      /\ now \in Nat /\ Current \in Nat
      /\ ended \in [1..MaxChanges -> 0..now] /\ Current <= MaxChanges
  BY DEF DriveInv, DriveTypes, HistoryFits, Current
<1>3. r \in CallStates /\ entry \in Entries /\ dir \in Dirs
  BY <1>1, <1>2 DEF CallStates, CallSteps, Entries, CallFits
<1>4. /\ r.pc = "info" /\ r.listed = op[o].listed /\ r.dir = op[o].dir /\ r.start = op[o].start
      /\ r.began = op[o].began /\ r.known = op[o].known /\ r.row = op[o].row
  BY <1>2 DEF CallStates
<1> HIDE DEF r
<1>5. ASSUME op'[o] = r PROVE CallFits(o)'
  <2>1. op[o].listed # 0 /\ CurrentWithin(op[o].listed, CacheTTL, op[o].start)
    BY <1>1, <1>2 DEF CallFits, ReadAt, CurrentWithin
  <2> QED  BY <1>1, <1>2, <1>4, <1>5, <2>1 DEF CallFits, CurrentWithin, Current
<1>6. op' \in [Ops -> CallStates] /\ \A p \in Ops : CallFits(p)'
  BY <1>1, <1>3, <1>5, OneCall
<1>7. ASSUME NEW d \in Dirs PROVE ListingFits(d)'
  <2>1. CASE d = dir
    <3>1. listing'[d].state = op[o].listed /\ listing'[d].stamp = op[o].began
      BY <1>1, <1>2, <2>1
    <3> QED  BY <1>1, <1>2, <2>1, <3>1 DEF CallFits, ListingFits, ReadAt, CurrentWithin, Current
  <2>2. CASE d # dir
    <3>1. listing'[d] = listing[d] /\ ListingFits(d)
      BY <1>1, <1>2, <2>2 DEF DriveInv
    <3> QED  BY <1>1, <3>1 DEF ListingFits, ReadAt, CurrentWithin, Current
  <2> QED  BY <2>1, <2>2
<1>8. listing' \in [Dirs -> Entries]
  BY <1>1, <1>2, <1>3
<1> QED  BY <1>1, <1>6, <1>7, <1>8
         DEF DriveInv, DriveTypes, HistoryFits, InfoFits, CurrentWithin, Current

LEMMA InfoHitFits ==
    ASSUME DriveInv, NEW o \in Ops, InfoHit(o)
    PROVE  DriveInv'
<1> USE DriveAssumption
<1> DEFINE r == [op[o] EXCEPT !.pc = "reply", !.known = info.state, !.began = now]
<1>1. /\ op' = [op EXCEPT ![o] = r] /\ op[o].pc = "info" /\ FreshEntry(info, InfoTTL)
      /\ UNCHANGED <<now, history, ended, listing, info, web, inbox, own, raced>>
  BY DEF InfoHit
<1>2. /\ op[o] \in CallStates /\ CallFits(o) /\ info \in Entries /\ InfoFits
      /\ now \in Nat /\ Current \in Nat
      /\ ended \in [1..MaxChanges -> 0..now] /\ Current <= MaxChanges
  BY DEF DriveInv, DriveTypes, HistoryFits, Current
<1>3. r \in CallStates
  BY <1>2 DEF CallStates, CallSteps, Entries
<1>4. /\ r.pc = "reply" /\ r.listed = op[o].listed /\ r.dir = op[o].dir /\ r.start = op[o].start
      /\ r.began = now /\ r.known = info.state /\ r.row = op[o].row
  BY <1>2 DEF CallStates
<1> HIDE DEF r
<1>5. /\ info.state # 0 /\ CurrentWithin(info.state, InfoTTL + LoadMax, now)
  BY <1>1, <1>2 DEF FreshEntry, InfoFits, CurrentWithin, Entries
<1>6. ASSUME op'[o] = r PROVE CallFits(o)'
  <2>1. /\ info.state \in 0..Current /\ Current' = Current
        /\ CurrentWithin(op[o].listed, CacheTTL, op[o].start) /\ op[o].listed # 0
    BY <1>1, <1>2 DEF InfoFits, Current, CallFits
  <2>2. CurrentWithin(op[o].known, InfoTTL + LoadMax, op[o].began)'
    BY <1>1, <1>4, <1>5, <1>6, <2>1 DEF CurrentWithin
  <2>3. CurrentWithin(op[o].listed, CacheTTL, op[o].start)'
    BY <1>1, <1>4, <1>6, <2>1 DEF CurrentWithin
  <2>4. /\ op[o].listed \in 0..Current /\ op[o].row \in 0..Current /\ op[o].start \in 0..now
    BY <1>2 DEF CallFits
  <2>5. /\ op'[o].pc = "reply" /\ op'[o].listed # 0 /\ op'[o].known # 0
        /\ op'[o].start \in 0..now'
    BY <1>1, <1>4, <1>5, <1>6, <2>1, <2>4
  <2>6. op'[o].began \in 0..now'
    BY <1>1, <1>2, <1>4, <1>6
  <2>7. op'[o].listed \in 0..Current' /\ op'[o].known \in 0..Current' /\ op'[o].row \in 0..Current'
    BY <1>4, <1>6, <2>1, <2>4
  <2> QED  BY <1>4, <1>6, <2>2, <2>3, <2>5, <2>6, <2>7 DEF CallFits
<1>7. op' \in [Ops -> CallStates] /\ \A p \in Ops : CallFits(p)'
  BY <1>1, <1>3, <1>6, OneCall
<1> QED  BY <1>1, <1>7, CachesStay

LEMMA InfoMissFits ==
    ASSUME DriveInv, NEW o \in Ops, InfoMiss(o)
    PROVE  DriveInv'
<1> USE DriveAssumption
<1> DEFINE r == [op[o] EXCEPT !.pc = "learn", !.known = Current, !.began = now]
<1>1. /\ op' = [op EXCEPT ![o] = r] /\ op[o].pc = "info"
      /\ UNCHANGED <<now, history, ended, listing, info, web, inbox, own, raced>>
  BY DEF InfoMiss
<1>2. op[o] \in CallStates /\ CallFits(o) /\ now \in Nat /\ Current \in Nat \ {0}
  BY DEF DriveInv, DriveTypes, HistoryFits, Current
<1>3. r \in CallStates
  BY <1>2 DEF CallStates, CallSteps
<1>4. /\ r.pc = "learn" /\ r.listed = op[o].listed /\ r.dir = op[o].dir /\ r.start = op[o].start
      /\ r.began = now /\ r.known = Current /\ r.row = op[o].row
  BY <1>2 DEF CallStates
<1> HIDE DEF r
<1>5. ASSUME op'[o] = r PROVE CallFits(o)'
  BY <1>1, <1>2, <1>4, <1>5 DEF CallFits, ReadAt, CurrentWithin, Current
<1>6. op' \in [Ops -> CallStates] /\ \A p \in Ops : CallFits(p)'
  BY <1>1, <1>3, <1>5, OneCall
<1> QED  BY <1>1, <1>6, CachesStay

\* The query took at most LoadMax.
LEMMA KeepInfoFits ==
    ASSUME DriveInv, NEW o \in Ops, KeepInfo(o)
    PROVE  DriveInv'
<1> USE DriveAssumption
<1> DEFINE r == [op[o] EXCEPT !.pc = "reply", !.began = now]
           entry == [state |-> op[o].known, stamp |-> now]
<1>1. /\ op' = [op EXCEPT ![o] = r] /\ op[o].pc = "learn" /\ info' = entry
      /\ UNCHANGED <<now, history, ended, listing, web, inbox, own, raced>>
  BY DEF KeepInfo
<1>2. /\ op[o] \in CallStates /\ CallFits(o) /\ now \in Nat /\ Current \in Nat
      /\ ended \in [1..MaxChanges -> 0..now] /\ Current <= MaxChanges
  BY DEF DriveInv, DriveTypes, HistoryFits, Current
<1>3. r \in CallStates /\ entry \in Entries
  BY <1>2 DEF CallStates, CallSteps, Entries
<1>4. /\ r.pc = "reply" /\ r.listed = op[o].listed /\ r.dir = op[o].dir /\ r.start = op[o].start
      /\ r.began = now /\ r.known = op[o].known /\ r.row = op[o].row
  BY <1>2 DEF CallStates
<1> HIDE DEF r
<1>5. /\ op[o].known \in 1..Current /\ CurrentWithin(op[o].known, LoadMax, now)
      /\ CurrentWithin(op[o].known, InfoTTL + LoadMax, now)
  <2>1. /\ op[o].known \in 1..Current /\ CurrentWithin(op[o].known, 0, op[o].began)
        /\ now <= op[o].began + LoadMax /\ op[o].began \in Nat
    BY <1>1, <1>2 DEF CallFits, ReadAt, CallStates
  <2>2. ASSUME NEW e \in Nat, e + 0 >= op[o].began
        PROVE  e + LoadMax >= now /\ e + (InfoTTL + LoadMax) >= now
    BY <1>2, <2>1, <2>2
  <2>3. ended[op[o].known] \in Nat
    BY <1>2, <2>1
  <2> QED  BY <2>1, <2>2, <2>3 DEF CurrentWithin
<1>6. ASSUME op'[o] = r PROVE CallFits(o)'
  <2>1. /\ CurrentWithin(op[o].listed, CacheTTL, op[o].start) /\ op[o].listed # 0
        /\ op[o].start \in 0..now /\ op[o].listed \in 0..Current /\ op[o].row \in 0..Current
        /\ Current' = Current
    BY <1>1, <1>2 DEF CallFits, Current
  <2>2. CurrentWithin(op[o].known, InfoTTL + LoadMax, op[o].began)'
    BY <1>1, <1>4, <1>5, <1>6, <2>1 DEF CurrentWithin
  <2>3. CurrentWithin(op[o].listed, CacheTTL, op[o].start)'
    BY <1>1, <1>4, <1>6, <2>1 DEF CurrentWithin
  <2>4. op'[o].pc = "reply" /\ op'[o].listed # 0 /\ op'[o].known # 0
    BY <1>4, <1>5, <1>6, <2>1
  <2>5. op'[o].start \in 0..now' /\ op'[o].began \in 0..now'
    BY <1>1, <1>2, <1>4, <1>6, <2>1
  <2>6. op'[o].listed \in 0..Current' /\ op'[o].row \in 0..Current'
    BY <1>4, <1>6, <2>1
  <2>7. op'[o].known \in 0..Current'
    BY <1>4, <1>5, <1>6, <2>1
  <2> QED  BY <2>2, <2>3, <2>4, <2>5, <2>6, <2>7 DEF CallFits
<1>7. op' \in [Ops -> CallStates] /\ \A p \in Ops : CallFits(p)'
  BY <1>1, <1>3, <1>6, OneCall
<1>8. InfoFits'
  BY <1>1, <1>2, <1>5 DEF InfoFits, CurrentWithin, Current
<1> QED  BY <1>1, <1>3, <1>7, <1>8
         DEF DriveInv, DriveTypes, HistoryFits, ListingFits, ReadAt, CurrentWithin, Current

LEMMA ReplyFits ==
    ASSUME DriveInv, NEW o \in Ops, Reply(o)
    PROVE  DriveInv'
<1>1. /\ op' = [op EXCEPT ![o] = CallIdle]
      /\ UNCHANGED <<now, history, ended, listing, info, web, inbox, own, raced>>
  BY DEF Reply
<1>2. now \in Nat /\ Current \in Nat
  BY DriveAssumption DEF DriveInv, DriveTypes, HistoryFits, Current
<1>3. CallIdle \in CallStates
  BY DEF CallIdle, CallStates, CallSteps
<1>4. ASSUME op'[o] = CallIdle PROVE CallFits(o)'
  BY <1>1, <1>2, <1>4 DEF CallFits, CallIdle, Current
<1>5. op' \in [Ops -> CallStates] /\ \A p \in Ops : CallFits(p)'
  BY <1>1, <1>3, <1>4, OneCall
<1> QED  BY <1>1, <1>5, CachesStay

LEMMA RenameOnDriveFits ==
    ASSUME DriveInv, NEW o \in Ops, NEW row \in DocRows, RenameOnDrive(o, row)
    PROVE  DriveInv'
<1> USE DriveAssumption
<1> DEFINE old == history[Current].row
           r == [CallIdle EXCEPT !.pc = "invalidate", !.dir = old.dir, !.row = Current + 1]
<1>1. /\ op' = [op EXCEPT ![o] = r] /\ old.dir \in Dirs
      /\ CommitState(row, history[Current].user)
      /\ UNCHANGED <<now, listing, info, web, inbox, own, raced>>
  BY DEF RenameOnDrive
<1>2. /\ op \in [Ops -> CallStates] /\ HistoryFits /\ Current \in Nat /\ now \in Nat
      /\ Current \in 1..Len(history)
  BY DEF DriveInv, DriveTypes, HistoryFits, Current
<1>9. history[Current] \in [row : DocRows, user : Users]
  BY <1>2, ElementIs DEF HistoryFits
<1>3. r \in CallStates
  <2>1. old.dir \in Dirs \cup {Nowhere} /\ Current + 1 \in Nat
    BY <1>1, <1>2
  <2> HIDE DEF old
  <2> QED  BY <2>1 DEF CallIdle, CallStates, CallSteps
<1>4. /\ r.pc = "invalidate" /\ r.start = 0 /\ r.began = 0 /\ r.listed = 0 /\ r.known = 0
      /\ r.row = Current + 1
  BY DEF CallIdle
<1> HIDE DEF r
<1>5. Current' = Current + 1
  BY <1>1, <1>2, <1>9, CommitKeeps
<1>6. /\ HistoryFits' /\ InfoFits' /\ own' \in [Dirs -> 0..Current']
      /\ \A d \in Dirs : ListingFits(d)'
      /\ \A p \in Ops : op'[p] = op[p] => CallFits(p)'
  BY <1>1, <1>2, <1>9, ChangeFits
<1>7. ASSUME NEW p \in Ops PROVE CallFits(p)'
  <2>1. CASE p = o
    <3>1. op'[p] = r
      BY <1>1, <1>2, <2>1
    <3> QED  BY <1>1, <1>2, <1>4, <1>5, <3>1 DEF CallFits
  <2>2. CASE p # o
    BY <1>1, <1>2, <1>6, <2>2
  <2> QED  BY <2>1, <2>2
<1>8. op' \in [Ops -> CallStates]
  BY <1>1, <1>2, <1>3
<1> QED  BY <1>1, <1>6, <1>7, <1>8 DEF DriveInv, DriveTypes

\* No older listing of the two folders stays, and a load that could bring one back is noted.
LEMMA DriveInvalidateFits ==
    ASSUME DriveInv, NEW o \in Ops, DriveInvalidate(o)
    PROVE  DriveInv'
<1> USE DriveAssumption
<1>1. /\ op' = [op EXCEPT ![o] = CallIdle] /\ op[o].pc = "invalidate"
      /\ listing' = [d \in Dirs |-> IF d \in Dropped(o) THEN NoEntry ELSE listing[d]]
      /\ own' = [d \in Dirs |-> IF d \in Dropped(o)
                                THEN IF own[d] > op[o].row THEN own[d] ELSE op[o].row ELSE own[d]]
      /\ raced' = raced \cup {d \in Dropped(o) :
                     \E p \in Ops : op[p].pc = "put" /\ op[p].dir = d /\ op[p].listed < op[o].row}
      /\ UNCHANGED <<now, history, ended, info, web, inbox>>
  BY DEF DriveInvalidate, Dropped
<1>2. /\ op \in [Ops -> CallStates] /\ listing \in [Dirs -> Entries] /\ CallFits(o)
      /\ own \in [Dirs -> 0..Current] /\ now \in Nat /\ Current \in Nat
      /\ raced \subseteq Dirs
  BY DEF DriveInv, DriveTypes, HistoryFits, Current
<1>3. op[o].row \in 0..Current
  BY <1>2 DEF CallFits
<1>4. /\ CallIdle \in CallStates /\ NoEntry \in Entries /\ NoEntry.state = 0 /\ NoEntry.stamp = 0
      /\ CallIdle.pc = "idle" /\ CallIdle.start = 0 /\ CallIdle.began = 0 /\ CallIdle.listed = 0
      /\ CallIdle.known = 0 /\ CallIdle.row = 0
  BY DEF CallIdle, CallStates, CallSteps, NoEntry, Entries
<1>5. op' \in [Ops -> CallStates] /\ listing' \in [Dirs -> Entries] /\ own' \in [Dirs -> 0..Current]
  BY <1>1, <1>2, <1>3, <1>4
<1>6. ASSUME NEW p \in Ops PROVE CallFits(p)'
  <2>1. Current' = Current
    BY <1>1 DEF Current
  <2>2. CASE p = o
    <3>1. op'[p] = CallIdle
      BY <1>1, <1>2, <2>2
    <3> QED  BY <1>1, <1>2, <1>4, <2>1, <3>1 DEF CallFits
  <2>3. CASE p # o
    <3>1. op'[p] = op[p] /\ CallFits(p)
      BY <1>1, <1>2, <2>3 DEF DriveInv
    <3>2. ASSUME op[p].pc = "put", op[p].listed < own'[op[p].dir]
          PROVE  op[p].dir \in raced'
      <4>1. op[p].dir \in Dirs /\ (op[p].listed < own[op[p].dir] => op[p].dir \in raced)
        BY <3>1, <3>2 DEF CallFits
      <4>2. CASE op[p].listed < own[op[p].dir]
        BY <1>1, <4>1, <4>2
      <4>3. CASE ~(op[p].listed < own[op[p].dir])
        <5>1. op[p].dir \in Dropped(o) /\ own'[op[p].dir] = op[o].row
          BY <1>1, <3>2, <4>1, <4>3
        <5> QED  BY <1>1, <3>2, <5>1
      <4> QED  BY <4>2, <4>3
    <3>3. ReadAt(op[p].listed, op[p].began) => ReadAt(op[p].listed, op[p].began)'
      BY <1>1, <2>1, <3>1 DEF ReadAt, CurrentWithin
    <3>4. op[p].pc = "put" => /\ ReadAt(op[p].listed, op[p].began)'
                              /\ (op[p].listed < own[op[p].dir] => op[p].dir \in raced)'
      BY <3>1, <3>2, <3>3 DEF CallFits
    <3> QED  BY <1>1, <2>1, <3>1, <3>4 DEF CallFits, ReadAt, CurrentWithin
  <2> QED  BY <2>2, <2>3
<1>7. ASSUME NEW d \in Dirs PROVE ListingFits(d)'
  <2>1. Current' = Current /\ now' = now
    BY <1>1 DEF Current
  <2>2. CASE d \in Dropped(o)
    <3>1. listing'[d] = NoEntry
      BY <1>1, <2>2
    <3> QED  BY <1>2, <1>4, <2>1, <3>1 DEF ListingFits
  <2>3. CASE d \notin Dropped(o)
    <3>1. listing'[d] = listing[d] /\ own'[d] = own[d] /\ ListingFits(d) /\ raced \subseteq raced'
      BY <1>1, <2>3 DEF DriveInv
    <3> QED  BY <1>1, <2>1, <3>1 DEF ListingFits, ReadAt, CurrentWithin
  <2> QED  BY <2>2, <2>3
<1>8. raced' \subseteq Dirs
  <2>1. \A p \in Ops : op[p].pc = "put" => op[p].dir \in Dirs
    BY DEF DriveInv, CallFits
  <2> QED  BY <1>1, <1>2, <2>1
<1> QED  BY <1>1, <1>5, <1>6, <1>7, <1>8
         DEF DriveInv, DriveTypes, HistoryFits, InfoFits, CurrentWithin, Current

-----------------------------------------------------------------------------
(* Steps of the web API, messages and time                                 *)

LEMMA DatabaseFits ==
    ASSUME DriveInv, NEW row \in DocRows, NEW user \in Users, CommitState(row, user),
           UNCHANGED <<now, listing, info, op, own, raced>>,
           web' \in [pc : {"idle", "commit"}, row : DocRows], inbox' \subseteq Dirs
    PROVE  DriveInv'
<1>1. /\ HistoryFits' /\ InfoFits' /\ own' \in [Dirs -> 0..Current']
      /\ \A d \in Dirs : ListingFits(d)'
      /\ \A p \in Ops : op'[p] = op[p] => CallFits(p)'
  BY ChangeFits
<1> QED  BY <1>1 DEF DriveInv, DriveTypes

LEMMA WebFits ==
    ASSUME DriveInv,
           \/ \E row \in DocRows, named \in SUBSET Dirs : WebPublish(row, named)
           \/ WebCommit
           \/ \E user \in Users : UserChange(user)
    PROVE  DriveInv'
<1>1. /\ web \in [pc : {"idle", "commit"}, row : DocRows] /\ inbox \subseteq Dirs
      /\ history[Current] \in [row : DocRows, user : Users]
  <2>1. Current \in 1..Len(history) /\ history \in Seq([row : DocRows, user : Users])
    BY DriveAssumption DEF DriveInv, DriveTypes, HistoryFits, Current
  <2>2. history[Current] \in [row : DocRows, user : Users]
    BY <2>1, ElementIs
  <2> QED  BY <2>2 DEF DriveInv, DriveTypes
<1>2. ASSUME NEW row \in DocRows, NEW named \in SUBSET Dirs, WebPublish(row, named) PROVE DriveInv'
  BY <1>1, <1>2 DEF WebPublish, DriveInv, DriveTypes, HistoryFits, InfoFits, ListingFits, CallFits, ReadAt,
     CurrentWithin, Current
<1>3. ASSUME WebCommit PROVE DriveInv'
  <2>1. NoRequest \in [pc : {"idle", "commit"}, row : DocRows]
    BY <1>1 DEF NoRequest
  <2> QED  BY <1>1, <1>3, <2>1, DatabaseFits DEF WebCommit
<1>4. ASSUME NEW user \in Users, UserChange(user) PROVE DriveInv'
  BY <1>1, <1>4, DatabaseFits DEF UserChange
<1> QED  BY <1>2, <1>3, <1>4

LEMMA MessageFits ==
    ASSUME DriveInv, NEW d \in Dirs, Invalidate(d) \/ LoseMessage(d)
    PROVE  DriveInv'
<1>1. /\ UNCHANGED <<now, history, ended, info, op, web, own, raced>> /\ inbox' \subseteq inbox
      /\ listing' = listing \/ listing' = [listing EXCEPT ![d] = NoEntry]
  BY DEF Invalidate, LoseMessage
<1>2. NoEntry \in Entries /\ NoEntry.state = 0 /\ NoEntry.stamp = 0 /\ 0 \in 0..now /\ 0 \in 0..Current
  BY DriveAssumption DEF NoEntry, Entries, DriveInv, DriveTypes, HistoryFits, Current
<1>3. listing' \in [Dirs -> Entries]
  BY <1>1, <1>2 DEF DriveInv, DriveTypes
<1>4. ASSUME NEW e \in Dirs PROVE ListingFits(e)'
  <2>1. ListingFits(e) /\ (listing'[e] = listing[e] \/ listing'[e] = NoEntry)
    BY <1>1 DEF DriveInv, DriveTypes
  <2> QED  BY <1>1, <1>2, <2>1 DEF ListingFits, ReadAt, CurrentWithin, Current
<1> QED  BY <1>1, <1>3, <1>4
         DEF DriveInv, DriveTypes, HistoryFits, InfoFits, CallFits, ReadAt, CurrentWithin, Current

LEMMA TickFits ==
    ASSUME DriveInv, Tick
    PROVE  DriveInv'
<1> USE DriveAssumption
<1>1. /\ now' = now + 1 /\ now < MaxTime
      /\ \A o \in Ops : op[o].pc = "learn" => now - op[o].began < LoadMax
      /\ UNCHANGED <<history, ended, listing, info, op, web, inbox, own, raced>>
  BY DEF Tick
<1>2. now \in Nat /\ Current' = Current
  BY <1>1 DEF DriveInv, DriveTypes, HistoryFits, Current
<1>3. DriveTypes'
  <2>1. now' \in 0..MaxTime /\ ended' \in [1..MaxChanges -> 0..now']
    BY <1>1, <1>2 DEF DriveInv, DriveTypes, HistoryFits
  <2> QED  BY <1>1, <1>2, <2>1 DEF DriveInv, DriveTypes, HistoryFits
<1>4. InfoFits' /\ \A d \in Dirs : ListingFits(d)'
  BY <1>1, <1>2 DEF DriveInv, InfoFits, ListingFits, ReadAt, CurrentWithin
<1>5. ASSUME NEW o \in Ops PROVE CallFits(o)'
  <2>1. CallFits(o)
    BY DEF DriveInv
  <2>2. op[o].pc = "learn" => now' <= op[o].began + LoadMax
    BY <1>1, <1>2, <2>1 DEF CallFits
  <2>3. op[o].start \in 0..now' /\ op[o].began \in 0..now'
    BY <1>1, <1>2, <2>1 DEF CallFits
  <2> QED  BY <1>1, <1>2, <2>1, <2>2, <2>3 DEF CallFits, ReadAt, CurrentWithin
<1> QED  BY <1>3, <1>4, <1>5 DEF DriveInv

LEMMA DriveInvKept == DriveInv /\ [DriveNext]_driveVars => DriveInv'
<1> SUFFICES ASSUME DriveInv, [DriveNext]_driveVars PROVE DriveInv'
  OBVIOUS
<1>1. ASSUME NEW o \in Readers, NEW d \in Dirs, FolderHit(o, d) \/ FolderMiss(o, d) PROVE DriveInv'
  BY <1>1, FolderHitFits, FolderMissFits DEF Ops
<1>2. ASSUME NEW o \in Readers, LoadChildren(o) \/ PutListing(o) PROVE DriveInv'
  BY <1>2, LoadChildrenFits, PutListingFits DEF Ops
<1>3. ASSUME NEW o \in Readers, InfoHit(o) \/ InfoMiss(o) \/ KeepInfo(o) \/ Reply(o) PROVE DriveInv'
  BY <1>3, InfoHitFits, InfoMissFits, KeepInfoFits, ReplyFits DEF Ops
<1>4. ASSUME NEW o \in Writers, DriveInvalidate(o) \/ \E row \in DocRows : RenameOnDrive(o, row)
      PROVE  DriveInv'
  BY <1>4, DriveInvalidateFits, RenameOnDriveFits DEF Ops
<1>5. ASSUME NEW d \in Dirs, Invalidate(d) \/ LoseMessage(d) PROVE DriveInv'
  BY <1>5, MessageFits
<1>6. ASSUME Tick PROVE DriveInv'
  BY <1>6, TickFits
<1>7. ASSUME UNCHANGED driveVars PROVE DriveInv'
  BY <1>7 DEF driveVars, DriveInv, DriveTypes, HistoryFits, InfoFits, ListingFits, CallFits, ReadAt,
     CurrentWithin, Current
<1> QED  BY <1>1, <1>2, <1>3, <1>4, <1>5, <1>6, <1>7, WebFits DEF DriveNext

-----------------------------------------------------------------------------
(* Theorems about the drive                                                *)

\* The inductive invariant of the drive's caches: what was read was current at its timestamp or
\* later, and what a call has taken from a cache was so at most the life of an entry ago.
THEOREM DriveInvariant == DriveSpec => []DriveInv
<1>1. DriveInit => DriveInv
  BY DriveStartFits
<1>2. DriveInv /\ [DriveNext]_driveVars => DriveInv'
  BY DriveInvKept
<1> QED  BY <1>1, <1>2, PTL DEF DriveSpec

\* Listings, facts, calls and messages of the drive have their types.
THEOREM DriveTypesHold == DriveSpec => []DriveTypeOK
<1>1. ASSUME DriveInv PROVE DriveTypeOK
  <2> USE DriveAssumption, <1>1
  <2>1. now \in 0..MaxTime /\ Len(history) \in 1..MaxChanges /\ ended \in [1..MaxChanges -> 0..MaxTime]
    BY DEF DriveInv, DriveTypes, HistoryFits
  <2>2. \A s \in 1..Len(history) : history[s] \in [row : DocRows, user : Users]
    BY ElementIs DEF DriveInv, DriveTypes, HistoryFits
  <2>3. ASSUME NEW d \in Dirs PROVE listing[d] \in [state : 0..Current, stamp : 0..MaxTime]
    BY <2>1, <2>3 DEF DriveInv, DriveTypes, ListingFits, Entries
  <2>4. info \in [state : 0..Current, stamp : 0..MaxTime]
    BY <2>1 DEF DriveInv, DriveTypes, InfoFits, Entries
  <2>5. ASSUME NEW o \in Ops
        PROVE  /\ op[o].pc \in {"idle", "load", "put", "info", "learn", "reply", "invalidate"}
               /\ op[o].listed \in 0..Current /\ op[o].known \in 0..Current /\ op[o].row \in 0..Current
    BY <2>5 DEF DriveInv, DriveTypes, CallFits, CallStates, CallSteps
  <2>6. listing \in [Dirs -> [state : 0..Current, stamp : 0..MaxTime]]
    BY <2>3 DEF DriveInv, DriveTypes
  <2> QED  BY <2>1, <2>2, <2>4, <2>5, <2>6 DEF DriveInv, DriveTypes, DriveTypeOK
<1> QED  BY <1>1, DriveInvariant, PTL

\* What the drive shows was true a short time ago, it is what the web shows when nothing has changed
\* lately, and one's own rename is seen at once (fuse_server.py): for any life times of the caches,
\* and whatever invalidation is lost or overtaken by a load.
THEOREM DriveShows == DriveSpec => []DriveShowsTheTruth
<1>1. ASSUME DriveInv PROVE DriveShowsTheTruth
  <2> USE <1>1
  <2>1. ASSUME NEW o \in Ops, op[o].pc = "reply"
        PROVE  /\ op[o].listed \in 1..Current /\ op[o].known \in 1..Current
               /\ CurrentWithin(op[o].listed, CacheTTL, op[o].start)
               /\ CurrentWithin(op[o].known, InfoTTL + LoadMax, op[o].began)
    BY <2>1 DEF DriveInv, CallFits
  <2>2. ShownWasTrueLately
    <3>1. ASSUME NEW o \in Ops, op[o].pc = "reply", Shown(o)
          PROVE  /\ history[op[o].listed].row.dir = op[o].dir
                 /\ ~history[op[o].listed].row.download_prohibited
                 /\ Visible(history[op[o].listed].row, history[op[o].known].user)
      BY <3>1 DEF Shown, CanSeeEntry, Visible
    <3> QED  BY <2>1, <3>1 DEF ShownWasTrueLately
  <2>3. QuietDriveShowsTheList
    <3> SUFFICES ASSUME NEW o \in Ops, op[o].pc = "reply",
                        \A s \in 1..(Current - 1) :
                          /\ ~CurrentWithin(s, CacheTTL, op[o].start)
                          /\ ~CurrentWithin(s, InfoTTL + LoadMax, op[o].began)
                 PROVE  LET now_ == history[Current]
                        IN /\ Shown(o) <=> /\ now_.row.dir = op[o].dir
                                           /\ Visible(now_.row, now_.user)
                                           /\ ~now_.row.download_prohibited
                           /\ (now_.row.dir = op[o].dir /\ CanAccess(now_.row, now_.user)
                                 /\ ~now_.row.download_prohibited) => Shown(o)
      BY DEF QuietDriveShowsTheList
    <3>1. Current \in Nat
      BY DriveAssumption DEF DriveInv, DriveTypes, HistoryFits, Current
    <3>2. op[o].listed = Current /\ op[o].known = Current
      BY <2>1, <3>1
    <3> QED  BY <3>2 DEF Shown, CanSeeEntry, Visible, CanAccess
  <2>4. OwnChangeIsSeen
    BY DEF DriveInv, ListingFits, OwnChangeIsSeen
  <2> QED  BY <2>2, <2>3, <2>4 DEF DriveShowsTheTruth
<1> QED  BY <1>1, DriveInvariant, PTL

-----------------------------------------------------------------------------
(* SearchRun: orders of documents                                          *)

\* An order of a set of documents has each of them once.
LEMMA OrderOfSet ==
    ASSUME NEW S \in SUBSET Candidates, NEW q \in SetToSeqs(S)
    PROVE  /\ Cardinality(S) \in Nat /\ Cardinality(S) <= Cardinality(Candidates)
           /\ q \in [1..Cardinality(S) -> S] /\ DOMAIN q = 1..Cardinality(S)
           /\ Range(q) = S
           /\ \A i, j \in DOMAIN q : q[i] = q[j] => i = j
           /\ q # Unread
<1> DEFINE n == Cardinality(S)
<1>1. /\ IsFiniteSet(S) /\ n \in Nat /\ n <= Cardinality(Candidates)
  BY SearchAssumption, FS_Subset, FS_CardinalityType
<1>2. q \in [1..n -> S] /\ \A i, j \in 1..n : i # j => q[i] # q[j]
  BY DEF SetToSeqs
<1>3. IsFiniteSet(1..n) /\ Cardinality(1..n) = n
  <2> HIDE DEF n
  <2>1. IsFiniteSet(1..n) /\ Cardinality(1..n) = IF 1 > n THEN 0 ELSE n - 1 + 1
    BY <1>1, FS_Interval
  <2> QED  BY <1>1, <2>1
<1>4. q \in Injection(1..n, S)
  BY <1>2 DEF Injection, IsInjective
<1>5. q \in Surjection(1..n, S)
  BY <1>1, <1>3, <1>4, FS_Injection
<1>6. Range(q) = S
  BY <1>5, Fun_SurjectionProperties
<1>7. ASSUME q = Unread PROVE FALSE
  <2>1. "?" \in Range(q)
    BY <1>7 DEF Unread, Range
  <2> QED  BY <1>6, <2>1, SearchAssumption
<1> QED  BY <1>1, <1>2, <1>6, <1>7

\* The place of a document in an order.
LEMMA PlaceInOrder ==
    ASSUME NEW S \in SUBSET Candidates, NEW q \in SetToSeqs(S)
    PROVE  /\ \A d \in S : /\ Place(q, d) \in 1..Cardinality(Candidates) /\ Place(q, d) \in DOMAIN q
                           /\ q[Place(q, d)] = d
           /\ \A i \in DOMAIN q : q[i] \in S /\ Place(q, q[i]) = i
<1>1. /\ Cardinality(S) \in Nat /\ Cardinality(S) <= Cardinality(Candidates)
      /\ q \in [1..Cardinality(S) -> S] /\ DOMAIN q = 1..Cardinality(S)
      /\ Range(q) = S
      /\ \A i, j \in DOMAIN q : q[i] = q[j] => i = j
  BY OrderOfSet
<1>2. Cardinality(Candidates) \in Nat
  BY SearchAssumption, FS_CardinalityType
<1>3. ASSUME NEW d \in S
      PROVE  Place(q, d) \in DOMAIN q /\ q[Place(q, d)] = d
  <2>1. \E i \in DOMAIN q : q[i] = d
    BY <1>1 DEF Range
  <2> QED  BY <2>1 DEF Place
<1>4. \A d \in S : Place(q, d) \in 1..Cardinality(Candidates)
  BY <1>1, <1>2, <1>3
<1>5. ASSUME NEW i \in DOMAIN q PROVE q[i] \in S /\ Place(q, q[i]) = i
  <2>1. q[i] \in S
    BY <1>1
  <2> QED  BY <1>1, <1>3, <2>1
<1> QED  BY <1>3, <1>4, <1>5

\* In an order by a number, more comes first.
LEMMA OrderByKey ==
    ASSUME NEW S \in SUBSET Candidates, NEW q \in SetToSeqs(S), NEW k \in [S -> Nat],
           \A i, j \in DOMAIN q : i < j => k[q[i]] >= k[q[j]]
    PROVE  \A a, b \in S : k[a] > k[b] => Place(q, a) < Place(q, b)
<1> SUFFICES ASSUME NEW a \in S, NEW b \in S, k[a] > k[b]
             PROVE  Place(q, a) < Place(q, b)
  OBVIOUS
<1> DEFINE i == Place(q, a)
           j == Place(q, b)
<1>1. /\ i \in DOMAIN q /\ j \in DOMAIN q /\ q[i] = a /\ q[j] = b
      /\ i \in 1..Cardinality(Candidates) /\ j \in 1..Cardinality(Candidates)
  BY PlaceInOrder
<1> HIDE DEF i, j
<1>2. i # j /\ ~(j < i) /\ i \in Int /\ j \in Int
  BY <1>1
<1>3. i < j
  BY <1>2
<1> QED  BY <1>3 DEF i, j

\* The empty order.
LEMMA NoDocuments == <<>> \in SetToSeqs({}) /\ Range(<<>>) = {}
<1>1. Cardinality({}) = 0
  BY FS_EmptySet
<1> QED  BY <1>1 DEF SetToSeqs, Range

LEMMA WordCount ==
    ASSUME query \in SUBSET Words, NEW T
    PROVE  /\ Cardinality(T \cap query) \in 0..Cardinality(query) /\ Cardinality(query) \in Nat
           /\ Cardinality(T \cap query) = 0 <=> T \cap query = {}
           /\ Cardinality(T \cap query) = Cardinality(query) <=> query \subseteq T
<1>1. IsFiniteSet(query)
  BY SearchAssumption, FS_Subset
<1>2. Cardinality(query) \in Nat
  BY <1>1, FS_CardinalityType
<1>3. T \cap query \in SUBSET query
  OBVIOUS
<1>4. /\ IsFiniteSet(T \cap query) /\ Cardinality(T \cap query) <= Cardinality(query)
      /\ Cardinality(query) = Cardinality(T \cap query) => query = T \cap query
  BY <1>1, <1>3, FS_Subset
<1>5. Cardinality(T \cap query) \in Nat
  BY <1>4, FS_CardinalityType
<1>6. Cardinality(T \cap query) = 0 <=> T \cap query = {}
  BY <1>4, FS_EmptySet
<1>7. query \subseteq T => T \cap query = query
  OBVIOUS
<1> QED  BY <1>2, <1>4, <1>5, <1>6, <1>7

-----------------------------------------------------------------------------
(* Scores                                                                  *)

LEMMA LessOfTwo ==
    ASSUME NEW x \in Nat, NEW y \in Nat
    PROVE  Min({x, y}) = IF x <= y THEN x ELSE y
<1> DEFINE m == IF x <= y THEN x ELSE y
<1>1. m \in {x, y} /\ (\A k \in {x, y} : m <= k) /\ \A z \in {x, y} : (\A k \in {x, y} : z <= k) => z = m
  OBVIOUS
<1> HIDE DEF m
<1>2. Min({x, y}) = m
  BY <1>1 DEF Min
<1> QED  BY <1>2 DEF m

\* A better place gives more.
LEMMA PlacePays ==
    ASSUME NEW i \in 1..Cardinality(Candidates), NEW j \in 1..Cardinality(Candidates), i < j
    PROVE  /\ Scale \div (RrfK + i) \in Nat /\ Scale \div (RrfK + j) \in Nat
           /\ Scale \div (RrfK + j) < Scale \div (RrfK + i)
<1> DEFINE c == RrfK + i
           d == RrfK + j
           x == Scale \div c
           y == Scale \div d
<1>1. c \in Nat \ {0} /\ d \in Nat \ {0} /\ c < d
  BY DEF RrfK
<1>2. Scale \in Nat \ {0} /\ Scale % c = 0 /\ Scale % d = 0
  BY SearchAssumption
<1> HIDE DEF c, d
<1>3. x \in Nat /\ y \in Nat /\ Scale = c * x /\ Scale = d * y
  BY <1>1, <1>2
<1> HIDE DEF x, y
<1>4. ASSUME x <= y PROVE FALSE
  <2>1. c * x <= c * y
    BY <1>1, <1>3, <1>4
  <2>2. y # 0
    BY <1>1, <1>2, <1>3
  <2>3. c * y < d * y
    BY <1>1, <1>3, <2>2
  <2>4. c * x \in Nat /\ c * y \in Nat /\ d * y \in Nat
    BY <1>1, <1>3
  <2> QED  BY <1>3, <2>1, <2>3, <2>4
<1> QED  BY <1>3, <1>4 DEF c, d, x, y

\* More from the signals, no less weight and no less for its age: a higher score.
LEMMA MoreScores ==
    ASSUME NEW f \in Nat, NEW g \in Nat, f < g, NEW p \in Nat, p # 0, NEW r \in Nat, p <= r,
           NEW x \in Nat, NEW y \in Nat, x <= y
    PROVE  20 * f * p + x < 20 * g * r + y
<1>1. f * p < g * p
  OBVIOUS
<1>2. g * p <= g * r
  OBVIOUS
<1>3. f * p \in Nat /\ g * p \in Nat /\ g * r \in Nat
  OBVIOUS
<1>4. 20 * f * p = 20 * (f * p) /\ 20 * g * r = 20 * (g * r)
  OBVIOUS
<1> DEFINE a == f * p
           b == g * r
<1>5. a \in Nat /\ b \in Nat /\ a < b
  BY <1>1, <1>2, <1>3
<1> HIDE DEF a, b
<1>6. 20 * a + x < 20 * b + y
  BY <1>5
<1> QED  BY <1>4, <1>6 DEF a, b

-----------------------------------------------------------------------------
(* What the signals find                                                   *)

Kinds == {"title", "filename", "memo", "summary", "tag"}
Counting == Metadata \cup {"fulltext"}
IsRead(s) ==
  CASE s = "title_full" -> \E i \in 1..read : MetaOrder[i] = "title"
    [] s \in {"fulltext", "vector"} -> ranks[s] # Unread
    [] OTHER -> \E i \in 1..read : MetaOrder[i] = s

\* The documents a signal finds among the rows as they are, and the number it orders them by.
FoundBy(s) ==
  CASE s = "title_full" -> {d \in OpenNow : Count(d, "title") > 0 /\ query \subseteq Texts(d, "title")}
    [] s = "fulltext" -> {d \in OpenNow : candidate[d].content \cap query # {}}
    [] s = "vector" -> {d \in OpenNow : candidate[d].near}
    [] OTHER -> {d \in OpenNow : Count(d, s) > 0}
KeyOf(d, s) ==
  CASE s = "title_full" -> MetaKey(d, "title")
    [] s = "fulltext" -> TextCount(d)
    [] s = "vector" -> 0
    [] OTHER -> MetaKey(d, s)
WordsBy(d, s) == IF s = "fulltext" THEN TextCount(d) ELSE Count(d, s)

LEMMA SignalKinds ==
    /\ Metadata \subseteq Kinds /\ Signals = Metadata \cup {"title_full", "fulltext", "vector"}
    /\ \A i \in 1..Len(MetaOrder) : MetaOrder[i] \in Metadata
    /\ \A s \in Metadata : \E i \in 1..Len(MetaOrder) : MetaOrder[i] = s
    /\ Len(MetaOrder) \in Nat
BY SearchAssumption DEF Metadata, Signals, Kinds, Range

\* The orders a signal has given are orders of documents that were open.
RanksFit(k) == \E S \in SUBSET seen : k \in SetToSeqs(S)

\* While nothing changes a signal has what it finds, in its order,
SignalFits(s) ==
  IF IsRead(s)
  THEN /\ ranks[s] \in SetToSeqs(FoundBy(s))
       /\ \A a, b \in FoundBy(s) :
            KeyOf(a, s) > KeyOf(b, s) => Place(ranks[s], a) < Place(ranks[s], b)
  ELSE s \in {"fulltext", "vector"} \/ ranks[s] = <<>>

\* and the hits of a document are the words of the best signal so far.
HitsFit(d) ==
  /\ \A s \in Counting : IsRead(s) /\ d \in FoundBy(s) => WordsBy(d, s) <= hits[d]
  /\ hits[d] = 0 \/ \E s \in Counting : IsRead(s) /\ d \in FoundBy(s) /\ hits[d] = WordsBy(d, s)

QuietFits ==
  /\ \A s \in Signals : SignalFits(s)
  /\ \A d \in Candidates : HitsFit(d) /\ bestChunk[d] \in {"none", Age(d)}
  /\ \A s \in {"fulltext", "vector"} : IsRead(s) => FoundBy(s) \subseteq Informed
  /\ phase \in {"page", "done"} => Matched \subseteq Informed
  /\ phase = "done" =>
       /\ shown \in SetToSeqs(Matched)
       /\ \A i, j \in DOMAIN shown : i < j => Score(shown[i]) >= Score(shown[j])

SearchTypes ==
  /\ candidate \in [Candidates -> Rows] /\ query \in SUBSET Words /\ read \in 0..Len(MetaOrder)
  /\ phase \in {"reading", "page", "done", "failed"} /\ docEdits \in 0..MaxEdits
  /\ edited \in BOOLEAN /\ bestChunk \in [Candidates -> {"none", "old", "new"}]
  /\ hits \in [Candidates -> 0..Cardinality(query)]
  /\ seen \in SUBSET Candidates /\ DOMAIN ranks = Signals

SearchInv ==
  /\ SearchTypes
  /\ \A s \in Signals : RanksFit(ranks[s]) \/ (ranks[s] = Unread /\ s \in {"fulltext", "vector"})
  /\ phase \in {"page", "done"} => AllRead /\ query # {}
  /\ IF phase = "done" THEN \E S \in SUBSET Matched : shown \in SetToSeqs(S) ELSE shown = <<>>
  /\ ~edited => QuietFits

-----------------------------------------------------------------------------
(* Steps of a search                                                       *)

\* What is found depends on the rows and the query.
LEMMA SameRows ==
    ASSUME candidate' = candidate, query' = query
    PROVE  /\ OpenNow' = OpenNow
           /\ \A s : FoundBy(s)' = FoundBy(s)
           /\ \A d, s : KeyOf(d, s)' = KeyOf(d, s) /\ WordsBy(d, s)' = WordsBy(d, s)
           /\ \A d : Age(d)' = Age(d)
<1>1. OpenNow' = OpenNow /\ \A d, s : Texts(d, s)' = Texts(d, s)
  BY DEF OpenNow, Open, Texts
<1>2. \A d, s : Count(d, s)' = Count(d, s)
  BY <1>1 DEF Count
<1>3. \A d : Age(d)' = Age(d) /\ Newer(d)' = Newer(d) /\ TextCount(d)' = TextCount(d)
  BY DEF Age, Newer, TextCount
<1>4. \A d, s : MetaKey(d, s)' = MetaKey(d, s)
  BY <1>2, <1>3 DEF MetaKey
<1>5. \A s : FoundBy(s)' = FoundBy(s)
  BY <1>1, <1>2 DEF FoundBy
<1>6. \A d, s : KeyOf(d, s)' = KeyOf(d, s) /\ WordsBy(d, s)' = WordsBy(d, s)
  BY <1>2, <1>3, <1>4 DEF KeyOf, WordsBy
<1> QED  BY <1>1, <1>3, <1>5, <1>6

LEMMA FoundAreOpen ==
    /\ OpenNow \subseteq Candidates
    /\ \A s : FoundBy(s) \subseteq OpenNow
BY DEF OpenNow, FoundBy

\* A document that changes ends the quiet; nothing else sees it yet.
LEMMA EditStep ==
    ASSUME SearchInv, NEW d \in Candidates, EditDocument(d)
    PROVE  SearchInv'
<1>1. /\ UNCHANGED <<query, read, ranks, hits, bestChunk, phase, shown, seen>>
      /\ edited' = TRUE /\ docEdits' = docEdits + 1 /\ docEdits < MaxEdits
      /\ phase \in {"reading", "page"}
  BY DEF EditDocument, resultVars
<1>2. candidate \in [Candidates -> Rows] /\ docEdits \in 0..MaxEdits /\ query \in SUBSET Words
  BY DEF SearchInv, SearchTypes
<1>3. candidate[d] \in Rows
  BY <1>2
<1>4. ASSUME NEW r, \/ r = [candidate[d] EXCEPT !.state = "trash"]
                    \/ r = [candidate[d] EXCEPT !.state = "live"]
                    \/ r = [candidate[d] EXCEPT !.state = "gone"]
                    \/ r = [candidate[d] EXCEPT !.readable = ~@]
                    \/ \E t \in SUBSET query : r = [candidate[d] EXCEPT !.title = t, !.fresh = TRUE]
      PROVE  r \in Rows
  <2>1. CASE r = [candidate[d] EXCEPT !.readable = ~@]
    BY <1>3, <2>1 DEF Rows
  <2>2. ASSUME NEW t \in SUBSET query, r = [candidate[d] EXCEPT !.title = t, !.fresh = TRUE]
        PROVE  r \in Rows
    <3>1. t \in SUBSET Words
      BY <1>2
    <3> QED  BY <1>3, <2>2, <3>1 DEF Rows
  <2>3. ASSUME NEW x \in {"live", "trash", "gone"}, r = [candidate[d] EXCEPT !.state = x]
        PROVE  r \in Rows
    BY <1>3, <2>3 DEF Rows
  <2> QED  BY <1>4, <2>1, <2>2, <2>3
<1>5. \E r \in Rows : candidate' = [candidate EXCEPT ![d] = r]
  BY <1>4 DEF EditDocument
<1>6. candidate' \in [Candidates -> Rows]
  BY <1>2, <1>5
<1>7. docEdits' \in 0..MaxEdits
  BY <1>1, <1>2, SearchAssumption
<1>8. SearchTypes'
  BY <1>1, <1>6, <1>7 DEF SearchInv, SearchTypes
<1> QED  BY <1>1, <1>8 DEF SearchInv, RanksFit, Matched, AllRead

LEMMA FailStep ==
    ASSUME SearchInv, SearchFails
    PROVE  SearchInv'
<1>1. /\ UNCHANGED <<candidate, query, read, ranks, hits, bestChunk, shown, docEdits, edited, seen>>
      /\ phase = "reading" /\ phase' = "failed"
  BY DEF SearchFails, editVars
<1>2. SearchTypes'
  BY <1>1 DEF SearchInv, SearchTypes
<1>3. \A s : IsRead(s)' = IsRead(s)
  BY <1>1 DEF IsRead
<1>4. \A s \in Signals : SignalFits(s) => SignalFits(s)'
  BY <1>1, <1>3, SameRows DEF SignalFits
<1>5. \A d \in Candidates : HitsFit(d) => HitsFit(d)'
  BY <1>1, <1>3, SameRows DEF HitsFit
<1>6. Informed' = Informed
  BY <1>1 DEF Informed
<1>7. QuietFits => QuietFits'
  BY <1>1, <1>3, <1>4, <1>5, <1>6, SameRows DEF QuietFits
<1> QED  BY <1>1, <1>2, <1>7 DEF SearchInv, RanksFit

LEMMA WordsAreFew ==
    ASSUME SearchTypes, NEW d, NEW s
    PROVE  /\ WordsBy(d, s) \in 0..Cardinality(query) /\ Count(d, s) \in 0..Cardinality(query)
           /\ TextCount(d) \in 0..Cardinality(query) /\ Cardinality(query) \in Nat
<1>1. query \in SUBSET Words
  BY DEF SearchTypes
<1>2. Count(d, s) \in 0..Cardinality(query) /\ Cardinality(query) \in Nat
  BY <1>1, WordCount DEF Count
<1>3. TextCount(d) \in 0..Cardinality(query)
  BY <1>1, WordCount DEF TextCount
<1> QED  BY <1>2, <1>3 DEF WordsBy

LEMMA KeysAreNumbers ==
    ASSUME SearchTypes, NEW d, NEW s
    PROVE  KeyOf(d, s) \in Nat /\ MetaKey(d, s) \in Nat
<1>1. Count(d, s) \in Nat /\ Count(d, "title") \in Nat /\ TextCount(d) \in Nat /\ Newer(d) \in Nat
  BY WordsAreFew DEF Newer
<1>2. MetaKey(d, s) \in Nat /\ MetaKey(d, "title") \in Nat
  BY <1>1 DEF MetaKey
<1> QED  BY <1>1, <1>2 DEF KeyOf

\* A signal that is read raises the hits of what it found to its count.
LEMMA HitsRise ==
    ASSUME SearchTypes, candidate' = candidate, query' = query, NEW s \in Counting, IsRead(s)',
           \A t \in Counting \ {s} : IsRead(t)' = IsRead(t),
           hits' = [d \in Candidates |->
                      IF d \in FoundBy(s) THEN AtLeast(d, WordsBy(d, s)) ELSE hits[d]]
    PROVE  /\ hits' \in [Candidates -> 0..Cardinality(query')]
           /\ \A d \in Candidates : HitsFit(d) => HitsFit(d)'
<1>1. \A d \in Candidates : hits[d] \in 0..Cardinality(query) /\ hits[d] \in Nat
  BY WordsAreFew DEF SearchTypes
<1>2. \A d, t : WordsBy(d, t) \in 0..Cardinality(query) /\ WordsBy(d, t) \in Nat
  BY WordsAreFew
<1>3. \A d \in Candidates :
        hits'[d] = IF d \in FoundBy(s) /\ WordsBy(d, s) > hits[d] THEN WordsBy(d, s) ELSE hits[d]
  BY DEF AtLeast
<1>4. hits' \in [Candidates -> 0..Cardinality(query')]
  <2>1. \A d \in Candidates : hits'[d] \in 0..Cardinality(query)
    BY <1>1, <1>2, <1>3
  <2> QED  BY <2>1
<1>5. ASSUME NEW d \in Candidates, HitsFit(d) PROVE HitsFit(d)'
  <2>1. \A t : FoundBy(t)' = FoundBy(t) /\ WordsBy(d, t)' = WordsBy(d, t)
    BY SameRows
  <2>2. hits[d] <= hits'[d] /\ (d \in FoundBy(s) => WordsBy(d, s) <= hits'[d])
    BY <1>1, <1>2, <1>3
  <2>3. hits'[d] \in Nat
    BY <1>1, <1>2, <1>3
  <2>4. ASSUME NEW t \in Counting, IsRead(t)', d \in FoundBy(t) PROVE WordsBy(d, t) <= hits'[d]
    <3>1. CASE t = s
      BY <2>2, <2>4, <3>1
    <3>2. CASE t # s
      <4>1. WordsBy(d, t) <= hits[d]
        BY <1>5, <2>4, <3>2 DEF HitsFit
      <4> QED  BY <1>1, <1>2, <2>2, <2>3, <4>1
    <3> QED  BY <3>1, <3>2
  <2>5. hits'[d] = 0 \/ \E t \in Counting : IsRead(t)' /\ d \in FoundBy(t) /\ hits'[d] = WordsBy(d, t)
    <3>1. CASE d \in FoundBy(s) /\ WordsBy(d, s) > hits[d]
      BY <1>3, <3>1
    <3>2. CASE ~(d \in FoundBy(s) /\ WordsBy(d, s) > hits[d])
      <4>1. hits'[d] = hits[d]
        BY <1>3, <3>2
      <4>2. ASSUME NEW t \in Counting, IsRead(t) PROVE IsRead(t)'
        BY <4>2
      <4> QED  BY <1>5, <4>1, <4>2 DEF HitsFit
    <3> QED  BY <3>1, <3>2
  <2>6. Counting' = Counting
    BY DEF Counting, Metadata
  <2> QED  BY <2>1, <2>4, <2>5, <2>6 DEF HitsFit
<1> QED  BY <1>4, <1>5

LEMMA MetadataStep ==
    ASSUME SearchInv, ReadMetadata
    PROVE  SearchInv'
<1>0. PICK s : s = MetaOrder[read + 1]
  OBVIOUS
<1> DEFINE found == {d \in OpenNow : Count(d, s) > 0}
           whole == {d \in found : query \subseteq Texts(d, s)}
<1>1. /\ UNCHANGED <<candidate, query, bestChunk, phase, shown, docEdits, edited>>
      /\ phase = "reading" /\ read < Len(MetaOrder) /\ read' = read + 1
      /\ seen' = seen \cup OpenNow
  BY DEF ReadMetadata, resultVars, editVars
<1>2. SearchTypes /\ read \in 0..Len(MetaOrder) /\ read + 1 \in 1..Len(MetaOrder) /\ read \in Nat
  BY <1>1, SignalKinds DEF SearchInv, SearchTypes
<1>3. s \in Metadata /\ s \in Kinds /\ s \in Signals /\ s \in Counting
  BY <1>0, <1>2, SignalKinds DEF Counting
<1>4. PICK q \in SetToSeqs(found), full \in SetToSeqs(whole) :
        /\ \A i, j \in DOMAIN q : i < j => MetaKey(q[i], s) >= MetaKey(q[j], s)
        /\ InOrderOf(full, q)
        /\ ranks' = IF s = "title" THEN [ranks EXCEPT !["title"] = q, !["title_full"] = full]
                     ELSE [ranks EXCEPT ![s] = q]
  BY <1>0 DEF ReadMetadata, Ordered
<1>5. hits' = [d \in Candidates |-> IF d \in found THEN AtLeast(d, Count(d, s)) ELSE hits[d]]
  BY <1>0 DEF ReadMetadata, BestCount
<1>6. /\ found = FoundBy(s) /\ (s = "title" => whole = FoundBy("title_full"))
      /\ \A d : WordsBy(d, s) = Count(d, s)
      /\ \A d : KeyOf(d, s) = MetaKey(d, s) /\ (s = "title" => KeyOf(d, "title_full") = MetaKey(d, s))
  BY <1>3 DEF FoundBy, WordsBy, KeyOf, Kinds
<1> HIDE DEF found, whole
<1>7. found \subseteq OpenNow /\ whole \subseteq found /\ OpenNow \subseteq Candidates
  BY FoundAreOpen DEF found, whole
<1>8. /\ IsRead(s)' /\ (s = "title" => IsRead("title_full")')
      /\ \A t \in Signals \ ({s} \cup (IF s = "title" THEN {"title_full"} ELSE {})) :
           IsRead(t)' = IsRead(t) /\ ranks'[t] = ranks[t]
      /\ ranks'[s] = q /\ (s = "title" => ranks'["title_full"] = full)
      /\ DOMAIN ranks' = Signals
  <2>1. DOMAIN ranks = Signals /\ {"title_full", "fulltext", "vector"} \subseteq Signals
    BY <1>2, SignalKinds DEF SearchTypes
  <2>2. /\ ranks'[s] = q /\ (s = "title" => ranks'["title_full"] = full)
        /\ DOMAIN ranks' = Signals
        /\ \A t \in Signals \ ({s} \cup (IF s = "title" THEN {"title_full"} ELSE {})) :
             ranks'[t] = ranks[t]
    BY <1>3, <1>4, <2>1
  <2>3. \A t : (\E i \in 1..read' : MetaOrder[i] = t) <=> (t = s \/ \E i \in 1..read : MetaOrder[i] = t)
    BY <1>0, <1>1, <1>2
  <2>4. s \notin {"title_full", "fulltext", "vector"}
    BY <1>3 DEF Kinds
  <2>5. IsRead(s)' /\ (s = "title" => IsRead("title_full")')
    BY <2>3, <2>4 DEF IsRead
  <2>6. \A t \in Signals \ ({s} \cup (IF s = "title" THEN {"title_full"} ELSE {})) :
           IsRead(t)' = IsRead(t)
    BY <2>2, <2>3, <2>4 DEF IsRead
  <2> QED  BY <2>2, <2>5, <2>6
<1>9. SearchTypes' /\ \A d \in Candidates : HitsFit(d) => HitsFit(d)'
  <2>1. \A t \in Counting \ {s} : IsRead(t)' = IsRead(t)
    BY <1>3, <1>8, SignalKinds DEF Counting, Kinds
  <2>2. hits' = [d \in Candidates |->
                  IF d \in FoundBy(s) THEN AtLeast(d, WordsBy(d, s)) ELSE hits[d]]
    BY <1>5, <1>6
  <2>3. /\ hits' \in [Candidates -> 0..Cardinality(query')]
        /\ \A d \in Candidates : HitsFit(d) => HitsFit(d)'
    BY <1>1, <1>2, <1>3, <1>8, <2>1, <2>2, HitsRise
  <2> QED  BY <1>1, <1>2, <1>7, <1>8, <2>3 DEF SearchTypes
<1>10. \A t \in Signals : RanksFit(ranks[t])' \/ (ranks'[t] = Unread /\ t \in {"fulltext", "vector"})
  <2>1. \A k : RanksFit(k) => RanksFit(k)'
    BY <1>1 DEF RanksFit
  <2>2. RanksFit(q)' /\ RanksFit(full)'
    BY <1>1, <1>4, <1>7 DEF RanksFit
  <2>3. ASSUME NEW t \in Signals
        PROVE  RanksFit(ranks[t])' \/ (ranks'[t] = Unread /\ t \in {"fulltext", "vector"})
    <3>1. ranks'[t] = q \/ ranks'[t] = full \/ ranks'[t] = ranks[t]
      BY <1>8
    <3>2. RanksFit(ranks[t]) \/ (ranks[t] = Unread /\ t \in {"fulltext", "vector"})
      BY DEF SearchInv
    <3>3. t \in {"fulltext", "vector"} => ranks'[t] = ranks[t]
      BY <1>3, <1>8 DEF Kinds
    <3> QED  BY <2>1, <2>2, <3>1, <3>2, <3>3 DEF RanksFit
  <2> QED  BY <2>3
<1>11. \A a, b \in found : MetaKey(a, s) > MetaKey(b, s) => Place(q, a) < Place(q, b)
  <2> DEFINE k == [d \in found |-> MetaKey(d, s)]
  <2>1. k \in [found -> Nat] /\ \A d \in found : k[d] = MetaKey(d, s)
    BY <1>2, KeysAreNumbers
  <2>2. found \in SUBSET Candidates /\ \A i \in DOMAIN q : q[i] \in found
    BY <1>4, <1>7, PlaceInOrder
  <2> HIDE DEF k
  <2>3. \A i, j \in DOMAIN q : i < j => k[q[i]] >= k[q[j]]
    BY <1>4, <2>1, <2>2
  <2>4. \A a, b \in found : k[a] > k[b] => Place(q, a) < Place(q, b)
    BY <2>1, <2>2, <2>3, OrderByKey
  <2> QED  BY <2>1, <2>4
<1>12. \A a, b \in whole : MetaKey(a, s) > MetaKey(b, s) => Place(full, a) < Place(full, b)
  <2> SUFFICES ASSUME NEW a \in whole, NEW b \in whole, MetaKey(a, s) > MetaKey(b, s)
               PROVE  Place(full, a) < Place(full, b)
    OBVIOUS
  <2> DEFINE i == Place(full, a)
             j == Place(full, b)
  <2>1. /\ i \in DOMAIN full /\ j \in DOMAIN full /\ full[i] = a /\ full[j] = b
        /\ i \in 1..Cardinality(Candidates) /\ j \in 1..Cardinality(Candidates)
    BY <1>7, <1>4, PlaceInOrder
  <2>2. Place(q, a) < Place(q, b) /\ Place(q, a) \in Int /\ Place(q, b) \in Int
    <3>1. Place(q, a) \in 1..Cardinality(Candidates) /\ Place(q, b) \in 1..Cardinality(Candidates)
      BY <1>7, <1>4, PlaceInOrder
    <3> QED  BY <1>7, <1>11, <3>1
  <2> HIDE DEF i, j
  <2>3. i # j /\ ~(j < i)
    BY <1>4, <2>1, <2>2 DEF InOrderOf
  <2>4. i \in Int /\ j \in Int
    BY <2>1
  <2>5. i < j
    BY <2>3, <2>4
  <2> QED  BY <2>5 DEF i, j
<1>13. ASSUME QuietFits PROVE QuietFits'
  <2>1. \A t \in Signals : SignalFits(t)'
    <3> SUFFICES ASSUME NEW t \in Signals PROVE SignalFits(t)'
      OBVIOUS
    <3>1. FoundBy(t)' = FoundBy(t) /\ \A d : KeyOf(d, t)' = KeyOf(d, t)
      BY <1>1, SameRows
    <3>2. CASE t = s
      BY <1>4, <1>6, <1>8, <1>11, <3>1, <3>2 DEF SignalFits
    <3>3. CASE t = "title_full" /\ s = "title"
      BY <1>4, <1>6, <1>8, <1>12, <3>1, <3>3 DEF SignalFits
    <3>4. CASE t # s /\ ~(t = "title_full" /\ s = "title")
      <4>1. IsRead(t)' = IsRead(t) /\ ranks'[t] = ranks[t]
        BY <1>8, <3>4
      <4>2. SignalFits(t)
        BY <1>13 DEF QuietFits
      <4> QED  BY <3>1, <4>1, <4>2 DEF SignalFits
    <3> QED  BY <3>2, <3>3, <3>4
  <2>2. \A d \in Candidates : HitsFit(d)' /\ (bestChunk[d] \in {"none", Age(d)})'
    BY <1>1, <1>9, <1>13, SameRows DEF QuietFits
  <2>3. Informed' = Informed
    BY <1>1 DEF Informed
  <2>4. \A t \in {"fulltext", "vector"} : IsRead(t)' = IsRead(t) /\ FoundBy(t)' = FoundBy(t)
    BY <1>1, <1>3, <1>8, SameRows, SignalKinds DEF Kinds
  <2>5. phase' = "reading"
    BY <1>1
  <2> QED  BY <1>13, <2>1, <2>2, <2>3, <2>4, <2>5 DEF QuietFits
<1>14. phase' = "reading" /\ shown' = <<>>
  BY <1>1 DEF SearchInv
<1> QED  BY <1>1, <1>9, <1>10, <1>13, <1>14 DEF SearchInv

LEMMA FulltextStep ==
    ASSUME SearchInv, ReadFulltext
    PROVE  SearchInv'
<1> DEFINE found == {d \in OpenNow : candidate[d].content \cap query # {}}
<1>1. /\ UNCHANGED <<candidate, query, read, phase, shown, docEdits, edited>>
      /\ phase = "reading" /\ ranks["fulltext"] = Unread /\ seen' = seen \cup OpenNow
  BY DEF ReadFulltext, resultVars, editVars
<1>2. SearchTypes /\ "fulltext" \in Signals /\ "fulltext" \in Counting
  BY SignalKinds DEF SearchInv, Counting
<1>3. PICK q \in SetToSeqs(found) :
        /\ \A i, j \in DOMAIN q : i < j => TextCount(q[i]) >= TextCount(q[j])
        /\ ranks' = [ranks EXCEPT !["fulltext"] = q]
  BY DEF ReadFulltext, Ordered
<1>4. /\ hits' = [d \in Candidates |-> IF d \in found THEN AtLeast(d, TextCount(d)) ELSE hits[d]]
      /\ bestChunk' = [d \in Candidates |-> IF d \in found THEN Age(d) ELSE bestChunk[d]]
  BY DEF ReadFulltext
<1>5. /\ found = FoundBy("fulltext")
      /\ \A d : WordsBy(d, "fulltext") = TextCount(d) /\ KeyOf(d, "fulltext") = TextCount(d)
  BY DEF FoundBy, WordsBy, KeyOf
<1> HIDE DEF found
<1>6. found \subseteq OpenNow /\ OpenNow \subseteq Candidates
  BY FoundAreOpen DEF found
<1>7. q # Unread
  BY <1>3, <1>6, OrderOfSet
<1>8. /\ IsRead("fulltext")' /\ ranks'["fulltext"] = q /\ DOMAIN ranks' = Signals
      /\ \A t \in Signals \ {"fulltext"} : IsRead(t)' = IsRead(t) /\ ranks'[t] = ranks[t]
  <2>1. DOMAIN ranks = Signals
    BY <1>2 DEF SearchTypes
  <2>2. /\ ranks'["fulltext"] = q /\ DOMAIN ranks' = Signals
        /\ \A t \in Signals \ {"fulltext"} : ranks'[t] = ranks[t]
    BY <1>2, <1>3, <2>1
  <2>3. IsRead("fulltext")'
    BY <1>7, <2>2 DEF IsRead
  <2>4. \A t \in Signals \ {"fulltext"} : IsRead(t)' = IsRead(t)
    BY <1>1, <2>2 DEF IsRead
  <2> QED  BY <2>2, <2>3, <2>4
<1>9. SearchTypes' /\ \A d \in Candidates : HitsFit(d) => HitsFit(d)'
  <2>1. \A t \in Counting \ {"fulltext"} : IsRead(t)' = IsRead(t)
    BY <1>8, SignalKinds DEF Counting
  <2>2. hits' = [d \in Candidates |-> IF d \in FoundBy("fulltext")
                                      THEN AtLeast(d, WordsBy(d, "fulltext")) ELSE hits[d]]
    BY <1>4, <1>5
  <2>3. /\ hits' \in [Candidates -> 0..Cardinality(query')]
        /\ \A d \in Candidates : HitsFit(d) => HitsFit(d)'
    BY <1>1, <1>2, <1>8, <2>1, <2>2, HitsRise
  <2>4. bestChunk' \in [Candidates -> {"none", "old", "new"}]
    BY <1>2, <1>4 DEF SearchTypes, Age
  <2> QED  BY <1>1, <1>2, <1>6, <1>8, <2>3, <2>4 DEF SearchTypes
<1>10. \A t \in Signals : RanksFit(ranks[t])' \/ (ranks'[t] = Unread /\ t \in {"fulltext", "vector"})
  <2>1. \A k : RanksFit(k) => RanksFit(k)'
    BY <1>1 DEF RanksFit
  <2>2. RanksFit(q)'
    BY <1>1, <1>3, <1>6 DEF RanksFit
  <2>3. ASSUME NEW t \in Signals
        PROVE  RanksFit(ranks[t])' \/ (ranks'[t] = Unread /\ t \in {"fulltext", "vector"})
    <3>1. ranks'[t] = q \/ ranks'[t] = ranks[t]
      BY <1>8
    <3>2. RanksFit(ranks[t]) \/ (ranks[t] = Unread /\ t \in {"fulltext", "vector"})
      BY DEF SearchInv
    <3> QED  BY <2>1, <2>2, <3>1, <3>2 DEF RanksFit
  <2> QED  BY <2>3
<1>11. \A a, b \in found : TextCount(a) > TextCount(b) => Place(q, a) < Place(q, b)
  <2> DEFINE k == [d \in found |-> TextCount(d)]
  <2>1. k \in [found -> Nat] /\ \A d \in found : k[d] = TextCount(d)
    BY <1>2, WordsAreFew
  <2>2. found \in SUBSET Candidates /\ \A i \in DOMAIN q : q[i] \in found
    BY <1>3, <1>6, PlaceInOrder
  <2> HIDE DEF k
  <2>3. \A i, j \in DOMAIN q : i < j => k[q[i]] >= k[q[j]]
    BY <1>3, <2>1, <2>2
  <2>4. \A a, b \in found : k[a] > k[b] => Place(q, a) < Place(q, b)
    BY <2>1, <2>2, <2>3, OrderByKey
  <2> QED  BY <2>1, <2>4
<1>12. Informed' = Informed \cup found
  BY <1>4, <1>6 DEF Informed, Age
<1>13. ASSUME QuietFits PROVE QuietFits'
  <2>1. \A t \in Signals : SignalFits(t)'
    <3> SUFFICES ASSUME NEW t \in Signals PROVE SignalFits(t)'
      OBVIOUS
    <3>1. FoundBy(t)' = FoundBy(t) /\ \A d : KeyOf(d, t)' = KeyOf(d, t)
      BY <1>1, SameRows
    <3>2. CASE t = "fulltext"
      BY <1>3, <1>5, <1>8, <1>11, <3>1, <3>2 DEF SignalFits
    <3>3. CASE t # "fulltext"
      <4>1. IsRead(t)' = IsRead(t) /\ ranks'[t] = ranks[t]
        BY <1>8, <3>3
      <4>2. SignalFits(t)
        BY <1>13 DEF QuietFits
      <4> QED  BY <3>1, <4>1, <4>2 DEF SignalFits
    <3> QED  BY <3>2, <3>3
  <2>2. \A d \in Candidates : HitsFit(d)' /\ (bestChunk[d] \in {"none", Age(d)})'
    BY <1>1, <1>4, <1>9, <1>13, SameRows DEF QuietFits
  <2>3. \A t \in {"fulltext", "vector"} : IsRead(t)' => FoundBy(t)' \subseteq Informed'
    <3>1. FoundBy("fulltext")' = found /\ FoundBy("vector")' = FoundBy("vector")
      BY <1>1, <1>5, SameRows
    <3>2. IsRead("vector")' = IsRead("vector")
      BY <1>8, SignalKinds
    <3>3. IsRead("vector") => FoundBy("vector") \subseteq Informed
      BY <1>13 DEF QuietFits
    <3> QED  BY <1>12, <3>1, <3>2, <3>3
  <2>4. phase' = "reading"
    BY <1>1
  <2> QED  BY <2>1, <2>2, <2>3, <2>4 DEF QuietFits
<1>14. phase' = "reading" /\ shown' = <<>>
  BY <1>1 DEF SearchInv
<1> QED  BY <1>1, <1>9, <1>10, <1>13, <1>14 DEF SearchInv

LEMMA VectorStep ==
    ASSUME SearchInv, ReadVector
    PROVE  SearchInv'
<1> DEFINE found == {d \in Candidates : VectorOpen(d) /\ candidate[d].near}
<1>1. /\ UNCHANGED <<candidate, query, read, hits, phase, shown, docEdits, edited>>
      /\ phase = "reading" /\ ranks["vector"] = Unread /\ seen' = seen \cup OpenNow
  BY DEF ReadVector, resultVars, editVars
<1>2. SearchTypes /\ "vector" \in Signals
  BY SignalKinds DEF SearchInv
<1>3. PICK q \in SetToSeqs(found) : ranks' = [ranks EXCEPT !["vector"] = q]
  BY DEF ReadVector
<1>4. bestChunk' = [d \in Candidates |-> IF d \in found \ Informed THEN Age(d) ELSE bestChunk[d]]
  BY DEF ReadVector
<1>5. found = FoundBy("vector") /\ \A d : KeyOf(d, "vector") = 0
  BY DEF FoundBy, KeyOf, OpenNow, VectorOpen
<1> HIDE DEF found
<1>6. found \subseteq OpenNow /\ OpenNow \subseteq Candidates
  BY <1>5, FoundAreOpen
<1>7. q # Unread
  BY <1>3, <1>6, OrderOfSet
<1>8. /\ IsRead("vector")' /\ ranks'["vector"] = q /\ DOMAIN ranks' = Signals
      /\ \A t \in Signals \ {"vector"} : IsRead(t)' = IsRead(t) /\ ranks'[t] = ranks[t]
  <2>1. DOMAIN ranks = Signals
    BY <1>2 DEF SearchTypes
  <2>2. /\ ranks'["vector"] = q /\ DOMAIN ranks' = Signals
        /\ \A t \in Signals \ {"vector"} : ranks'[t] = ranks[t]
    BY <1>2, <1>3, <2>1
  <2>3. IsRead("vector")'
    BY <1>7, <2>2 DEF IsRead
  <2>4. \A t \in Signals \ {"vector"} : IsRead(t)' = IsRead(t)
    BY <1>1, <2>2 DEF IsRead
  <2> QED  BY <2>2, <2>3, <2>4
<1>9. SearchTypes'
  <2>1. bestChunk' \in [Candidates -> {"none", "old", "new"}]
    BY <1>2, <1>4 DEF SearchTypes, Age
  <2> QED  BY <1>1, <1>2, <1>6, <1>8, <2>1 DEF SearchTypes
<1>10. \A t \in Signals : RanksFit(ranks[t])' \/ (ranks'[t] = Unread /\ t \in {"fulltext", "vector"})
  <2>1. \A k : RanksFit(k) => RanksFit(k)'
    BY <1>1 DEF RanksFit
  <2>2. RanksFit(q)'
    BY <1>1, <1>3, <1>6 DEF RanksFit
  <2>3. ASSUME NEW t \in Signals
        PROVE  RanksFit(ranks[t])' \/ (ranks'[t] = Unread /\ t \in {"fulltext", "vector"})
    <3>1. ranks'[t] = q \/ ranks'[t] = ranks[t]
      BY <1>8
    <3>2. RanksFit(ranks[t]) \/ (ranks[t] = Unread /\ t \in {"fulltext", "vector"})
      BY DEF SearchInv
    <3> QED  BY <2>1, <2>2, <3>1, <3>2 DEF RanksFit
  <2> QED  BY <2>3
<1>11. Informed' = Informed \cup found
  BY <1>4, <1>6 DEF Informed, Age
<1>12. ASSUME QuietFits PROVE QuietFits'
  <2>1. \A t \in Signals : SignalFits(t)'
    <3> SUFFICES ASSUME NEW t \in Signals PROVE SignalFits(t)'
      OBVIOUS
    <3>1. FoundBy(t)' = FoundBy(t) /\ \A d : KeyOf(d, t)' = KeyOf(d, t)
      BY <1>1, SameRows
    <3>2. CASE t = "vector"
      BY <1>3, <1>5, <1>8, <3>1, <3>2 DEF SignalFits
    <3>3. CASE t # "vector"
      <4>1. IsRead(t)' = IsRead(t) /\ ranks'[t] = ranks[t]
        BY <1>8, <3>3
      <4>2. SignalFits(t)
        BY <1>12 DEF QuietFits
      <4> QED  BY <3>1, <4>1, <4>2 DEF SignalFits
    <3> QED  BY <3>2, <3>3
  <2>2. \A d \in Candidates : HitsFit(d)'
    <3>1. \A t \in Counting : IsRead(t)' = IsRead(t)
      BY <1>8, SignalKinds DEF Counting, Kinds
    <3>2. \A d \in Candidates : HitsFit(d)
      BY <1>12 DEF QuietFits
    <3> QED  BY <1>1, <3>1, <3>2, SameRows DEF HitsFit, Counting, Metadata
  <2>3. \A d \in Candidates : (bestChunk[d] \in {"none", Age(d)})'
    BY <1>1, <1>4, <1>12, SameRows DEF QuietFits
  <2>4. \A t \in {"fulltext", "vector"} : IsRead(t)' => FoundBy(t)' \subseteq Informed'
    <3>1. FoundBy("vector")' = found /\ FoundBy("fulltext")' = FoundBy("fulltext")
      BY <1>1, <1>5, SameRows
    <3>2. IsRead("fulltext")' = IsRead("fulltext")
      BY <1>8, SignalKinds
    <3>3. IsRead("fulltext") => FoundBy("fulltext") \subseteq Informed
      BY <1>12 DEF QuietFits
    <3> QED  BY <1>11, <3>1, <3>2, <3>3
  <2>5. phase' = "reading"
    BY <1>1
  <2> QED  BY <2>1, <2>2, <2>3, <2>4, <2>5 DEF QuietFits
<1>13. phase' = "reading" /\ shown' = <<>>
  BY <1>1 DEF SearchInv
<1> QED  BY <1>1, <1>9, <1>10, <1>12, <1>13 DEF SearchInv

\* Once all is read, what matched is what the signals find.
LEMMA MatchedIsFound ==
    ASSUME SearchInv, AllRead, QuietFits
    PROVE  /\ Matched \subseteq OpenNow
           /\ Matched = {d \in OpenNow : \E s \in Metadata \cup {"fulltext", "vector"} : d \in FoundBy(s)}
           /\ \A s \in Metadata \cup {"fulltext", "vector"} :
                IsRead(s) /\ Range(ranks[s]) = FoundBy(s)
           /\ \/ IsRead("title_full") /\ Range(ranks["title_full"]) = FoundBy("title_full")
                 /\ "title" \in Metadata
              \/ Range(ranks["title_full"]) = {}
<1>1. \A s : FoundBy(s) \in SUBSET Candidates
  BY FoundAreOpen
<1>2. ASSUME NEW s \in Signals, IsRead(s) PROVE Range(ranks[s]) = FoundBy(s)
  <2>1. ranks[s] \in SetToSeqs(FoundBy(s))
    BY <1>2 DEF QuietFits, SignalFits
  <2> QED  BY <1>1, <2>1, OrderOfSet
<1>3. \A s \in Metadata \cup {"fulltext", "vector"} : IsRead(s)
  BY SignalKinds DEF AllRead, IsRead, Kinds
<1>4. ~IsRead("title_full") => Range(ranks["title_full"]) = {}
  BY NoDocuments, SignalKinds DEF QuietFits, SignalFits
<1>5. IsRead("title_full") => "title" \in Metadata /\ FoundBy("title_full") \subseteq FoundBy("title")
  <2>1. IsRead("title_full") => "title" \in Metadata
    BY SignalKinds DEF IsRead, AllRead
  <2>2. FoundBy("title_full") \subseteq FoundBy("title")
    BY DEF FoundBy
  <2> QED  BY <2>1, <2>2
<1>6. \A d : d \in Matched <=> d \in Candidates /\ \E s \in Signals : d \in Range(ranks[s])
  BY DEF Matched
<1>7. \A s \in Metadata \cup {"fulltext", "vector"} : Range(ranks[s]) = FoundBy(s)
  BY <1>2, <1>3, SignalKinds
<1>8. Matched = {d \in OpenNow : \E s \in Metadata \cup {"fulltext", "vector"} : d \in FoundBy(s)}
  <2>1. ASSUME NEW d \in Candidates, NEW s \in Signals, d \in Range(ranks[s])
        PROVE  \E t \in Metadata \cup {"fulltext", "vector"} : d \in FoundBy(t)
    <3>1. CASE s = "title_full"
      BY <1>2, <1>4, <1>5, <2>1, <3>1
    <3>2. CASE s # "title_full"
      BY <1>7, <2>1, <3>2, SignalKinds
    <3> QED  BY <3>1, <3>2
  <2>2. \A s : FoundBy(s) \subseteq OpenNow
    BY FoundAreOpen
  <2> QED  BY <1>1, <1>6, <1>7, <2>1, <2>2, SignalKinds
<1> QED  BY <1>2, <1>3, <1>4, <1>5, <1>7, <1>8, SignalKinds

-----------------------------------------------------------------------------
(* Scores of a search that nothing changed                                 *)

LEMMA SameScores ==
    ASSUME UNCHANGED <<query, ranks, hits, bestChunk>>
    PROVE  /\ \A d : Score(d)' = Score(d)
           /\ Matched' = Matched /\ Informed' = Informed
<1>1. \A d, s : FromRank(s, d)' = FromRank(s, d)
  BY DEF FromRank
<1>2. \A d : Fused(d)' = Fused(d)
  BY <1>1 DEF Fused
<1>3. \A d : VectorOnly(d)' = VectorOnly(d) /\ MatchRatio(d)' = MatchRatio(d)
  BY DEF VectorOnly, MatchRatio
<1>4. \A d : Penalty(d)' = Penalty(d) /\ Freshness(d)' = Freshness(d)
  BY <1>3 DEF Penalty, Freshness
<1>5. \A d : Score(d)' = Score(d)
  BY <1>2, <1>4 DEF Score
<1> QED  BY <1>5 DEF Matched, Informed

\* The weight of a match: between 1 and the square of the words of the query.
LEMMA RatioRises ==
    ASSUME SearchTypes, query # {}
    PROVE  /\ \A d \in Candidates : MatchRatio(d) \in Nat /\ (hits[d] # 0 => MatchRatio(d) # 0)
           /\ \A a, b \in Candidates : hits[b] <= hits[a] => MatchRatio(b) <= MatchRatio(a)
           /\ Square(Cardinality(query)) \in Nat \ {0}
<1> DEFINE n == Cardinality(query)
<1>1. n \in Nat /\ n # 0
  <2>1. IsFiniteSet(query)
    BY SearchAssumption, FS_Subset DEF SearchTypes
  <2> QED  BY <2>1, FS_CardinalityType, FS_EmptySet
<1>2. \A d \in Candidates : hits[d] \in Nat
  BY <1>1 DEF SearchTypes
<1>3. \A d \in Candidates : Min({hits[d], n}) = IF hits[d] <= n THEN hits[d] ELSE n
  BY <1>1, <1>2, LessOfTwo
<1>4. \A d \in Candidates : MatchRatio(d) = IF n = 1 THEN 1 ELSE Min({hits[d], n}) * Min({hits[d], n})
  BY DEF MatchRatio, Square
<1>5. Square(n) = n * n
  BY DEF Square
<1> HIDE DEF n
<1>6. \A x \in Nat : x * x \in Nat /\ (x # 0 => x * x # 0)
  OBVIOUS
<1>7. ASSUME NEW x \in Nat, NEW y \in Nat, x <= y PROVE x * x <= y * y
  <2>1. x * x <= x * y /\ x * y <= y * y
    BY <1>7
  <2>2. x * x \in Nat /\ x * y \in Nat /\ y * y \in Nat
    OBVIOUS
  <2> QED  BY <2>1, <2>2
<1>8. ASSUME NEW d \in Candidates PROVE MatchRatio(d) \in Nat /\ (hits[d] # 0 => MatchRatio(d) # 0)
  <2> DEFINE m == Min({hits[d], n})
  <2>1. m \in Nat /\ (hits[d] # 0 => m # 0)
    BY <1>1, <1>2, <1>3
  <2> HIDE DEF m
  <2>2. m * m \in Nat /\ (m # 0 => m * m # 0)
    BY <1>6, <2>1
  <2>3. MatchRatio(d) = IF n = 1 THEN 1 ELSE m * m
    BY <1>4 DEF m
  <2> QED  BY <2>1, <2>2, <2>3
<1>9. ASSUME NEW a \in Candidates, NEW b \in Candidates, hits[b] <= hits[a]
      PROVE  MatchRatio(b) <= MatchRatio(a)
  <2> DEFINE x == Min({hits[b], n})
             y == Min({hits[a], n})
  <2>1. x \in Nat /\ y \in Nat /\ x <= y
    BY <1>1, <1>2, <1>3, <1>9
  <2> HIDE DEF x, y
  <2>2. x * x <= y * y
    BY <1>7, <2>1
  <2>3. MatchRatio(b) = (IF n = 1 THEN 1 ELSE x * x) /\ MatchRatio(a) = (IF n = 1 THEN 1 ELSE y * y)
    BY <1>4 DEF x, y
  <2> QED  BY <2>2, <2>3
<1>10. Square(n) \in Nat \ {0}
  BY <1>1, <1>5, <1>6
<1> QED  BY <1>8, <1>9, <1>10 DEF n

\* Who stands before another in every signal that has the other gets more from each.
LEMMA RanksPay ==
    ASSUME SearchInv, AllRead, QuietFits, NEW a \in Matched, NEW b \in Matched,
           \A s \in Signals : b \in Range(ranks[s]) =>
              a \in Range(ranks[s]) /\ Place(ranks[s], a) < Place(ranks[s], b)
    PROVE  Fused(a) \in Nat /\ Fused(b) \in Nat /\ Fused(b) < Fused(a)
<1>1. ASSUME NEW s
      PROVE  /\ FromRank(s, a) \in Nat /\ FromRank(s, b) \in Nat /\ FromRank(s, b) <= FromRank(s, a)
             /\ s \in Signals /\ b \in Range(ranks[s]) => FromRank(s, b) < FromRank(s, a)
  <2>1. CASE s \notin Signals
    BY <2>1 DEF FromRank
  <2>2. CASE s \in Signals
    <3>1. Weight(s) \in Nat \ {0}
      BY <2>2, SignalKinds DEF Weight, Kinds
    <3>2. PICK S \in SUBSET Candidates : ranks[s] \in SetToSeqs(S)
      <4>1. IsRead(s) => ranks[s] \in SetToSeqs(FoundBy(s))
        BY <2>2 DEF QuietFits, SignalFits
      <4>2. ~IsRead(s) => s \in {"fulltext", "vector"} \/ ranks[s] = <<>>
        BY <2>2 DEF QuietFits, SignalFits
      <4>3. s \in {"fulltext", "vector"} => IsRead(s)
        BY DEF AllRead, IsRead
      <4> QED  BY <4>1, <4>2, <4>3, NoDocuments, FoundAreOpen
    <3>3. Range(ranks[s]) = S
      BY <3>2, OrderOfSet
    <3>4. \A d \in S : Place(ranks[s], d) \in 1..Cardinality(Candidates)
      BY <3>2, PlaceInOrder
    <3> DEFINE x == Scale \div (RrfK + Place(ranks[s], a))
               y == Scale \div (RrfK + Place(ranks[s], b))
    <3>5. a \in S => x \in Nat
      <4>1. Cardinality(Candidates) \in Nat
        BY SearchAssumption, FS_CardinalityType
      <4> DEFINE c == RrfK + Place(ranks[s], a)
      <4>2. a \in S => c \in Nat \ {0}
        BY <3>4, <4>1 DEF RrfK
      <4> HIDE DEF c
      <4>3. a \in S => Scale \div c \in Nat
        BY <4>2, SearchAssumption
      <4> QED  BY <4>3 DEF c
    <3>6. b \in S => a \in S /\ x \in Nat /\ y \in Nat /\ y < x
      BY <2>2, <3>3, <3>4, PlacePays
    <3>7. /\ FromRank(s, a) = (IF a \in S THEN Weight(s) * x ELSE 0)
          /\ FromRank(s, b) = (IF b \in S THEN Weight(s) * y ELSE 0)
      BY <2>2, <3>3 DEF FromRank
    <3> HIDE DEF x, y
    <3> DEFINE w == Weight(s)
    <3>8. w \in Nat \ {0}
      BY <3>1
    <3> HIDE DEF w
    <3>9. a \in S => w * x \in Nat
      BY <3>5, <3>8
    <3>10. b \in S => w * y \in Nat /\ w * y < w * x
      BY <3>6, <3>8
    <3>11. /\ FromRank(s, a) = (IF a \in S THEN w * x ELSE 0)
           /\ FromRank(s, b) = (IF b \in S THEN w * y ELSE 0)
      BY <3>7 DEF w
    <3> QED  BY <3>3, <3>6, <3>9, <3>10, <3>11
  <2> QED  BY <2>1, <2>2
<1>2. PICK s \in Signals : b \in Range(ranks[s])
  BY DEF Matched
<1>3. s \in {"title", "title_full", "filename", "tag", "memo", "summary", "fulltext", "vector"}
  BY SignalKinds DEF Kinds
<1>4. FromRank(s, b) < FromRank(s, a)
  BY <1>1, <1>2
<1> QED  BY <1>1, <1>3, <1>4 DEF Fused

\* When no document changes, who stands before another everywhere has the higher score.
LEMMA AheadScores ==
    ASSUME SearchInv, AllRead, QuietFits, query # {}, Matched \subseteq Informed,
           NEW a \in Matched, NEW b \in Matched, AheadEverywhere(a, b)
    PROVE  Score(a) \in Nat /\ Score(b) \in Nat /\ Score(b) < Score(a)
<1>1. /\ a \in OpenNow /\ b \in OpenNow /\ a \in Candidates /\ b \in Candidates /\ SearchTypes
      /\ Matched = {d \in OpenNow : \E s \in Metadata \cup {"fulltext", "vector"} : d \in FoundBy(s)}
      /\ \A s \in Metadata \cup {"fulltext", "vector"} : IsRead(s) /\ Range(ranks[s]) = FoundBy(s)
      /\ \/ IsRead("title_full") /\ Range(ranks["title_full"]) = FoundBy("title_full")
           /\ "title" \in Metadata
         \/ Range(ranks["title_full"]) = {}
  BY MatchedIsFound DEF SearchInv, Matched
<1>2. /\ \A d, s : Count(d, s) \in Nat /\ TextCount(d) \in Nat
      /\ \A d \in Candidates : hits[d] \in Nat
      /\ Cardinality(query) \in Nat
  BY <1>1, WordsAreFew DEF SearchTypes
<1>3. \A d : Newer(d) \in {0, 1}
  BY DEF Newer
<1>4. ASSUME NEW s, MetaKey(a, s) > MetaKey(b, s) PROVE Count(b, s) <= Count(a, s)
  <2>1. /\ Count(a, s) \in Nat /\ Count(b, s) \in Nat /\ Newer(a) \in {0, 1} /\ Newer(b) \in {0, 1}
        /\ MetaKey(a, s) = 2 * Count(a, s) + Newer(a) /\ MetaKey(b, s) = 2 * Count(b, s) + Newer(b)
    BY <1>2, <1>3 DEF MetaKey
  <2> QED  BY <1>4, <2>1
\* In each signal that finds b, a is found, and comes first.
<1>5. ASSUME NEW s \in Metadata, b \in FoundBy(s)
      PROVE  a \in FoundBy(s) /\ MetaKey(a, s) > MetaKey(b, s) /\ Count(b, s) <= Count(a, s)
  <2>1. FoundBy(s) = {d \in OpenNow : Count(d, s) > 0}
    BY SignalKinds DEF FoundBy, Kinds
  <2>2. Count(b, s) > 0 /\ MetaKey(a, s) > MetaKey(b, s)
    BY <1>5, <2>1 DEF AheadEverywhere
  <2>3. Count(b, s) <= Count(a, s)
    BY <1>4, <2>2
  <2> QED  BY <1>1, <1>2, <2>1, <2>2, <2>3
<1>6. ASSUME b \in FoundBy("fulltext")
      PROVE  a \in FoundBy("fulltext") /\ TextCount(a) > TextCount(b)
  BY <1>1, <1>6 DEF FoundBy, AheadEverywhere
<1>7. ASSUME b \in FoundBy("title_full"), "title" \in Metadata
      PROVE  a \in FoundBy("title_full") /\ MetaKey(a, "title") > MetaKey(b, "title")
  <2>1. b \in FoundBy("title") /\ query \subseteq Texts(b, "title")
    BY <1>7 DEF FoundBy
  <2>2. a \in FoundBy("title") /\ MetaKey(a, "title") > MetaKey(b, "title")
        /\ Count(b, "title") <= Count(a, "title")
    BY <1>5, <1>7, <2>1
  <2>3. Count(b, "title") = Cardinality(query) /\ Count(a, "title") \in 0..Cardinality(query)
    BY <1>1, <2>1, WordCount DEF Count, SearchTypes
  <2>4. Count(a, "title") = Cardinality(query)
    BY <1>2, <2>2, <2>3
  <2>5. query \subseteq Texts(a, "title")
    BY <1>1, <2>4, WordCount DEF Count, SearchTypes
  <2> QED  BY <2>2, <2>5 DEF FoundBy
<1>8. ASSUME NEW s \in Signals, b \in Range(ranks[s])
      PROVE  a \in Range(ranks[s]) /\ Place(ranks[s], a) < Place(ranks[s], b)
  <2>1. \A d \in FoundBy(s), e \in FoundBy(s) :
          IsRead(s) /\ KeyOf(d, s) > KeyOf(e, s) => Place(ranks[s], d) < Place(ranks[s], e)
    BY DEF QuietFits, SignalFits
  <2>2. CASE s \in Metadata
    <3>1. KeyOf(a, s) = MetaKey(a, s) /\ KeyOf(b, s) = MetaKey(b, s)
      BY <2>2, SignalKinds DEF KeyOf, Kinds
    <3> QED  BY <1>1, <1>5, <1>8, <2>1, <2>2, <3>1
  <2>3. CASE s = "fulltext"
    <3>1. KeyOf(a, s) = TextCount(a) /\ KeyOf(b, s) = TextCount(b)
      BY <2>3 DEF KeyOf
    <3> QED  BY <1>1, <1>6, <1>8, <2>1, <2>3, <3>1
  <2>4. CASE s = "title_full"
    <3>1. KeyOf(a, s) = MetaKey(a, "title") /\ KeyOf(b, s) = MetaKey(b, "title")
      BY <2>4 DEF KeyOf
    <3> QED  BY <1>1, <1>7, <1>8, <2>1, <2>4, <3>1
  <2>5. CASE s = "vector"
    <3>1. candidate[b].near
      BY <1>1, <1>8, <2>5 DEF FoundBy
    <3> QED  BY <1>1, <1>8, <2>5, <3>1 DEF FoundBy, AheadEverywhere
  <2> QED  BY <2>2, <2>3, <2>4, <2>5, SignalKinds
<1>9. Fused(a) \in Nat /\ Fused(b) \in Nat /\ Fused(b) < Fused(a)
  BY <1>8, RanksPay
<1>10. ASSUME NEW d \in OpenNow PROVE hits[d] = 0 <=> ~MatchesWord(d)
  <2>1. d \in Candidates /\ HitsFit(d)
    BY FoundAreOpen DEF QuietFits
  <2>2. ASSUME NEW s \in Counting, d \in FoundBy(s) PROVE hits[d] # 0 /\ MatchesWord(d)
    <3>1. WordsBy(d, s) \in Nat /\ WordsBy(d, s) # 0 /\ MatchesWord(d)
      <4>1. CASE s = "fulltext"
        <5>1. candidate[d].content \cap query # {}
          BY <2>2, <4>1 DEF FoundBy
        <5>2. (candidate[d].content \cup candidate[d].title) \cap query # {}
          BY <5>1
        <5>3. TextCount(d) # 0
          BY <1>1, <5>2, WordCount DEF TextCount, SearchTypes
        <5> QED  BY <1>2, <4>1, <5>1, <5>3 DEF WordsBy, MatchesWord
      <4>2. CASE s \in Metadata
        <5>1. FoundBy(s) = {x \in OpenNow : Count(x, s) > 0} /\ WordsBy(d, s) = Count(d, s)
          BY <4>2, SignalKinds DEF FoundBy, WordsBy, Kinds
        <5> QED  BY <1>2, <2>2, <4>2, <5>1 DEF MatchesWord
      <4> QED  BY <4>1, <4>2 DEF Counting
    <3>2. IsRead(s)
      BY <1>1 DEF Counting
    <3>3. WordsBy(d, s) <= hits[d]
      BY <2>1, <2>2, <3>2 DEF HitsFit
    <3> QED  BY <1>2, <2>1, <3>1, <3>3
  <2>3. ASSUME MatchesWord(d) PROVE \E s \in Counting : d \in FoundBy(s)
    <3>1. CASE candidate[d].content \cap query # {}
      BY <3>1 DEF FoundBy, Counting
    <3>2. ASSUME NEW s \in Metadata, Count(d, s) > 0 PROVE \E t \in Counting : d \in FoundBy(t)
      BY <3>2, SignalKinds DEF FoundBy, Counting, Kinds
    <3> QED  BY <2>3, <3>1, <3>2 DEF MatchesWord
  <2>4. hits[d] # 0 => \E s \in Counting : d \in FoundBy(s)
    BY <2>1 DEF HitsFit
  <2> QED  BY <2>2, <2>3, <2>4
<1>11. hits[b] <= hits[a] /\ (hits[b] = 0 => hits[a] = 0)
  <2>1. hits[b] = 0 => hits[a] = 0
    BY <1>1, <1>10 DEF AheadEverywhere
  <2>2. ASSUME NEW s \in Counting, b \in FoundBy(s), hits[b] = WordsBy(b, s)
        PROVE  hits[b] <= hits[a]
    <3>1. a \in FoundBy(s) /\ WordsBy(b, s) <= WordsBy(a, s)
      <4>1. CASE s = "fulltext"
        BY <1>2, <1>6, <2>2, <4>1 DEF WordsBy
      <4>2. CASE s \in Metadata
        BY <1>5, <2>2, <4>2, SignalKinds DEF WordsBy, Kinds
      <4> QED  BY <4>1, <4>2 DEF Counting
    <3>2. IsRead(s) /\ WordsBy(a, s) \in Nat /\ WordsBy(b, s) \in Nat
      BY <1>1, <1>2 DEF Counting, WordsBy
    <3>3. WordsBy(a, s) <= hits[a]
      BY <1>1, <3>1, <3>2 DEF QuietFits, HitsFit
    <3> QED  BY <1>1, <1>2, <2>2, <3>1, <3>2, <3>3
  <2>3. hits[b] = 0 \/ \E s \in Counting : b \in FoundBy(s) /\ hits[b] = WordsBy(b, s)
    BY <1>1 DEF QuietFits, HitsFit
  <2> QED  BY <1>1, <1>2, <2>1, <2>2, <2>3
<1>12. ASSUME NEW d \in Matched, hits[d] = 0 PROVE d \in Range(ranks["vector"])
  <2>1. d \in OpenNow
    BY <1>1
  <2>2. ~MatchesWord(d)
    BY <1>10, <1>12, <2>1
  <2>3. PICK s \in Metadata \cup {"fulltext", "vector"} : d \in FoundBy(s)
    BY <1>1
  <2>4. s \notin Metadata
    <3>1. s \in Metadata => FoundBy(s) = {x \in OpenNow : Count(x, s) > 0}
      BY SignalKinds DEF FoundBy, Kinds
    <3> QED  BY <2>2, <2>3, <3>1 DEF MatchesWord
  <2>5. s # "fulltext"
    BY <2>2, <2>3 DEF FoundBy, MatchesWord
  <2>6. s = "vector"
    BY <2>4, <2>5
  <2> QED  BY <1>1, <2>3, <2>6
<1> DEFINE p == Penalty(b)
           r == Penalty(a)
           x == Freshness(b)
           y == Freshness(a)
<1>13. p \in Nat /\ p # 0 /\ r \in Nat /\ p <= r /\ x \in Nat /\ y \in Nat /\ x <= y
  <2>1. CASE hits[b] = 0
    <3>1. VectorOnly(a) /\ VectorOnly(b)
      BY <1>11, <1>12, <2>1 DEF VectorOnly
    <3> DEFINE q == Square(Cardinality(query))
    <3>2. q \in Nat \ {0}
      BY <1>1, RatioRises
    <3>3. p = q /\ r = q /\ x = 0 /\ y = 0
      BY <3>1 DEF Penalty, Freshness
    <3> HIDE DEF p, r, x, y, q
    <3> QED  BY <3>2, <3>3
  <2>2. CASE hits[b] # 0
    <3>1. ~VectorOnly(a) /\ ~VectorOnly(b)
      BY <1>1, <1>2, <1>11, <2>2 DEF VectorOnly
    <3> DEFINE m == MatchRatio(b)
               n == MatchRatio(a)
               e == IF bestChunk[b] = "new" THEN 4 ELSE 2
               g == IF bestChunk[a] = "new" THEN 4 ELSE 2
    <3>2. m \in Nat /\ m # 0 /\ n \in Nat /\ m <= n
      BY <1>1, <1>11, <2>2, RatioRises
    <3>3. p = m /\ r = n /\ x = e * Scale * m /\ y = g * Scale * n
      BY <3>1 DEF Penalty, Freshness
    <3>4. bestChunk[a] = Age(a) /\ bestChunk[b] = Age(b)
      BY <1>1 DEF QuietFits, Informed
    <3>5. bestChunk[b] = "new" => bestChunk[a] = "new"
      BY <3>4 DEF Age, AheadEverywhere
    <3>6. e \in {2, 4} /\ g \in {2, 4} /\ e <= g
      BY <3>5
    <3> HIDE DEF p, r, x, y, m, n, e, g
    <3>7. Scale \in Nat
      BY SearchAssumption
    <3> DEFINE u == Scale * m
               v == Scale * n
    <3>8. u \in Nat /\ v \in Nat /\ u <= v
      BY <3>2, <3>7
    <3>9. e * Scale * m = e * u /\ g * Scale * n = g * v
      BY <3>2, <3>6, <3>7
    <3> HIDE DEF u, v
    <3>10. e * u \in Nat /\ g * v \in Nat /\ e * u <= g * v
      BY <3>6, <3>8
    <3> QED  BY <3>2, <3>3, <3>9, <3>10
  <2> QED  BY <2>1, <2>2
<1> HIDE DEF p, r, x, y
<1> DEFINE f == Fused(b)
           g == Fused(a)
<1>14. f \in Nat /\ g \in Nat /\ f < g
  BY <1>9
<1>15. Score(b) = 20 * f * p + x /\ Score(a) = 20 * g * r + y
  BY DEF Score, p, r, x, y
<1> HIDE DEF f, g
<1>16. 20 * f * p + x < 20 * g * r + y
  BY <1>13, <1>14, MoreScores
<1>17. 20 * f * p + x \in Nat /\ 20 * g * r + y \in Nat
  <2>1. 20 * f \in Nat /\ 20 * g \in Nat
    BY <1>14
  <2>2. 20 * f * p \in Nat /\ 20 * g * r \in Nat
    BY <1>13, <2>1
  <2> QED  BY <1>13, <2>2
<1> QED  BY <1>15, <1>16, <1>17

\* The rows that no signal's session has told of are read when the score is made.
LEMMA FuseStep ==
    ASSUME SearchInv, Fuse
    PROVE  SearchInv'
<1>1. /\ UNCHANGED <<candidate, query, read, ranks, hits, shown, docEdits, edited, seen>>
      /\ phase = "reading" /\ phase' = "page" /\ AllRead /\ query # {}
      /\ bestChunk' = [d \in Candidates |-> IF d \in FetchMissing THEN Age(d) ELSE bestChunk[d]]
  BY DEF Fuse, editVars
<1>2. SearchTypes
  BY DEF SearchInv
<1>3. SearchTypes'
  <2>1. bestChunk' \in [Candidates -> {"none", "old", "new"}]
    BY <1>1, <1>2 DEF SearchTypes, Age
  <2> QED  BY <1>1, <1>2, <2>1 DEF SearchTypes
<1>4. AllRead' /\ Matched' = Matched
  BY <1>1 DEF AllRead, Matched
<1>5. \A s : IsRead(s)' = IsRead(s)
  BY <1>1 DEF IsRead
<1>6. Informed' = Informed \cup FetchMissing
  BY <1>1 DEF Informed, Age, FetchMissing, Matched
<1>7. ASSUME QuietFits PROVE QuietFits'
  <2>1. \A s \in Signals : SignalFits(s)'
    BY <1>1, <1>5, <1>7, SameRows DEF QuietFits, SignalFits
  <2>2. \A d \in Candidates : HitsFit(d)'
    BY <1>1, <1>5, <1>7, SameRows DEF QuietFits, HitsFit, Counting, Metadata
  <2>3. \A d \in Candidates : (bestChunk[d] \in {"none", Age(d)})'
    BY <1>1, <1>7, SameRows DEF QuietFits
  <2>4. \A s \in {"fulltext", "vector"} : IsRead(s)' => FoundBy(s)' \subseteq Informed'
    BY <1>1, <1>5, <1>6, <1>7, SameRows DEF QuietFits
  <2>5. Matched' \subseteq Informed'
    <3>1. Matched \subseteq OpenNow
      BY <1>1, <1>7, MatchedIsFound
    <3>2. \A d \in Matched : candidate[d].state = "live"
      BY <3>1 DEF OpenNow, Open
    <3>3. Matched \ Informed \subseteq FetchMissing
      BY <3>2 DEF FetchMissing
    <3> QED  BY <1>4, <1>6, <3>3
  <2>6. phase' = "page"
    BY <1>1
  <2> QED  BY <2>1, <2>2, <2>3, <2>4, <2>5, <2>6 DEF QuietFits
<1>8. shown' = <<>>
  BY <1>1 DEF SearchInv
<1>9. \A s \in Signals : RanksFit(ranks[s])' \/ (ranks'[s] = Unread /\ s \in {"fulltext", "vector"})
  BY <1>1 DEF SearchInv, RanksFit
<1> QED  BY <1>1, <1>3, <1>4, <1>7, <1>8, <1>9 DEF SearchInv

\* The page has the matched rows that are not deleted, by score.
LEMMA ShowStep ==
    ASSUME SearchInv, ShowPage
    PROVE  SearchInv'
<1> DEFINE rows == {d \in Matched \cap Informed : candidate[d].state = "live"}
<1>1. /\ UNCHANGED <<candidate, query, read, ranks, hits, bestChunk, docEdits, edited, seen>>
      /\ phase = "page" /\ phase' = "done"
  BY DEF ShowPage, editVars
<1>2. PICK q \in SetToSeqs(rows) :
        /\ \A i, j \in DOMAIN q : i < j => Score(q[i]) >= Score(q[j])
        /\ shown' = q
  BY DEF ShowPage, Ordered
<1>3. SearchTypes /\ SearchTypes' /\ AllRead /\ query # {}
  BY <1>1 DEF SearchInv, SearchTypes
<1>4. AllRead' /\ Matched' = Matched /\ Informed' = Informed /\ \A d : Score(d)' = Score(d)
  <2>1. AllRead'
    BY <1>1, <1>3 DEF AllRead
  <2>2. UNCHANGED <<query, ranks, hits, bestChunk>>
    BY <1>1
  <2> QED  BY <2>1, <2>2, SameScores
<1>5. \A s : IsRead(s)' = IsRead(s)
  BY <1>1 DEF IsRead
<1>6. rows \in SUBSET Matched
  OBVIOUS
<1>7. ASSUME QuietFits PROVE QuietFits'
  <2>1. \A s \in Signals : SignalFits(s)'
    BY <1>1, <1>5, <1>7, SameRows DEF QuietFits, SignalFits
  <2>2. \A d \in Candidates : HitsFit(d)'
    BY <1>1, <1>5, <1>7, SameRows DEF QuietFits, HitsFit, Counting, Metadata
  <2>3. \A d \in Candidates : (bestChunk[d] \in {"none", Age(d)})'
    BY <1>1, <1>7, SameRows DEF QuietFits
  <2>4. \A s \in {"fulltext", "vector"} : IsRead(s)' => FoundBy(s)' \subseteq Informed'
    BY <1>4, <1>1, <1>5, <1>7, SameRows DEF QuietFits
  <2>5. Matched \subseteq Informed
    BY <1>1, <1>7 DEF QuietFits
  <2>6. rows = Matched
    <3>1. Matched \subseteq OpenNow
      BY <1>3, <1>7, MatchedIsFound
    <3> QED  BY <2>5, <3>1 DEF OpenNow, Open
  <2> HIDE DEF rows
  <2>7. shown' \in SetToSeqs(Matched)' /\ \A i, j \in DOMAIN shown' : i < j => Score(shown'[i]) >= Score(shown'[j])
    BY <1>2, <1>4, <2>6
  <2>8. \A i, j \in DOMAIN shown' : i < j => Score(shown[i])' >= Score(shown[j])'
    <3>1. \A i : Score(shown[i])' = Score(shown'[i])
      BY <1>1 DEF Score, Fused, FromRank, Penalty, Freshness, VectorOnly, MatchRatio
    <3> QED  BY <2>7, <3>1
  <2> QED  BY <1>4, <2>1, <2>2, <2>3, <2>4, <2>5, <2>7, <2>8 DEF QuietFits
<1>8. \A s \in Signals : RanksFit(ranks[s])' \/ (ranks'[s] = Unread /\ s \in {"fulltext", "vector"})
  BY <1>1 DEF SearchInv, RanksFit
<1>9. \E S \in SUBSET Matched' : shown' \in SetToSeqs(S)
  BY <1>2, <1>4, <1>6
<1> QED  BY <1>1, <1>3, <1>4, <1>7, <1>8, <1>9 DEF SearchInv

LEMMA SearchStays ==
    ASSUME SearchInv, UNCHANGED searchVars
    PROVE  SearchInv'
<1>1. /\ UNCHANGED <<candidate, query, read, ranks, hits, bestChunk, phase, shown>>
      /\ UNCHANGED <<docEdits, edited, seen>>
  BY DEF searchVars, resultVars, editVars
<1>2. SearchTypes' /\ (AllRead' <=> AllRead)
  BY <1>1 DEF SearchInv, SearchTypes, AllRead
<1>3. \A s : IsRead(s)' = IsRead(s)
  BY <1>1 DEF IsRead
<1>4. \A d : Score(d)' = Score(d)
  BY <1>1, SameScores
<1>5. Matched' = Matched /\ Informed' = Informed
  BY <1>1, SameScores
<1>6. ASSUME QuietFits PROVE QuietFits'
  <2>1. \A s \in Signals : SignalFits(s)'
    BY <1>1, <1>3, <1>6, SameRows DEF QuietFits, SignalFits
  <2>2. \A d \in Candidates : HitsFit(d)'
    BY <1>1, <1>3, <1>6, SameRows DEF QuietFits, HitsFit, Counting, Metadata
  <2>3. \A d \in Candidates : (bestChunk[d] \in {"none", Age(d)})'
    BY <1>1, <1>6, SameRows DEF QuietFits
  <2>4. \A s \in {"fulltext", "vector"} : IsRead(s)' => FoundBy(s)' \subseteq Informed'
    BY <1>1, <1>3, <1>5, <1>6, SameRows DEF QuietFits
  <2>5. \A i : Score(shown[i])' = Score(shown[i])
    BY <1>1 DEF Score, Fused, FromRank, Penalty, Freshness, VectorOnly, MatchRatio
  <2> QED  BY <1>1, <1>5, <1>6, <2>1, <2>2, <2>3, <2>4, <2>5 DEF QuietFits
<1>7. \A s \in Signals : RanksFit(ranks[s])' \/ (ranks'[s] = Unread /\ s \in {"fulltext", "vector"})
  BY <1>1 DEF SearchInv, RanksFit
<1> QED  BY <1>1, <1>2, <1>5, <1>6, <1>7 DEF SearchInv

LEMMA SearchStartFits == SearchInit => SearchInv
<1> SUFFICES ASSUME SearchInit PROVE SearchInv
  OBVIOUS
<1>1. /\ read = 0 /\ phase = "reading" /\ shown = <<>> /\ seen = {} /\ edited = FALSE
      /\ ranks = [s \in Signals |-> IF s \in {"fulltext", "vector"} THEN Unread ELSE <<>>]
      /\ hits = [d \in Candidates |-> 0] /\ bestChunk = [d \in Candidates |-> "none"]
      /\ candidate \in [Candidates -> Rows] /\ query \in SUBSET Words /\ docEdits = 0
  BY DEF SearchInit, SearchStart
<1>2. Cardinality(query) \in Nat /\ MaxEdits \in Nat /\ Len(MetaOrder) \in Nat
  BY <1>1, WordCount, SearchAssumption, SignalKinds
<1>3. SearchTypes
  <2>1. hits \in [Candidates -> 0..Cardinality(query)] /\ DOMAIN ranks = Signals
    BY <1>1, <1>2
  <2>2. bestChunk \in [Candidates -> {"none", "old", "new"}]
    BY <1>1
  <2>3. read \in 0..Len(MetaOrder) /\ docEdits \in 0..MaxEdits
    BY <1>1, <1>2
  <2> QED  BY <1>1, <2>1, <2>2, <2>3 DEF SearchTypes
<1>4. \A s \in Signals : RanksFit(ranks[s]) \/ (ranks[s] = Unread /\ s \in {"fulltext", "vector"})
  BY <1>1, NoDocuments DEF RanksFit
<1>5. \A s \in Signals : ~IsRead(s)
  BY <1>1 DEF IsRead
<1>6. \A s \in Counting : ~IsRead(s)
  BY <1>5, SignalKinds DEF Counting
<1>7. QuietFits
  <2>1. \A s \in Signals : SignalFits(s)
    BY <1>1, <1>5 DEF SignalFits
  <2>2. \A d \in Candidates : HitsFit(d) /\ bestChunk[d] \in {"none", Age(d)}
    BY <1>1, <1>6 DEF HitsFit
  <2>3. \A s \in {"fulltext", "vector"} : ~IsRead(s)
    BY <1>5, SignalKinds
  <2> QED  BY <1>1, <2>1, <2>2, <2>3 DEF QuietFits
<1> QED  BY <1>1, <1>3, <1>4, <1>7 DEF SearchInv

LEMMA SearchInvKept == SearchInv /\ [SearchNext]_searchVars => SearchInv'
<1> SUFFICES ASSUME SearchInv, [SearchNext]_searchVars PROVE SearchInv'
  OBVIOUS
<1>1. CASE ReadMetadata
  BY <1>1, MetadataStep
<1>2. CASE ReadFulltext
  BY <1>2, FulltextStep
<1>3. CASE ReadVector
  BY <1>3, VectorStep
<1>4. CASE SearchFails
  BY <1>4, FailStep
<1>5. CASE Fuse
  BY <1>5, FuseStep
<1>6. CASE ShowPage
  BY <1>6, ShowStep
<1>7. CASE \E d \in Candidates : EditDocument(d)
  BY <1>7, EditStep
<1>8. CASE SearchEnded \/ UNCHANGED searchVars
  BY <1>8, SearchStays DEF SearchEnded
<1> QED  BY <1>1, <1>2, <1>3, <1>4, <1>5, <1>6, <1>7, <1>8 DEF SearchNext

\* The inductive invariant of a search: orders are of documents that were open when they were read,
\* and while no document changes each signal has exactly what it finds, in its order, the hits are
\* those of the best signal, and the page is ordered by score (services/search.py).
THEOREM SearchInvariant == SearchSpec => []SearchInv
<1>1. SearchInit => SearchInv
  BY SearchStartFits
<1>2. SearchInv /\ [SearchNext]_searchVars => SearchInv'
  BY SearchInvKept
<1> QED  BY <1>1, <1>2, PTL DEF SearchSpec

\* What the page has was found by some signal.
LEMMA ShownIsMatched ==
    ASSUME SearchInv
    PROVE  /\ Range(shown) \subseteq Matched /\ Matched \subseteq Candidates
           /\ Len(shown) = Cardinality(Range(shown))
           /\ phase = "done" => Matched \subseteq seen
<1>1. CASE phase = "done"
  <2>1. PICK S \in SUBSET Matched : shown \in SetToSeqs(S)
    BY <1>1 DEF SearchInv
  <2>2. S \in SUBSET Candidates
    BY DEF Matched
  <2>3. /\ shown \in [1..Cardinality(S) -> S] /\ Range(shown) = S /\ Cardinality(S) \in Nat
    BY <2>1, <2>2, OrderOfSet
  <2>4. Len(shown) = Cardinality(S)
    BY <2>3
  <2>5. ASSUME NEW d \in Matched PROVE d \in seen
    <3>1. PICK s \in Signals : d \in Range(ranks[s])
      BY DEF Matched
    <3>2. RanksFit(ranks[s])
      BY <1>1 DEF SearchInv, AllRead
    <3>3. PICK T \in SUBSET seen : ranks[s] \in SetToSeqs(T)
      BY <3>2 DEF RanksFit
    <3>4. T \in SUBSET Candidates
      BY DEF SearchInv, SearchTypes
    <3>5. Range(ranks[s]) = T
      BY <3>3, <3>4, OrderOfSet
    <3> QED  BY <3>1, <3>5
  <2> QED  BY <2>3, <2>4, <2>5 DEF Matched
<1>2. CASE phase # "done"
  <2>1. shown = <<>> /\ Range(shown) = {} /\ Len(shown) = 0
    BY <1>2, NoDocuments DEF SearchInv
  <2>2. Cardinality({}) = 0
    BY FS_EmptySet
  <2> QED  BY <1>2, <2>1, <2>2 DEF Matched
<1> QED  BY <1>1, <1>2

LEMMA SearchTypesHold == SearchSpec => []SearchTypeOK
<1>1. SearchInv => SearchTypeOK
  <2> SUFFICES ASSUME SearchInv PROVE SearchTypeOK
    OBVIOUS
  <2>1. Cardinality(query) \in Nat
    BY WordCount DEF SearchInv, SearchTypes
  <2> QED  BY <2>1, ShownIsMatched DEF SearchInv, SearchTypes, SearchTypeOK
<1> QED  BY <1>1, SearchInvariant, PTL

\* A page of results has nothing the user could not see at some moment of the search, all there is
\* when nothing changes, and the better document first (services/search.py: merged_search and the
\* route's last read).
THEOREM PageRight == SearchSpec => []PageIsRight
<1>1. SearchInv => PageIsRight
  <2> SUFFICES ASSUME SearchInv PROVE PageIsRight
    OBVIOUS
  <2>1. ShownWasOpen
    <3>1. CASE phase = "done"
      BY <3>1, ShownIsMatched DEF ShownWasOpen
    <3>2. CASE phase # "done"
      BY <3>2, NoDocuments DEF ShownWasOpen, SearchInv
    <3> QED  BY <3>1, <3>2
  <2>2. ASSUME phase = "done", ~edited
        PROVE  /\ AllRead /\ query # {} /\ QuietFits /\ Matched \subseteq Informed
               /\ Matched \in SUBSET Candidates
               /\ shown \in SetToSeqs(Matched) /\ Range(shown) = Matched
               /\ \A i, j \in DOMAIN shown : i < j => Score(shown[i]) >= Score(shown[j])
    <3>1. AllRead /\ query # {} /\ QuietFits
      BY <2>2 DEF SearchInv
    <3>2. /\ Matched \subseteq Informed /\ shown \in SetToSeqs(Matched)
          /\ \A i, j \in DOMAIN shown : i < j => Score(shown[i]) >= Score(shown[j])
      BY <2>2, <3>1 DEF QuietFits
    <3>3. Matched \in SUBSET Candidates
      BY DEF Matched
    <3>4. Range(shown) = Matched
      BY <3>2, <3>3, OrderOfSet
    <3> QED  BY <3>1, <3>2, <3>3, <3>4
  <2>3. QuietSearchIsComplete
    <3> SUFFICES ASSUME phase = "done", ~edited
                 PROVE  Range(shown) = {d \in OpenNow : \/ candidate[d].near
                                                        \/ candidate[d].content \cap query # {}
                                                        \/ \E s \in Metadata : Count(d, s) > 0}
      BY DEF QuietSearchIsComplete
    <3>1. Matched = {d \in OpenNow : \E s \in Metadata \cup {"fulltext", "vector"} : d \in FoundBy(s)}
      BY <2>2, MatchedIsFound
    <3>2. /\ FoundBy("fulltext") = {d \in OpenNow : candidate[d].content \cap query # {}}
          /\ FoundBy("vector") = {d \in OpenNow : candidate[d].near}
          /\ \A s \in Metadata : FoundBy(s) = {d \in OpenNow : Count(d, s) > 0}
      BY SignalKinds DEF FoundBy, Kinds
    <3> QED  BY <2>2, <3>1, <3>2
  <2>4. BetterComesFirst
    <3> SUFFICES ASSUME phase = "done", ~edited, NEW i \in DOMAIN shown, NEW j \in DOMAIN shown,
                        AheadEverywhere(shown[i], shown[j])
                 PROVE  i < j
      BY DEF BetterComesFirst
    <3>1. shown[i] \in Matched /\ shown[j] \in Matched
      BY <2>2, PlaceInOrder
    <3> DEFINE x == Score(shown[i])
               y == Score(shown[j])
    <3>2. x \in Nat /\ y \in Nat /\ y < x
      BY <2>2, <3>1, AheadScores
    <3>3. (j < i => y >= x) /\ (i = j => x = y)
      BY <2>2
    <3>4. i \in Int /\ j \in Int
      <4>1. DOMAIN shown = 1..Cardinality(Matched) /\ Cardinality(Matched) \in Nat
        BY <2>2, OrderOfSet
      <4> QED  BY <4>1
    <3> HIDE DEF x, y
    <3> QED  BY <3>2, <3>3, <3>4
  <2> QED  BY <2>1, <2>3, <2>4 DEF PageIsRight
<1> QED  BY <1>1, SearchInvariant, PTL
=============================================================================
