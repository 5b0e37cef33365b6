---------------------- MODULE ProjectionOutbox_proofs ----------------------
(***************************************************************************)
(* Theorems about ProjectionOutbox for every number of runs, flushers and  *)
(* rows, every batch limit and all answers of the dashboard.               *)
(***************************************************************************)
EXTENDS ProjectionOutbox, FiniteSetTheorems, SequenceTheorems, TLAPS

-----------------------------------------------------------------------------
(* The oldest rows, in the order of their ids.                             *)

Below(ids, i) == {j \in ids : j < i}
Rank(ids, i)  == Cardinality(Below(ids, i))

LEMMA Least ==
  ASSUME NEW S, \A x \in S : x \in Nat, S # {}
  PROVE  \E i \in S : \A j \in S : i <= j
<1>1. \E i \in S : \A j \in S : ~(<<j, i>> \in OpToRel(<, Nat))
  BY NatLessThanWellFounded, WFMin
<1>2. PICK i \in S : \A j \in S : ~(<<j, i>> \in OpToRel(<, Nat))
  BY <1>1
<1>3. ASSUME NEW j \in S PROVE i <= j
  <2>1. <<j, i>> \in Nat \X Nat /\ ~(<<j, i>> \in OpToRel(<, Nat))
    BY <1>2
  <2>2. ~(j < i)
    BY <2>1 DEF OpToRel
  <2>3. QED BY <2>2
<1>4. QED BY <1>3

LEMMA BelowFinite ==
  ASSUME NEW ids, \A x \in ids : x \in Nat, IsFiniteSet(ids), NEW i \in Nat
  PROVE  /\ IsFiniteSet(Below(ids, i)) /\ Rank(ids, i) \in Nat
         /\ \A j \in Nat : i <= j => Rank(ids, i) <= Rank(ids, j)
         /\ \A j \in Nat : i \in ids /\ i < j => Rank(ids, i) < Rank(ids, j)
<1>1. \A j \in Nat : IsFiniteSet(Below(ids, j)) /\ Rank(ids, j) \in Nat
  BY FS_Subset, FS_CardinalityType DEF Below, Rank
<1>2. ASSUME NEW j \in Nat, i <= j
      PROVE  /\ Rank(ids, i) <= Rank(ids, j)
             /\ i \in ids /\ i < j => Rank(ids, i) < Rank(ids, j)
  <2>1. Below(ids, i) \subseteq Below(ids, j)
    BY <1>2 DEF Below
  <2>2. Rank(ids, i) <= Rank(ids, j)
    BY <1>1, <2>1, FS_Subset DEF Rank
  <2>3. ASSUME i \in ids, i < j PROVE Rank(ids, i) # Rank(ids, j)
    <3>1. i \in Below(ids, j) /\ i \notin Below(ids, i)
      BY <2>3 DEF Below
    <3>2. QED BY <1>1, <2>1, <3>1, FS_Subset DEF Rank
  <2>4. QED BY <1>1, <2>2, <2>3
<1>3. QED BY <1>1, <1>2

\* The n-th of the ids is there.
LEMMA RankExists ==
  ASSUME NEW ids, \A x \in ids : x \in Nat, IsFiniteSet(ids), NEW m \in 1 .. Cardinality(ids)
  PROVE  \E i \in ids : Rank(ids, i) = m - 1
<1> DEFINE Missing == {n \in 1 .. Cardinality(ids) : ~ \E i \in ids : Rank(ids, i) = n - 1}
<1> SUFFICES ASSUME Missing # {} PROVE FALSE
  OBVIOUS
<1>0. Cardinality(ids) \in Nat /\ \A x \in Missing : x \in Nat
  BY FS_CardinalityType
<1>1. PICK n \in Missing : \A k \in Missing : n <= k
  <2> HIDE DEF Missing
  <2>1. QED BY <1>0, Least
<1>2. n \in Nat /\ 1 <= n /\ n <= Cardinality(ids) /\ Cardinality(ids) \in Nat
  BY FS_CardinalityType
<1>3. CASE n = 1
  <2>1. ids # {}
    BY <1>2, FS_EmptySet
  <2>2. PICK i \in ids : \A j \in ids : i <= j
    BY <2>1, Least
  <2>3. Below(ids, i) = {}
    BY <2>2 DEF Below
  <2>4. QED BY <1>3, <2>3, FS_EmptySet DEF Rank
<1>4. CASE n > 1
  <2>1. PICK i \in ids : Rank(ids, i) = n - 2
    <3>1. n - 1 \in 1 .. Cardinality(ids) /\ n - 1 \notin Missing
      BY <1>1, <1>2, <1>4
    <3>2. QED BY <1>2, <3>1
  <2> DEFINE upTo == Below(ids, i) \cup {i}
             Above == {j \in ids : i < j}
  <2>2. Cardinality(upTo) = n - 1
    <3>1. IsFiniteSet(Below(ids, i)) /\ i \notin Below(ids, i)
      BY BelowFinite DEF Below
    <3>2. Cardinality(upTo) = Cardinality(Below(ids, i)) + 1
      BY <3>1, FS_AddElement
    <3>3. QED BY <1>2, <2>1, <3>2 DEF Rank
  <2>3. Above # {}
    <3>1. upTo # ids
      <4> HIDE DEF upTo
      <4>1. QED BY <1>2, <2>2
    <3>2. QED BY <3>1 DEF Below
  <2>4. PICK k \in Above : \A j \in Above : k <= j
    BY <2>3, Least
  <2>5. Below(ids, k) = upTo
    BY <2>4 DEF Below
  <2>6. QED BY <1>2, <2>2, <2>4, <2>5 DEF Rank
<1>5. QED BY <1>2, <1>3, <1>4

\* A batch is no longer than its limit, and names pending rows, oldest first.
LEMMA InOrderFacts ==
  ASSUME NEW ids, \A x \in ids : x \in Nat, IsFiniteSet(ids)
  PROVE  /\ InOrder(ids) \in [1 .. Cardinality(ids) -> ids]
         /\ \A n \in 2 .. Cardinality(ids) : InOrder(ids)[n - 1] < InOrder(ids)[n]
<1>1. Cardinality(ids) \in Nat
  BY FS_CardinalityType
<1>2. \A n \in 1 .. Cardinality(ids) :
        InOrder(ids)[n] \in ids /\ Rank(ids, InOrder(ids)[n]) = n - 1
  BY RankExists DEF InOrder, Rank, Below
<1>3. ASSUME NEW n \in 2 .. Cardinality(ids)
      PROVE  InOrder(ids)[n - 1] < InOrder(ids)[n]
  <2>1. n \in 1 .. Cardinality(ids) /\ n - 1 \in 1 .. Cardinality(ids) /\ n \in Int
    BY <1>1
  <2> DEFINE a == InOrder(ids)[n - 1]
             b == InOrder(ids)[n]
  <2>2. a \in Nat /\ b \in Nat /\ Rank(ids, a) = n - 2 /\ Rank(ids, b) = n - 1
    BY <1>2, <2>1
  <2> HIDE DEF a, b
  <2>3. ~(b <= a)
    BY <2>1, <2>2, BelowFinite
  <2>4. a < b
    BY <2>2, <2>3
  <2>5. QED BY <2>4 DEF a, b
<1>4. QED BY <1>2, <1>3 DEF InOrder

LEMMA OldestFacts ==
  ASSUME NEW ids, \A x \in ids : x \in Nat, IsFiniteSet(ids), Batch \in Nat
  PROVE  /\ Oldest(ids) \subseteq ids /\ IsFiniteSet(Oldest(ids))
         /\ Cardinality(Oldest(ids)) \in Nat /\ Cardinality(Oldest(ids)) <= Batch
<1> DEFINE O == Oldest(ids)
<1>1. O \subseteq ids /\ \A i \in O : Rank(ids, i) < Batch
  BY DEF Oldest, Rank, Below
<1> HIDE DEF O
<1>2. IsFiniteSet(O) /\ Cardinality(O) \in Nat /\ \A x \in O : x \in Nat
  BY <1>1, FS_Subset, FS_CardinalityType
<1>3. ASSUME Cardinality(O) > Batch PROVE FALSE
  <2>1. PICK i \in O : Rank(O, i) = Batch
    BY <1>2, <1>3, RankExists
  <2>2. Below(O, i) \subseteq Below(ids, i)
    BY <1>1 DEF Below
  <2>3. IsFiniteSet(Below(ids, i))
    BY <1>1, BelowFinite
  <2>4. Rank(O, i) <= Rank(ids, i) /\ Rank(ids, i) \in Nat
    BY <2>2, <2>3, FS_Subset, FS_CardinalityType DEF Rank
  <2>5. QED BY <1>1, <2>1, <2>4
<1>4. QED BY <1>1, <1>2, <1>3 DEF O

-----------------------------------------------------------------------------
(* Type correctness, in parts.                                             *)

USE ProjectionAssumption

States  == [version : {0} \cup Versions, second : 0 .. MaxTime, queued : BOOLEAN]
Records == [id : Nat, run : Runs, version : Versions, waits : BOOLEAN]
Batches == Seq(Records)
Flushes == [batch : Batches, answer : Answer \cup {""}]

\* A state that is to be queued is one that was saved.
Saved == \A r \in Runs : ~state[r].queued => state[r].version # 0

Truthful == \A i \in DOMAIN rows : rows[i].version <= state[rows[i].run].version

Keyed ==
  \A i, j \in DOMAIN rows :
    rows[i].run = rows[j].run /\ rows[i].second = rows[j].second => i = j

\* A batch is within its limit and in the order of the rows it names; a flusher
\* with an answer has a record it is the answer to.
Ranked(f) ==
  /\ Len(flush[f].batch) <= Batch
  /\ \A i \in DOMAIN flush[f].batch :
       /\ flush[f].batch[i].id \in DOMAIN rows
       /\ i > 1 => flush[f].batch[i].id > flush[f].batch[i - 1].id
  /\ flush[f].answer # "" => flush[f].batch # <<>>

TInv ==
  /\ clock \in 0 .. MaxTime
  /\ state \in [Runs -> States] /\ Saved
  /\ rows \in Seq(Rows) /\ Truthful /\ Keyed
  /\ flush \in [Flushers -> Flushes] /\ \A f \in Flushers : Ranked(f)
  /\ delivered \subseteq Runs \X Versions
  /\ cut \subseteq Runs /\ raced \subseteq DOMAIN rows

LEMMA VersionsAreNumbers ==
  /\ \A v \in Versions : v \in Nat /\ v # 0
  /\ \A r \in Runs : Last[r] \in Nat /\ \A v \in 1 .. Last[r] : v \in Versions
BY DEF Versions

LEMMA TypeOfParts == TInv => TypeOK
<1> SUFFICES ASSUME TInv PROVE TypeOK
  OBVIOUS
<1>1. ASSUME NEW f \in Flushers PROVE flush[f].batch \in Seq(Taken) /\ flush[f].answer \in Answer \cup {""}
  <2>1. flush[f] \in Flushes
    BY DEF TInv
  <2>2. flush[f].batch \in Batches /\ flush[f].answer \in Answer \cup {""}
    BY <2>1 DEF Flushes
  <2>3. Records \subseteq Taken
    BY VersionsAreNumbers DEF Taken, Records
  <2>4. QED BY <2>2, <2>3, SeqMonotonic DEF Batches
<1>2. QED BY <1>1 DEF TInv, TypeOK, Truthful, Keyed, Ranked, States

LEMMA InitType == Init => TInv
<1> SUFFICES ASSUME Init PROVE TInv
  OBVIOUS
<1>1. 0 \in 0 .. MaxTime
  OBVIOUS
<1>2. state \in [Runs -> States]
  BY <1>1 DEF Init, States
<1>3. flush \in [Flushers -> Flushes] /\ \A f \in Flushers : flush[f].batch = <<>> /\ flush[f].answer = ""
  BY EmptySeq DEF Init, Idle, Flushes, Batches
<1>4. \A f \in Flushers : Ranked(f)
  <2>1. Len(<<>>) = 0 /\ DOMAIN <<>> = {} /\ 0 <= Batch
    BY EmptySeq
  <2>2. QED BY <1>3, <2>1 DEF Ranked
<1>5. rows \in Seq(Rows) /\ DOMAIN rows = {}
  BY EmptySeq DEF Init
<1>6. QED BY <1>1, <1>2, <1>3, <1>4, <1>5 DEF Init, TInv, Saved, Truthful, Keyed

\* Facts that the steps start from.
LEMMA Facts ==
  ASSUME TInv
  PROVE  /\ Len(rows) \in Nat /\ DOMAIN rows = 1 .. Len(rows)
         /\ \A i \in DOMAIN rows :
              /\ rows[i] \in Rows /\ rows[i].run \in Runs /\ rows[i].second \in 0 .. MaxTime
              /\ rows[i].version \in Versions /\ rows[i].version \in Nat
              /\ rows[i].waits \in BOOLEAN
         /\ \A r \in Runs : /\ state[r] \in States /\ state[r].version \in Nat
                            /\ state[r].second \in 0 .. MaxTime /\ state[r].queued \in BOOLEAN
                            /\ state[r].version # 0 => state[r].version \in Versions
<1>1. \A i \in DOMAIN rows : rows[i] \in Rows
  BY DEF TInv
<1>2. \A r \in Runs : state[r] \in States
  BY DEF TInv
<1>3. QED BY SMTT(30), <1>1, <1>2, VersionsAreNumbers DEF TInv, Rows, States

LEMMA BatchFacts ==
  ASSUME TInv, NEW f \in Flushers
  PROVE  /\ flush[f] \in Flushes /\ flush[f].batch \in Batches /\ flush[f].answer \in Answer \cup {""}
         /\ Len(flush[f].batch) \in Nat /\ DOMAIN flush[f].batch = 1 .. Len(flush[f].batch)
         /\ \A i \in DOMAIN flush[f].batch :
              /\ flush[f].batch[i].id \in DOMAIN rows /\ flush[f].batch[i].id \in Nat
              /\ flush[f].batch[i].run \in Runs /\ flush[f].batch[i].version \in Versions
         /\ Ranked(f)
<1>1. flush[f] \in Flushes /\ Ranked(f)
  BY DEF TInv
<1>2. flush[f].batch \in Batches /\ flush[f].answer \in Answer \cup {""}
  BY <1>1 DEF Flushes
<1>3. Len(flush[f].batch) \in Nat /\ DOMAIN flush[f].batch = 1 .. Len(flush[f].batch)
  BY <1>2, LenProperties DEF Batches
<1>4. \A i \in DOMAIN flush[f].batch : flush[f].batch[i] \in Records
  BY <1>2, <1>3, ElementOfSeq DEF Batches
<1>5. QED BY <1>1, <1>2, <1>3, <1>4 DEF Ranked, Records

\* A step that rewrites rows: their keys stay, and what they hold is a state of
\* their run.
LEMMA RewriteType ==
  ASSUME TInv, rows' \in [DOMAIN rows -> Rows],
         \A i \in DOMAIN rows :
           /\ rows'[i].run = rows[i].run /\ rows'[i].second = rows[i].second
           /\ rows'[i].version \in {rows[i].version, state[rows[i].run].version}
  PROVE  /\ rows' \in Seq(Rows) /\ DOMAIN rows' = DOMAIN rows /\ Keyed'
         /\ \A i \in DOMAIN rows' : rows'[i].version <= state[rows'[i].run].version
<1>1. rows' \in [1 .. Len(rows) -> Rows]
  BY Facts
<1>2. rows' \in Seq(Rows)
  BY SMTT(30), <1>1, Facts
<1>3. DOMAIN rows' = DOMAIN rows
  BY <1>1, Facts
<1>4. Keyed'
  BY <1>3 DEF TInv, Keyed
<1>5. ASSUME NEW i \in DOMAIN rows PROVE rows'[i].version <= state[rows'[i].run].version
  <2>1. /\ rows'[i].run = rows[i].run
        /\ rows'[i].version \in {rows[i].version, state[rows[i].run].version}
    OBVIOUS
  <2>2. rows[i].version <= state[rows[i].run].version /\ state[rows[i].run].version \in Nat
    BY Facts DEF TInv, Truthful
  <2>3. QED BY <2>1, <2>2
<1>6. QED BY <1>2, <1>3, <1>4, <1>5

\* The saver of a run.
LEMMA SaverType ==
  ASSUME TInv, NEW r \in Runs, Save(r) \/ SaverDies(r)
  PROVE  TInv'
<1>1. UNCHANGED <<clock, rows, flush, delivered, raced>> /\ cut' \subseteq Runs
  BY DEF Save, SaverDies, TInv
<1>2. \A f \in Flushers : Ranked(f)'
  BY <1>1 DEF TInv, Ranked
<1>3. /\ state' \in [Runs -> States] /\ Saved'
      /\ \A q \in Runs : state[q].version <= state'[q].version /\ state'[q].version \in Nat
  <2>1. CASE Save(r)
    <3> DEFINE s == [version |-> state[r].version + 1, second |-> clock, queued |-> FALSE]
    <3>1. s \in States /\ s.version = state[r].version + 1 /\ s.version \in Nat
      <4>1. state[r].version + 1 \in Versions
        BY <2>1, Facts, VersionsAreNumbers DEF Save
      <4>2. QED BY <4>1, Facts DEF States, TInv
    <3>2. state' = [state EXCEPT ![r] = s]
      BY <2>1 DEF Save
    <3> HIDE DEF s
    <3>3. QED BY <3>1, <3>2, Facts DEF TInv, Saved
  <2>2. CASE SaverDies(r)
    <3>1. state' = [state EXCEPT ![r].queued = TRUE] /\ state[r] \in States
      BY <2>2, Facts DEF SaverDies
    <3>2. [state[r] EXCEPT !.queued = TRUE] \in States
      BY <3>1 DEF States
    <3>3. QED BY <3>1, <3>2, Facts DEF TInv, Saved, States
  <2>3. QED BY <2>1, <2>2
<1>4. Truthful'
  <2>1. ASSUME NEW i \in DOMAIN rows PROVE rows[i].version <= state'[rows[i].run].version
    <3>1. rows[i].version <= state[rows[i].run].version /\ rows[i].run \in Runs /\ rows[i].version \in Nat
      BY Facts DEF TInv, Truthful
    <3>2. QED BY <1>3, <3>1, Facts
  <2>2. QED BY <1>1, <2>1 DEF Truthful
<1>5. Keyed'
  BY <1>1 DEF TInv, Keyed
<1>6. QED BY <1>1, <1>2, <1>3, <1>4, <1>5 DEF TInv

LEMMA PendingFacts ==
  ASSUME TInv, NEW r \in Runs, state[r].version # 0
  PROVE  /\ Pending(r) \in Rows /\ Pending(r).run = r /\ Pending(r).second = state[r].second
         /\ Pending(r).version = state[r].version
BY Facts DEF Pending, Rows

\* Queueing a state, for the first time or again.
LEMMA EnqueueType ==
  ASSUME TInv, NEW r \in Runs, Enqueue(r) \/ EnqueueAgain(r)
  PROVE  TInv'
<1>1. UNCHANGED <<clock, flush, delivered>> /\ cut' \subseteq Runs
  BY DEF Enqueue, EnqueueAgain, TInv
<1>2. /\ state' \in [Runs -> States] /\ Saved'
      /\ \A q \in Runs : state'[q].version = state[q].version
  <2>1. CASE Enqueue(r)
    BY <2>1, Facts DEF Enqueue, TInv, Saved, States
  <2>2. CASE EnqueueAgain(r)
    BY <2>2 DEF EnqueueAgain, TInv, Saved
  <2>3. QED BY <2>1, <2>2
<1>3. state[r].version # 0
  BY Facts DEF Enqueue, EnqueueAgain, TInv, Saved, RowOf, Versions
<1>4. /\ rows' \in Seq(Rows) /\ Keyed' /\ DOMAIN rows \subseteq DOMAIN rows'
      /\ \A i \in DOMAIN rows' : rows'[i].version <= state[rows'[i].run].version
  <2>1. CASE rows' = Append(rows, Pending(r)) /\ RowOf(r) = {}
    <3>1. /\ rows' \in Seq(Rows) /\ Len(rows') = Len(rows) + 1 /\ DOMAIN rows' = 1 .. Len(rows) + 1
          /\ \A i \in DOMAIN rows : rows'[i] = rows[i]
          /\ rows'[Len(rows) + 1] = Pending(r)
      BY <1>3, <2>1, PendingFacts, AppendProperties, LenProperties, Facts DEF TInv
    <3>2. \A i \in DOMAIN rows : ~(rows[i].run = r /\ rows[i].second = state[r].second)
      BY <2>1 DEF RowOf
    <3>3. \A i \in DOMAIN rows' : i \in DOMAIN rows \/ (rows'[i] = Pending(r) /\ i = Len(rows) + 1)
      <4>1. ASSUME NEW i \in DOMAIN rows', i # Len(rows) + 1 PROVE i \in DOMAIN rows
        <5>1. i \in 1 .. Len(rows) + 1 /\ Len(rows) \in Nat /\ DOMAIN rows = 1 .. Len(rows)
          BY <3>1, Facts
        <5>2. QED BY <4>1, <5>1
      <4>2. \A i : i = Len(rows) + 1 => rows'[i] = Pending(r)
        BY <3>1
      <4>3. QED BY ONLY <4>1, <4>2
    <3>4. Keyed'
      <4>1. \A i \in DOMAIN rows : ~(rows'[i].run = Pending(r).run /\ rows'[i].second = Pending(r).second)
        BY <1>3, <3>1, <3>2, PendingFacts
      <4>2. ASSUME NEW i \in DOMAIN rows', NEW j \in DOMAIN rows',
                   rows'[i].run = rows'[j].run, rows'[i].second = rows'[j].second
            PROVE  i = j
        <5>1. CASE i \in DOMAIN rows /\ j \in DOMAIN rows
          BY <3>1, <4>2, <5>1 DEF TInv, Keyed
        <5>2. CASE i \notin DOMAIN rows \/ j \notin DOMAIN rows
          BY <3>3, <4>1, <4>2, <5>2
        <5>3. QED BY <5>1, <5>2
      <4>3. QED BY <4>2 DEF Keyed
    <3>5. \A i \in DOMAIN rows' : rows'[i].version <= state[rows'[i].run].version
      BY SMTT(30), <1>3, <3>1, <3>3, PendingFacts, Facts DEF TInv, Truthful
    <3>6. QED BY <3>1, <3>4, <3>5, Facts
  <2>2. CASE \E P \in SUBSET RowOf(r) :
               rows' = [i \in DOMAIN rows |-> IF i \in P THEN Pending(r) ELSE rows[i]]
    <3>1. \A i \in DOMAIN rows : \/ rows'[i] = rows[i]
                                 \/ /\ rows'[i] = Pending(r)
                                    /\ rows[i].run = r /\ rows[i].second = state[r].second
      BY <2>2 DEF RowOf
    <3>2. rows' \in [DOMAIN rows -> Rows]
      BY <1>3, <2>2, PendingFacts, Facts
    <3>3. \A i \in DOMAIN rows :
            /\ rows'[i].run = rows[i].run /\ rows'[i].second = rows[i].second
            /\ rows'[i].version \in {rows[i].version, state[rows[i].run].version}
      BY <1>3, <3>1, PendingFacts
    <3>4. QED BY <3>2, <3>3, RewriteType
  <2>3. CASE Enqueue(r)
    <3>1. RowOf(r) \in SUBSET RowOf(r)
      OBVIOUS
    <3>2. QED BY <2>1, <2>2, <2>3, <3>1 DEF Enqueue, Queued
  <2>4. CASE EnqueueAgain(r)
    <3>1. PICK same \in BOOLEAN :
            rows' = [i \in DOMAIN rows |->
              IF i \notin RowOf(r) THEN rows[i]
              ELSE IF same /\ rows[i].status = "projected" THEN rows[i] ELSE Pending(r)]
      BY <2>4 DEF EnqueueAgain
    <3> DEFINE P == {i \in RowOf(r) : ~(same /\ rows[i].status = "projected")}
    <3>2. rows' = [i \in DOMAIN rows |-> IF i \in P THEN Pending(r) ELSE rows[i]]
      BY <3>1
    <3>3. QED BY <2>2, <3>2
  <2>5. QED BY <2>3, <2>4
<1>5. Truthful'
  <2>1. \A i \in DOMAIN rows' : rows'[i].run \in Runs
    <3>1. \A i \in DOMAIN rows' : rows'[i] \in Rows
      BY <1>4, ElementOfSeq, LenProperties
    <3>2. QED BY <3>1 DEF Rows
  <2>2. QED BY <1>2, <1>4, <2>1 DEF Truthful
<1>6. \A f \in Flushers : Ranked(f)'
  BY <1>1, <1>4 DEF TInv, Ranked
<1>7. raced' \subseteq DOMAIN rows'
  BY <1>4 DEF Enqueue, EnqueueAgain, RowOf, TInv
<1>8. QED BY <1>1, <1>2, <1>4, <1>5, <1>6, <1>7 DEF TInv

\* A step of a flusher leaves the batches of the others alone.
LEMMA FlushType ==
  ASSUME TInv, NEW f \in Flushers, NEW x \in Flushes, flush' = [flush EXCEPT ![f] = x],
         DOMAIN rows' = DOMAIN rows, Ranked(f)'
  PROVE  flush' \in [Flushers -> Flushes] /\ \A g \in Flushers : Ranked(g)'
<1>1. flush' \in [Flushers -> Flushes]
  BY DEF TInv
<1>2. ASSUME NEW g \in Flushers \ {f} PROVE Ranked(g)'
  <2>1. flush'[g] = flush[g]
    BY DEF TInv
  <2>2. QED BY <2>1 DEF TInv, Ranked
<1>3. QED BY <1>1, <1>2

\* What is left of a batch when its first record is done.
LEMMA RestFacts ==
  ASSUME TInv, NEW f \in Flushers, Working(f)
  PROVE  /\ Rest(f) \in Batches /\ Len(Rest(f)) = Len(flush[f].batch) - 1
         /\ \A i \in DOMAIN Rest(f) : i \in Nat /\ i + 1 \in DOMAIN flush[f].batch /\ Rest(f)[i] = flush[f].batch[i + 1]
         /\ Len(Rest(f)) <= Batch
         /\ \A i \in DOMAIN Rest(f) :
              /\ Rest(f)[i].id \in DOMAIN rows
              /\ i > 1 => Rest(f)[i].id > Rest(f)[i - 1].id
         /\ Current(f) = flush[f].batch[1] /\ 1 \in DOMAIN flush[f].batch
<1>1. flush[f].batch \in Seq(Records) /\ flush[f].batch # <<>>
  BY BatchFacts DEF Batches, Working
<1>2. /\ Rest(f) \in Seq(Records) /\ Len(Rest(f)) = Len(flush[f].batch) - 1
      /\ \A i \in 1 .. Len(Rest(f)) : Rest(f)[i] = flush[f].batch[i + 1]
  BY <1>1, HeadTailProperties DEF Rest
<1>3. /\ Len(flush[f].batch) \in Nat \ {0} /\ DOMAIN Rest(f) = 1 .. Len(Rest(f))
      /\ DOMAIN flush[f].batch = 1 .. Len(flush[f].batch)
  BY <1>1, <1>2, EmptySeq, LenProperties
<1>4. \A i \in DOMAIN Rest(f) : i \in Nat /\ i + 1 \in DOMAIN flush[f].batch /\ Rest(f)[i] = flush[f].batch[i + 1]
  BY <1>2, <1>3
<1>5. Len(Rest(f)) <= Batch
  <2>1. Len(flush[f].batch) <= Batch
    BY BatchFacts DEF Ranked
  <2>2. QED BY <1>2, <1>3, <2>1
<1>6. ASSUME NEW i \in DOMAIN Rest(f)
      PROVE  /\ Rest(f)[i].id \in DOMAIN rows
             /\ i > 1 => Rest(f)[i].id > Rest(f)[i - 1].id
  <2>1. i \in Nat /\ i + 1 \in DOMAIN flush[f].batch /\ Rest(f)[i] = flush[f].batch[i + 1]
    BY <1>4
  <2>2. Rest(f)[i].id \in DOMAIN rows
    BY <2>1, BatchFacts
  <2>3. ASSUME i > 1 PROVE Rest(f)[i].id > Rest(f)[i - 1].id
    <3>1. i - 1 \in DOMAIN Rest(f)
      BY <1>2, <1>3, <2>1, <2>3
    <3>2. Rest(f)[i - 1] = flush[f].batch[i]
      <4>1. Rest(f)[i - 1] = flush[f].batch[(i - 1) + 1]
        BY <1>4, <3>1
      <4>2. (i - 1) + 1 = i
        BY <2>1
      <4>3. QED BY <4>1, <4>2
    <3>3. \A k \in DOMAIN flush[f].batch : k > 1 => flush[f].batch[k].id > flush[f].batch[k - 1].id
      BY BatchFacts DEF Ranked
    <3>4. flush[f].batch[i + 1].id > flush[f].batch[(i + 1) - 1].id
      <4>1. i + 1 > 1
        BY <2>1, <2>3
      <4>2. QED BY <2>1, <3>3, <4>1
    <3>5. (i + 1) - 1 = i
      BY <2>1
    <3>6. QED BY <2>1, <3>2, <3>4, <3>5
  <2>4. QED BY <2>2, <2>3
<1>7. Current(f) = flush[f].batch[1] /\ 1 \in DOMAIN flush[f].batch
  BY <1>1, <1>3 DEF Current
<1>8. QED BY <1>2, <1>4, <1>5, <1>6, <1>7 DEF Batches

LEMMA ReadType ==
  ASSUME TInv, NEW f \in Flushers, Read(f)
  PROVE  TInv'
<1> DEFINE old == Oldest(PendingIds)
           ids == InOrder(old)
<1>1. /\ \A i \in PendingIds : i \in Nat /\ i \in DOMAIN rows
      /\ IsFiniteSet(PendingIds)
  <2>1. IsFiniteSet(1 .. Len(rows)) /\ PendingIds \subseteq 1 .. Len(rows)
    BY Facts, FS_Interval DEF PendingIds
  <2>2. QED BY <2>1, Facts, FS_Subset DEF PendingIds
<1>2. /\ old \subseteq PendingIds /\ IsFiniteSet(old)
      /\ Cardinality(old) \in Nat /\ Cardinality(old) <= Batch
  BY <1>1, OldestFacts
<1>3. \A i \in old : i \in Nat /\ i \in DOMAIN rows
  BY <1>1, <1>2
<1>4. /\ ids \in [1 .. Cardinality(old) -> old]
      /\ \A n \in 2 .. Cardinality(old) : ids[n - 1] < ids[n]
  <2> HIDE DEF old
  <2>1. QED BY <1>2, <1>3, InOrderFacts
<1> HIDE DEF old, ids
<1>5. Taking = [n \in 1 .. Cardinality(old) |->
                  [id |-> ids[n], run |-> rows[ids[n]].run,
                   version |-> rows[ids[n]].version, waits |-> rows[ids[n]].waits]]
  BY <1>4 DEF Taking, ids, old
<1>6. \A n \in 1 .. Cardinality(old) : Taking[n].id = ids[n] /\ Taking[n] \in Records
  BY <1>3, <1>4, <1>5, Facts DEF Records
<1>7. Taking \in Batches /\ Len(Taking) = Cardinality(old) /\ DOMAIN Taking = 1 .. Cardinality(old)
  <2>1. Taking \in [1 .. Cardinality(old) -> Records]
    BY <1>5, <1>6
  <2>2. Taking \in Seq(Records)
    BY <1>2, <2>1, SeqDef
  <2>3. DOMAIN Taking = 1 .. Cardinality(old)
    BY <1>5
  <2>4. QED BY <1>2, <2>2, <2>3, LenProperties DEF Batches
<1> DEFINE x == [flush[f] EXCEPT !.batch = Taking]
<1>8. x \in Flushes /\ x.batch = Taking /\ x.answer = flush[f].answer
  BY <1>7, BatchFacts DEF Flushes
<1>9. flush[f] = Idle /\ Taking # <<>> /\ flush' = [flush EXCEPT ![f] = x]
      /\ UNCHANGED <<clock, state, rows, delivered, cut, raced>>
  BY DEF Read
<1> HIDE DEF x
<1>10. flush'[f] = x
  BY <1>9 DEF TInv
<1>11. Ranked(f)'
  <2>1. \A n \in DOMAIN Taking : /\ Taking[n].id \in DOMAIN rows
                                 /\ n > 1 => Taking[n].id > Taking[n - 1].id
    <3>1. ASSUME NEW n \in DOMAIN Taking, n > 1 PROVE Taking[n].id > Taking[n - 1].id
      <4>1. n \in 2 .. Cardinality(old) /\ n - 1 \in 1 .. Cardinality(old) /\ n \in 1 .. Cardinality(old)
        BY <1>2, <1>7, <3>1
      <4>2. ids[n - 1] < ids[n] /\ ids[n] \in Nat /\ ids[n - 1] \in Nat
        BY <1>3, <1>4, <4>1
      <4>3. QED BY <1>6, <4>1, <4>2
    <3>2. \A n \in DOMAIN Taking : Taking[n].id \in DOMAIN rows
      BY <1>3, <1>4, <1>6, <1>7
    <3>3. QED BY <3>1, <3>2
  <2>2. QED BY <1>2, <1>7, <1>8, <1>9, <1>10, <2>1 DEF Ranked
<1>12. flush' \in [Flushers -> Flushes] /\ \A g \in Flushers : Ranked(g)'
  BY <1>8, <1>9, <1>11, FlushType
<1>13. QED BY <1>9, <1>12 DEF TInv, Saved, Truthful, Keyed

\* A flusher goes on with the records it has read.
LEMMA WorkType ==
  ASSUME TInv, NEW f \in Flushers, Skip(f) \/ Sends(f) \/ FlusherDies(f)
  PROVE  TInv'
<1>1. Working(f) /\ UNCHANGED <<clock, state, rows, cut, raced>>
  BY DEF Skip, Sends, Send, FlusherDies
<1>2. /\ flush' \in [Flushers -> Flushes] /\ \A g \in Flushers : Ranked(g)'
      /\ delivered' \subseteq Runs \X Versions
  <2>1. CASE Skip(f)
    <3> DEFINE x == [flush[f] EXCEPT !.batch = Rest(f)]
    <3>1. x \in Flushes /\ x.batch = Rest(f) /\ x.answer = ""
      BY <1>1, <2>1, RestFacts, BatchFacts DEF Flushes, Skip
    <3>2. flush' = [flush EXCEPT ![f] = x] /\ UNCHANGED delivered
      BY <2>1 DEF Skip
    <3> HIDE DEF x
    <3>3. flush'[f] = x
      BY <3>2 DEF TInv
    <3>4. Ranked(f)'
      BY <1>1, <3>1, <3>3, RestFacts DEF Ranked
    <3>5. QED BY <1>1, <3>1, <3>2, <3>4, FlushType DEF TInv
  <2>2. ASSUME NEW answer \in Answer, Send(f, answer)
        PROVE  /\ flush' \in [Flushers -> Flushes] /\ \A g \in Flushers : Ranked(g)'
               /\ delivered' \subseteq Runs \X Versions
    <3> DEFINE a == IF answer = "lost" THEN "transient" ELSE answer
               x == [flush[f] EXCEPT !.answer = a]
    <3>1. a \in Answer /\ x \in Flushes /\ x.batch = flush[f].batch /\ x.answer = a
      BY BatchFacts DEF Flushes, Answer
    <3>2. flush' = [flush EXCEPT ![f] = x]
      BY <2>2 DEF Send
    <3> HIDE DEF x, a
    <3>3. flush'[f] = x
      BY <3>2 DEF TInv
    <3>4. Ranked(f)'
      BY <1>1, <3>1, <3>3, BatchFacts DEF Ranked, Working
    <3>5. delivered' \subseteq Runs \X Versions
      <4>1. Current(f).run \in Runs /\ Current(f).version \in Versions
        BY <1>1, RestFacts, BatchFacts
      <4>2. delivered' \subseteq delivered \cup {<<Current(f).run, Current(f).version>>}
        BY <2>2 DEF Send
      <4>3. delivered \subseteq Runs \X Versions
        BY DEF TInv
      <4>4. QED BY <4>1, <4>2, <4>3
    <3>6. QED BY <1>1, <3>1, <3>2, <3>4, <3>5, FlushType
  <2>3. CASE FlusherDies(f)
    <3>1. Idle \in Flushes /\ Idle.batch = <<>> /\ Idle.answer = ""
      BY EmptySeq DEF Idle, Flushes, Batches
    <3>2. flush' = [flush EXCEPT ![f] = Idle] /\ UNCHANGED delivered
      BY <2>3 DEF FlusherDies
    <3>3. flush'[f] = Idle
      BY <3>2 DEF TInv
    <3>4. Ranked(f)'
      <4>1. Len(<<>>) = 0 /\ DOMAIN <<>> = {} /\ 0 <= Batch
        BY EmptySeq
      <4>2. QED BY <3>1, <3>3, <4>1 DEF Ranked
    <3>5. QED BY <1>1, <3>1, <3>2, <3>4, FlushType DEF TInv
  <2>4. QED BY <2>1, <2>2, <2>3 DEF Sends
<1>3. QED BY <1>1, <1>2 DEF TInv, Saved, Truthful, Keyed

\* What an answer makes of a row.
LEMMA MarkedFacts ==
  ASSUME NEW row \in Rows, NEW answer
  PROVE  /\ Marked(row, answer) \in Rows
         /\ Marked(row, answer).run = row.run /\ Marked(row, answer).second = row.second
         /\ Marked(row, answer).version = row.version
         /\ Marked(row, answer).status = "projected" <=> answer = "accepted"
<1> DEFINE st == IF answer = "accepted" THEN "projected"
                 ELSE IF answer = "permanent" THEN "dead_letter" ELSE "pending"
           w  == answer \notin {"accepted", "permanent"}
<1>1. Marked(row, answer) = [row EXCEPT !.status = st, !.waits = w]
  BY DEF Marked
<1>2. /\ st \in {"pending", "projected", "dead_letter"} /\ w \in BOOLEAN
      /\ st = "projected" <=> answer = "accepted"
  OBVIOUS
<1> HIDE DEF st, w
<1>3. QED BY <1>1, <1>2 DEF Rows

LEMMA MarkType ==
  ASSUME TInv, NEW f \in Flushers, Mark(f)
  PROVE  TInv'
<1> DEFINE id == Current(f).id
           row == Marked(rows[id], flush[f].answer)
           x == [batch |-> Rest(f), answer |-> ""]
<1>1. Working(f) /\ UNCHANGED <<clock, state, delivered, cut, raced>>
  BY DEF Mark
<1>2. id \in DOMAIN rows /\ rows[id] \in Rows
  BY <1>1, RestFacts, BatchFacts, Facts
<1>3. row \in Rows /\ row.run = rows[id].run /\ row.second = rows[id].second
      /\ row.version = rows[id].version
  BY <1>2, MarkedFacts
<1>4. rows' = [rows EXCEPT ![id] = row] /\ flush' = [flush EXCEPT ![f] = x]
  BY DEF Mark
<1>5. x \in Flushes /\ x.batch = Rest(f) /\ x.answer = ""
  BY <1>1, RestFacts DEF Flushes
<1> HIDE DEF id, row, x
<1>6. rows' \in [DOMAIN rows -> Rows]
  BY <1>2, <1>3, <1>4, Facts
<1>7. \A i \in DOMAIN rows :
        /\ rows'[i].run = rows[i].run /\ rows'[i].second = rows[i].second
        /\ rows'[i].version \in {rows[i].version, state[rows[i].run].version}
  BY <1>2, <1>3, <1>4, Facts
<1>8. /\ rows' \in Seq(Rows) /\ DOMAIN rows' = DOMAIN rows /\ Keyed'
      /\ \A i \in DOMAIN rows' : rows'[i].version <= state[rows'[i].run].version
  BY <1>6, <1>7, RewriteType
<1>9. flush'[f] = x
  BY <1>4 DEF TInv
<1>10. Ranked(f)'
  BY <1>1, <1>5, <1>8, <1>9, RestFacts DEF Ranked
<1>11. flush' \in [Flushers -> Flushes] /\ \A g \in Flushers : Ranked(g)'
  BY <1>4, <1>5, <1>8, <1>10, FlushType
<1>12. QED BY <1>1, <1>8, <1>11 DEF TInv, Saved, Truthful

\* What happens to rows without a flusher.
LEMMA RowType ==
  ASSUME TInv, Requeue \/ Tick \/ \E i \in DOMAIN rows : Elapse(i)
  PROVE  TInv'
<1>1. CASE Tick
  <2>1. clock' \in 0 .. MaxTime
    BY <1>1 DEF Tick, TInv
  <2>2. UNCHANGED <<state, rows, flush, delivered, cut, raced>>
    BY <1>1 DEF Tick
  <2>3. QED BY <2>1, <2>2 DEF TInv, Saved, Truthful, Keyed, Ranked
<1>2. CASE Requeue \/ \E i \in DOMAIN rows : Elapse(i)
  <2>1. UNCHANGED <<clock, state, flush, delivered, cut, raced>>
    BY <1>2 DEF Requeue, Elapse
  <2>2. \A row \in Rows : /\ [row EXCEPT !.status = "pending"] \in Rows
                          /\ [row EXCEPT !.waits = FALSE] \in Rows
    BY DEF Rows
  <2>3. \A row \in Rows : /\ [row EXCEPT !.status = "pending"].run = row.run
                          /\ [row EXCEPT !.status = "pending"].second = row.second
                          /\ [row EXCEPT !.status = "pending"].version = row.version
                          /\ [row EXCEPT !.waits = FALSE].run = row.run
                          /\ [row EXCEPT !.waits = FALSE].second = row.second
                          /\ [row EXCEPT !.waits = FALSE].version = row.version
    BY DEF Rows
  <2>4. rows' \in [DOMAIN rows -> Rows]
    BY <1>2, <2>2, Facts DEF Requeue, Elapse
  <2>5. \A i \in DOMAIN rows : \/ rows'[i] = rows[i]
                               \/ rows'[i] = [rows[i] EXCEPT !.status = "pending"]
                               \/ rows'[i] = [rows[i] EXCEPT !.waits = FALSE]
    BY <1>2, Facts DEF Requeue, Elapse
  <2>6. \A i \in DOMAIN rows :
          /\ rows'[i].run = rows[i].run /\ rows'[i].second = rows[i].second
          /\ rows'[i].version \in {rows[i].version, state[rows[i].run].version}
    BY <2>3, <2>5, Facts
  <2>7. /\ rows' \in Seq(Rows) /\ DOMAIN rows' = DOMAIN rows /\ Keyed'
        /\ \A i \in DOMAIN rows' : rows'[i].version <= state[rows'[i].run].version
    BY <2>4, <2>6, RewriteType
  <2>8. \A f \in Flushers : Ranked(f)'
    BY <2>1, <2>7 DEF TInv, Ranked
  <2>9. QED BY <2>1, <2>7, <2>8 DEF TInv, Saved, Truthful
<1>3. QED BY <1>1, <1>2

LEMMA StepType == TInv /\ [Next]_vars => TInv'
<1> SUFFICES ASSUME TInv, [Next]_vars PROVE TInv'
  OBVIOUS
<1>1. CASE UNCHANGED vars
  BY <1>1 DEF vars, TInv, Saved, Truthful, Keyed, Ranked
<1>2. CASE Next
  BY <1>2, SaverType, EnqueueType, ReadType, WorkType, MarkType, RowType DEF Next
<1>3. QED BY <1>1, <1>2

\* Every reachable state is well typed: the table never has two rows for one
\* run and second, a row never tells of a state its run did not have, and a
\* batch is within its limit and in the order of the table.
THEOREM TypeCorrect == Spec => []TypeOK
<1>1. QED BY InitType, StepType, TypeOfParts, PTL DEF Spec

-----------------------------------------------------------------------------
(* What is marked as projected was sent.                                   *)

\* A record that a flusher holds is what its row still tells, unless the row was
\* queued again meanwhile.
Carries(f) ==
  \A k \in DOMAIN flush[f].batch :
    LET t == flush[f].batch[k] IN
    t.id \notin raced => rows[t.id].run = t.run /\ rows[t.id].version = t.version

\* An answer that counts as a success follows a delivery.
Answered(f) ==
  flush[f].answer = "accepted" => <<Current(f).run, Current(f).version>> \in delivered

SInv == TInv /\ (\A f \in Flushers : Carries(f) /\ Answered(f)) /\ ProjectedWasSent

\* A step that leaves what the rows tell, and puts no row forward as projected.
LEMMA SameTale ==
  ASSUME SInv, DOMAIN rows' = DOMAIN rows, flush' = flush, delivered' = delivered, raced' = raced,
         \A i \in DOMAIN rows :
           /\ rows'[i].run = rows[i].run /\ rows'[i].version = rows[i].version
           /\ rows'[i].status = "projected" => rows[i].status = "projected"
  PROVE  (\A f \in Flushers : Carries(f)' /\ Answered(f)') /\ ProjectedWasSent'
<1>1. ASSUME NEW f \in Flushers PROVE Carries(f)'
  <2>1. \A k \in DOMAIN flush[f].batch : flush[f].batch[k].id \in DOMAIN rows
    BY BatchFacts DEF SInv
  <2>2. QED BY <2>1 DEF SInv, Carries
<1>2. ASSUME NEW f \in Flushers PROVE Answered(f)'
  BY DEF SInv, Answered, Current
<1>3. ProjectedWasSent'
  BY DEF SInv, ProjectedWasSent
<1>4. QED BY <1>1, <1>2, <1>3

LEMMA EnqueueSent ==
  ASSUME SInv, NEW r \in Runs, Enqueue(r)
  PROVE  (\A f \in Flushers : Carries(f)' /\ Answered(f)') /\ ProjectedWasSent'
<1>1. UNCHANGED <<flush, delivered>> /\ raced' = raced \cup {i \in RowOf(r) : Held(i)}
  BY DEF Enqueue
<1>2. Pending(r).status = "pending"
  BY DEF Pending
<1>3. \A i \in DOMAIN rows \ RowOf(r) : rows'[i] = rows[i]
  <2>1. CASE RowOf(r) = {}
    <3>1. rows' = Append(rows, Pending(r)) /\ state[r].version # 0
      BY <2>1 DEF Enqueue, SInv, TInv, Saved
    <3>2. QED BY <3>1, PendingFacts, AppendProperties, LenProperties DEF SInv, TInv
  <2>2. CASE RowOf(r) # {}
    BY <2>2 DEF Enqueue, Queued
  <2>3. QED BY <2>1, <2>2
<1>4. ASSUME NEW f \in Flushers PROVE Carries(f)' /\ Answered(f)'
  <2>1. ASSUME NEW k \in DOMAIN flush[f].batch, flush[f].batch[k].id \notin raced'
        PROVE  LET t == flush[f].batch[k] IN rows'[t.id].run = t.run /\ rows'[t.id].version = t.version
    <3> DEFINE t == flush[f].batch[k]
    <3>1. t.id \in DOMAIN rows /\ Held(t.id)
      BY BatchFacts DEF SInv, Held, Range
    <3>2. t.id \notin raced /\ t.id \notin RowOf(r)
      BY <1>1, <2>1, <3>1
    <3>3. QED BY <1>3, <3>1, <3>2 DEF SInv, Carries
  <2>2. Carries(f)'
    BY <1>1, <2>1 DEF Carries
  <2>3. Answered(f)'
    BY <1>1 DEF SInv, Answered, Current
  <2>4. QED BY <2>2, <2>3
<1>5. \A i \in DOMAIN rows' : (i \in DOMAIN rows /\ rows'[i] = rows[i]) \/ rows'[i] = Pending(r)
  <2>1. CASE RowOf(r) = {}
    <3>1. rows' = Append(rows, Pending(r)) /\ state[r].version # 0
      BY <2>1 DEF Enqueue, SInv, TInv, Saved
    <3>2. /\ DOMAIN rows' = 1 .. Len(rows) + 1 /\ rows'[Len(rows) + 1] = Pending(r)
          /\ Len(rows) \in Nat /\ DOMAIN rows = 1 .. Len(rows)
      BY <3>1, PendingFacts, AppendProperties, LenProperties DEF SInv, TInv
    <3>3. \A i \in DOMAIN rows' : i \in DOMAIN rows \/ i = Len(rows) + 1
      BY <3>2
    <3>4. QED BY <1>3, <2>1, <3>2, <3>3
  <2>2. CASE RowOf(r) # {}
    BY <2>2 DEF Enqueue, Queued
  <2>3. QED BY <2>1, <2>2
<1>6. ProjectedWasSent'
  BY <1>1, <1>2, <1>5 DEF SInv, ProjectedWasSent
<1>7. QED BY <1>4, <1>6

LEMMA EnqueueAgainSent ==
  ASSUME SInv, NEW r \in Runs, EnqueueAgain(r)
  PROVE  (\A f \in Flushers : Carries(f)' /\ Answered(f)') /\ ProjectedWasSent'
<1>1. UNCHANGED <<flush, delivered, raced>>
  BY DEF EnqueueAgain
<1>2. PICK n \in RowOf(r) : rows[n].version = state[r].version
  BY DEF EnqueueAgain
<1>3. \A i \in RowOf(r) : i = n /\ rows[i].run = r
  BY DEF RowOf, SInv, TInv, Keyed
<1>4. Pending(r).run = r /\ Pending(r).version = state[r].version /\ Pending(r).status = "pending"
  BY DEF Pending
<1>5. DOMAIN rows' = DOMAIN rows
      /\ \A i \in DOMAIN rows : rows'[i] = rows[i] \/ (i \in RowOf(r) /\ rows'[i] = Pending(r))
  BY DEF EnqueueAgain
<1>6. \A i \in DOMAIN rows :
        /\ rows'[i].run = rows[i].run /\ rows'[i].version = rows[i].version
        /\ rows'[i].status = "projected" => rows[i].status = "projected"
  BY <1>2, <1>3, <1>4, <1>5
<1>7. QED BY <1>1, <1>5, <1>6, SameTale

LEMMA RestCarries ==
  ASSUME SInv, NEW f \in Flushers, Working(f), NEW k \in DOMAIN Rest(f), Rest(f)[k].id \notin raced
  PROVE  /\ Rest(f)[k].id \in DOMAIN rows
         /\ rows[Rest(f)[k].id].run = Rest(f)[k].run
         /\ rows[Rest(f)[k].id].version = Rest(f)[k].version
<1>1. k + 1 \in DOMAIN flush[f].batch /\ Rest(f)[k] = flush[f].batch[k + 1]
      /\ Rest(f)[k].id \in DOMAIN rows
  BY RestFacts DEF SInv
<1>2. \A j \in DOMAIN flush[f].batch :
        flush[f].batch[j].id \notin raced =>
          /\ rows[flush[f].batch[j].id].run = flush[f].batch[j].run
          /\ rows[flush[f].batch[j].id].version = flush[f].batch[j].version
  BY DEF SInv, Carries
<1>3. QED BY <1>1, <1>2

\* A flusher that reads, skips, sends or dies.
LEMMA WorkSent ==
  ASSUME SInv, NEW f \in Flushers, Read(f) \/ Skip(f) \/ Sends(f) \/ FlusherDies(f)
  PROVE  (\A g \in Flushers : Carries(g)' /\ Answered(g)') /\ ProjectedWasSent'
<1> USE DEF SInv
<1>1. UNCHANGED <<rows, raced>> /\ delivered \subseteq delivered'
  BY DEF Read, Skip, Sends, Send, FlusherDies
<1>2. ProjectedWasSent'
  BY <1>1 DEF ProjectedWasSent
<1>3. ASSUME NEW g \in Flushers \ {f} PROVE Carries(g)' /\ Answered(g)'
  <2>1. flush'[g] = flush[g]
    BY DEF Read, Skip, Sends, Send, FlusherDies, TInv
  <2>2. QED BY <1>1, <2>1 DEF Carries, Answered, Current
<1>4. Carries(f)' /\ Answered(f)'
  <2>1. CASE Read(f)
    <3>1. flush'[f].batch = Taking /\ flush'[f].answer = ""
      <4>1. flush'[f] = [flush[f] EXCEPT !.batch = Taking] /\ flush[f] = Idle
        BY <2>1 DEF Read, TInv
      <4>2. flush[f] \in Flushes /\ Idle.answer = ""
        BY BatchFacts DEF Idle
      <4>3. QED BY <4>1, <4>2 DEF Flushes
    <3>2. \A n \in DOMAIN Taking : /\ rows[Taking[n].id].run = Taking[n].run
                                   /\ rows[Taking[n].id].version = Taking[n].version
      BY DEF Taking
    <3>3. QED BY <1>1, <3>1, <3>2 DEF Carries, Answered
  <2>2. CASE Skip(f)
    <3>1. flush'[f].batch = Rest(f) /\ flush'[f].answer = "" /\ Working(f)
      BY <2>2, BatchFacts DEF Skip, TInv, Flushes
    <3>2. ASSUME NEW k \in DOMAIN Rest(f), Rest(f)[k].id \notin raced'
          PROVE  /\ rows'[Rest(f)[k].id].run = Rest(f)[k].run
                 /\ rows'[Rest(f)[k].id].version = Rest(f)[k].version
      BY <1>1, <3>1, <3>2, RestCarries
    <3>3. Carries(f)'
      BY <3>1, <3>2 DEF Carries
    <3>4. QED BY <3>1, <3>3 DEF Answered
  <2>3. ASSUME NEW answer \in Answer, Send(f, answer) PROVE Carries(f)' /\ Answered(f)'
    <3>1. /\ flush'[f].batch = flush[f].batch
          /\ flush'[f].answer = IF answer = "lost" THEN "transient" ELSE answer
      BY <2>3, BatchFacts DEF Send, TInv, Flushes
    <3>2. answer = "accepted" => <<Current(f).run, Current(f).version>> \in delivered'
      BY <2>3 DEF Send
    <3>3. Carries(f)'
      BY <1>1, <3>1 DEF Carries
    <3>4. Answered(f)'
      BY <3>1, <3>2 DEF Answered, Current
    <3>5. QED BY <3>3, <3>4
  <2>4. CASE FlusherDies(f)
    <3>1. flush'[f] = Idle
      BY <2>4 DEF FlusherDies, TInv
    <3>2. DOMAIN <<>> = {} /\ Idle.batch = <<>> /\ Idle.answer = ""
      BY EmptySeq DEF Idle
    <3>3. QED BY <3>1, <3>2 DEF Carries, Answered
  <2>5. QED BY <2>1, <2>2, <2>3, <2>4 DEF Sends
<1>5. QED BY <1>2, <1>3, <1>4

LEMMA MarkSent ==
  ASSUME SInv, NEW f \in Flushers, Mark(f)
  PROVE  (\A g \in Flushers : Carries(g)' /\ Answered(g)') /\ ProjectedWasSent'
<1> DEFINE id == Current(f).id
           row == Marked(rows[id], flush[f].answer)
<1> USE DEF SInv
<1>1. Working(f) /\ UNCHANGED <<delivered, raced>>
  BY DEF Mark
<1>2. id \in DOMAIN rows /\ rows[id] \in Rows /\ Current(f) = flush[f].batch[1] /\ 1 \in DOMAIN flush[f].batch
  BY <1>1, RestFacts, BatchFacts, Facts
<1>3. /\ row.run = rows[id].run /\ row.version = rows[id].version
      /\ row.status = "projected" <=> flush[f].answer = "accepted"
  BY <1>2, MarkedFacts
<1>4. rows' = [rows EXCEPT ![id] = row]
      /\ flush' = [flush EXCEPT ![f] = [batch |-> Rest(f), answer |-> ""]]
  BY DEF Mark
<1>5. id \notin raced => rows[id].run = Current(f).run /\ rows[id].version = Current(f).version
  BY <1>2 DEF Carries
<1> HIDE DEF id, row
<1>6. /\ DOMAIN rows' = DOMAIN rows /\ rows'[id] = row
      /\ \A i \in DOMAIN rows : rows'[i].run = rows[i].run /\ rows'[i].version = rows[i].version
      /\ \A i \in DOMAIN rows \ {id} : rows'[i] = rows[i]
  BY <1>2, <1>3, <1>4, Facts
<1>7. ProjectedWasSent'
  <2>1. ASSUME NEW i \in DOMAIN rows \ raced, rows'[i].status = "projected"
        PROVE  <<rows'[i].run, rows'[i].version>> \in delivered
    <3>1. CASE i = id
      BY <1>3, <1>5, <1>6, <2>1, <3>1 DEF Answered
    <3>2. CASE i # id
      BY <1>6, <2>1, <3>2 DEF ProjectedWasSent
    <3>3. QED BY <3>1, <3>2
  <2>2. QED BY <1>1, <1>6, <2>1 DEF ProjectedWasSent
<1>8. ASSUME NEW g \in Flushers PROVE Carries(g)' /\ Answered(g)'
  <2>1. \A k \in DOMAIN flush[g].batch : flush[g].batch[k].id \in DOMAIN rows
    BY BatchFacts
  <2>2. CASE g # f
    <3>1. flush'[g] = flush[g]
      BY <1>4, <2>2 DEF TInv
    <3>2. QED BY <1>1, <1>6, <2>1, <3>1 DEF Carries, Answered, Current
  <2>3. CASE g = f
    <3>1. flush'[f].batch = Rest(f) /\ flush'[f].answer = ""
      BY <1>4 DEF TInv
    <3>2. ASSUME NEW k \in DOMAIN Rest(f), Rest(f)[k].id \notin raced'
          PROVE  /\ rows'[Rest(f)[k].id].run = Rest(f)[k].run
                 /\ rows'[Rest(f)[k].id].version = Rest(f)[k].version
      BY <1>1, <1>6, <3>2, RestCarries
    <3>3. Carries(f)'
      BY <3>1, <3>2 DEF Carries
    <3>4. QED BY <2>3, <3>1, <3>3 DEF Answered
  <2>4. QED BY <2>2, <2>3
<1>9. QED BY <1>7, <1>8

LEMMA SentStep == SInv /\ [Next]_vars => SInv'
<1> SUFFICES ASSUME SInv, [Next]_vars PROVE SInv'
  OBVIOUS
<1>1. TInv'
  BY StepType DEF SInv
<1>2. CASE UNCHANGED <<rows, flush, delivered, raced>>
  BY <1>1, <1>2, SameTale DEF SInv
<1>3. ASSUME NEW r \in Runs, Save(r) \/ Enqueue(r) \/ EnqueueAgain(r) \/ SaverDies(r) PROVE SInv'
  BY <1>1, <1>2, <1>3, EnqueueSent, EnqueueAgainSent DEF Save, SaverDies, SInv
<1>4. ASSUME NEW f \in Flushers, Read(f) \/ Skip(f) \/ Sends(f) \/ Mark(f) \/ FlusherDies(f) PROVE SInv'
  BY <1>1, <1>4, WorkSent, MarkSent DEF SInv
<1>5. CASE Requeue \/ \E i \in DOMAIN rows : Elapse(i)
  <2>1. UNCHANGED <<flush, delivered, raced>>
    BY <1>5 DEF Requeue, Elapse
  <2>2. \A row \in Rows : /\ [row EXCEPT !.status = "pending"].run = row.run
                          /\ [row EXCEPT !.status = "pending"].version = row.version
                          /\ [row EXCEPT !.status = "pending"].status = "pending"
                          /\ [row EXCEPT !.waits = FALSE].run = row.run
                          /\ [row EXCEPT !.waits = FALSE].version = row.version
                          /\ [row EXCEPT !.waits = FALSE].status = row.status
    BY DEF Rows
  <2>3. DOMAIN rows' = DOMAIN rows
        /\ \A i \in DOMAIN rows : \/ rows'[i] = rows[i]
                                  \/ rows'[i] = [rows[i] EXCEPT !.status = "pending"]
                                  \/ rows'[i] = [rows[i] EXCEPT !.waits = FALSE]
    BY <1>5 DEF Requeue, Elapse
  <2>4. \A i \in DOMAIN rows :
          /\ rows'[i].run = rows[i].run /\ rows'[i].version = rows[i].version
          /\ rows'[i].status = "projected" => rows[i].status = "projected"
    BY <2>2, <2>3, Facts DEF SInv
  <2>5. QED BY <1>1, <2>1, <2>3, <2>4, SameTale DEF SInv
<1>6. QED BY <1>2, <1>3, <1>4, <1>5 DEF Next, Tick, vars

\* A projection is marked as sent only when the dashboard has the very state
\* that its row tells, with any number of flushers at one table, lost answers,
\* crashes and dead letters put back; rows that were queued again in the same
\* second under a flusher are the exception.
THEOREM ProjectedWasDelivered == Spec => []ProjectedWasSent
<1>1. Init => SInv
  <2>1. ASSUME Init PROVE (\A f \in Flushers : Carries(f) /\ Answered(f)) /\ ProjectedWasSent
    <3>1. \A f \in Flushers : flush[f] = Idle
      BY <2>1 DEF Init
    <3>2. DOMAIN <<>> = {} /\ rows = <<>> /\ Idle.batch = <<>> /\ Idle.answer = ""
      <4>1. Idle.batch = <<>> /\ Idle.answer = ""
        BY DEF Idle
      <4>2. rows = <<>>
        BY <2>1 DEF Init
      <4>3. DOMAIN <<>> = {}
        BY EmptySeq
      <4>4. QED BY <4>1, <4>2, <4>3
    <3>3. QED BY <3>1, <3>2 DEF Carries, Answered, ProjectedWasSent
  <2>2. QED BY <2>1, InitType DEF SInv
<1>2. SInv => ProjectedWasSent
  BY DEF SInv
<1>3. QED BY <1>1, <1>2, SentStep, PTL DEF Spec
=============================================================================
