-------------------------- MODULE Approvals_proofs --------------------------
(***************************************************************************)
(* Theorems about Approvals for every set of processes, callers and        *)
(* surfaces, every use of ids the manager allows and all limits.           *)
(***************************************************************************)
EXTENDS Approvals, WellFoundedInduction, SequenceTheorems, TLAPS

\* The queue of a process holds its own callers.
AtHome == \A p \in Procs : \A c \in pending[p] : Home[c] = p

TInv == TypeOK /\ AtHome

\* Every trace of an approval comes from a person or a rule: the answers under way
\* in channels and surfaces, and the facts.
Genuine ==
  /\ \A c \in Callers : chan[c] = "yes" => IdOf[c] \in yes
  /\ \A i \in DOMAIN facts : facts[i].status = "approved" => IdOf[facts[i].by] \in yes
  /\ \A s \in Surfaces : say[s] # <<>> /\ say[s][2] = "yes" => say[s][1] \in yes

RInv == TInv /\ Genuine /\ ApprovalIsReal

-----------------------------------------------------------------------------
(* A decision is final where an id is used by one life of the desktop at a *)
(* time.                                                                   *)

\* An id that several callers use belongs to a step of a workflow run, and those
\* callers are lives of the desktop (the only caller of
\* request_workflow_approval_with_cancel, behind the lock of the single instance).
OneLife ==
  \A c, d \in Callers :
    c # d /\ IdOf[c] = IdOf[d] => c \in Stable /\ d \in Stable
                                  /\ Home[c] \in Single /\ Home[d] \in Single

Busy(c) == pc[c] \notin {"idle", "done", "dead"}

Lives ==
  /\ \A p, q \in Single : Up(p) /\ Up(q) => p = q
  /\ \A c \in Callers : Busy(c) => Up(Home[c])

\* A request with an id of its own is published once.
PublishedOnce ==
  \A i \in DOMAIN facts :
    facts[i].by \notin Stable => pc[facts[i].by] \notin {"idle", "asking"}

\* The facts of a dead life of the desktop are closed before the next one acts.
Recovered ==
  /\ \A i \in DOMAIN facts :
       Orphan(facts[i]) /\ Home[facts[i].by] \in Single => \A q \in Single : ~Up(q)
  /\ \A c \in Callers : pc[c] # "reviving"

\* Who is about to publish found no open and no decided request.
Vacant ==
  \A c \in Callers : pc[c] = "asking" => StatusOf(IdOf[c]) \in {"none", "expired", "interrupted"}

VInv == TInv /\ Lives /\ PublishedOnce /\ Recovered /\ Vacant

-----------------------------------------------------------------------------
(* The latest fact with an id.                                             *)

LastIn(fs, id)   == SelectLastInSeq(fs, LAMBDA f : IdOf[f.by] = id)
StatusIn(fs, id) == IF LastIn(fs, id) = 0 THEN "none" ELSE fs[LastIn(fs, id)].status

\* n is the position of the last fact with this id.
IsLast(fs, id, n) ==
  /\ n \in 1 .. Len(fs) /\ IdOf[fs[n].by] = id
  /\ \A m \in 1 .. Len(fs) : IdOf[fs[m].by] = id => m <= n

\* A set of numbers with a bound has a greatest element.
LEMMA Greatest ==
  ASSUME NEW S, NEW n \in Nat, \A x \in S : x \in Nat /\ x <= n, S # {}
  PROVE  \E m \in S : \A x \in S : x <= m
<1> DEFINE B == {b \in Nat : \A x \in S : x <= b}
<1>1. B # {} /\ \A b \in B : b \in Nat
  OBVIOUS
<1>2. \E b \in B : \A j \in B : ~(<<j, b>> \in OpToRel(<, Nat))
  <2> HIDE DEF B
  <2>1. QED BY <1>1, NatLessThanWellFounded, WFMin
<1>3. PICK b \in B : \A j \in B : ~(<<j, b>> \in OpToRel(<, Nat))
  BY <1>2
<1>4. \A j \in B : ~(j < b)
  <2>1. ASSUME NEW j \in B, j < b PROVE FALSE
    <3>1. <<j, b>> \in OpToRel(<, Nat)
      BY <2>1 DEF OpToRel
    <3>2. QED BY <1>3, <3>1
  <2>2. QED BY <2>1
<1>5. b \in S
  <2>1. SUFFICES ASSUME b \notin S PROVE FALSE
    OBVIOUS
  <2>2. PICK z \in S : TRUE
    OBVIOUS
  <2>3. b \in Nat /\ z <= b /\ z # b /\ z \in Nat
    BY <2>1
  <2>4. \A x \in S : x <= b - 1
    <3>1. \A x \in S : x \in Nat /\ x <= b /\ x # b
      BY <2>1
    <3>2. QED BY <2>3, <3>1
  <2>5. b - 1 \in B
    BY <2>3, <2>4
  <2>6. b - 1 < b
    BY <2>3
  <2>7. QED BY <1>4, <2>5, <2>6
<1>6. QED BY <1>5

LEMMA LastExists ==
  ASSUME NEW fs \in Seq(Facts), NEW id
  PROVE  \/ LastIn(fs, id) = 0 /\ \A n \in 1 .. Len(fs) : IdOf[fs[n].by] # id
         \/ IsLast(fs, id, LastIn(fs, id))
<1> DEFINE I == {i \in 1 .. Len(fs) : IdOf[fs[i].by] = id}
<1>0. Len(fs) \in Nat
  BY LenProperties
<1>1. LastIn(fs, id) = IF I # {} THEN Max(I) ELSE 0
  BY DEF LastIn, SelectLastInSeq
<1>2. CASE I = {}
  BY <1>1, <1>2
<1>3. CASE I # {}
  <2>1. \A x \in I : x \in Nat /\ x <= Len(fs)
    BY <1>0
  <2>2. \E m \in I : \A x \in I : x <= m
    <3> HIDE DEF I
    <3>1. QED BY <1>0, <1>3, <2>1, Greatest
  <2>3. \E m \in I : \A x \in I : m >= x
    BY <2>1, <2>2
  <2>4. Max(I) \in I /\ \A x \in I : Max(I) >= x
    <3> HIDE DEF I
    <3>1. QED BY <2>3 DEF Max
  <2>5. QED BY <1>1, <1>3, <2>1, <2>4 DEF IsLast
<1>4. QED BY <1>2, <1>3

\* The position, and so the status, is what this description says.
LEMMA LastIs ==
  ASSUME NEW fs \in Seq(Facts), NEW id
  PROVE  /\ \A n : IsLast(fs, id, n) => LastIn(fs, id) = n /\ StatusIn(fs, id) = fs[n].status
         /\ (\A n \in 1 .. Len(fs) : IdOf[fs[n].by] # id) => StatusIn(fs, id) = "none"
<1>1. ASSUME NEW n, IsLast(fs, id, n) PROVE LastIn(fs, id) = n /\ n # 0
  <2>1. n \in 1 .. Len(fs) /\ IdOf[fs[n].by] = id /\ Len(fs) \in Nat
    BY <1>1, LenProperties DEF IsLast
  <2>2. IsLast(fs, id, LastIn(fs, id))
    BY <2>1, LastExists
  <2> DEFINE l == LastIn(fs, id)
  <2>3. l \in 1 .. Len(fs) /\ IdOf[fs[l].by] = id
    BY <2>2 DEF IsLast
  <2> HIDE DEF l
  <2>4. n <= l /\ l <= n
    BY <1>1, <2>1, <2>2, <2>3 DEF IsLast, l
  <2>5. QED BY <2>1, <2>3, <2>4 DEF l
<1>2. ASSUME \A n \in 1 .. Len(fs) : IdOf[fs[n].by] # id PROVE LastIn(fs, id) = 0
  BY <1>2, LastExists DEF IsLast
<1>3. QED BY <1>1, <1>2 DEF StatusIn

LEMMA StatusFacts ==
  ASSUME NEW fs \in Seq(Facts), NEW id
  PROVE  \/ StatusIn(fs, id) = "none" /\ LastIn(fs, id) = 0
            /\ \A n \in 1 .. Len(fs) : IdOf[fs[n].by] # id
         \/ /\ IsLast(fs, id, LastIn(fs, id))
            /\ StatusIn(fs, id) = fs[LastIn(fs, id)].status
            /\ fs[LastIn(fs, id)] \in Facts /\ StatusIn(fs, id) \in FactStatus
<1>1. CASE LastIn(fs, id) = 0 /\ \A n \in 1 .. Len(fs) : IdOf[fs[n].by] # id
  BY <1>1 DEF StatusIn
<1>2. CASE IsLast(fs, id, LastIn(fs, id))
  <2> DEFINE l == LastIn(fs, id)
  <2>1. l \in 1 .. Len(fs) /\ Len(fs) \in Nat
    BY <1>2, LenProperties DEF IsLast
  <2> HIDE DEF l
  <2>2. fs[l] \in Facts
    BY <2>1, ElementOfSeq
  <2>3. fs[l].status \in FactStatus
    BY <2>2 DEF Facts
  <2>4. StatusIn(fs, id) = fs[l].status
    BY <1>2, LastIs DEF l
  <2>5. QED BY <1>2, <2>2, <2>3, <2>4 DEF l
<1>3. QED BY <1>1, <1>2, LastExists

LEMMA StatusNow ==
  /\ \A id : Latest(id) = LastIn(facts, id) /\ StatusOf(id) = StatusIn(facts, id)
  /\ \A id : Latest(id)' = LastIn(facts', id) /\ StatusOf(id)' = StatusIn(facts', id)
<1>1. ASSUME NEW id PROVE Latest(id) = LastIn(facts, id)
  BY DEF Latest, LastIn, SelectLastInSeq
<1>2. ASSUME NEW id PROVE Latest(id)' = LastIn(facts', id)
  BY DEF Latest, LastIn, SelectLastInSeq
<1>3. ASSUME NEW id PROVE StatusOf(id) = StatusIn(facts, id)
  BY <1>1 DEF StatusOf, StatusIn
<1>4. ASSUME NEW id PROVE StatusOf(id)' = StatusIn(facts', id)
  BY <1>2 DEF StatusOf, StatusIn
<1>5. QED BY <1>1, <1>2, <1>3, <1>4

-----------------------------------------------------------------------------
(* What the operations on the file do to the status of each id.            *)

Typed(fs) == fs \in Seq(Facts) /\ Len(fs) <= MaxFacts

LEMMA Positions ==
  ASSUME NEW fs \in Seq(Facts)
  PROVE  Len(fs) \in Nat /\ DOMAIN fs = 1 .. Len(fs) /\ \A i \in 1 .. Len(fs) : fs[i] \in Facts
BY ElementOfSeq, LenProperties

\* The last facts are where they were when no fact changes its caller.
LEMMA SamePlaces ==
  ASSUME NEW fs \in Seq(Facts), NEW fs2 \in Seq(Facts), Len(fs2) = Len(fs),
         \A i \in 1 .. Len(fs) : fs2[i].by = fs[i].by, NEW id
  PROVE  /\ LastIn(fs2, id) = LastIn(fs, id)
         /\ StatusIn(fs, id) = "none" => StatusIn(fs2, id) = "none"
         /\ StatusIn(fs, id) # "none" => StatusIn(fs2, id) = fs2[LastIn(fs, id)].status
<1> DEFINE l == LastIn(fs, id)
<1>1. CASE StatusIn(fs, id) = "none" /\ l = 0 /\ \A n \in 1 .. Len(fs) : IdOf[fs[n].by] # id
  <2>1. \A n \in 1 .. Len(fs2) : IdOf[fs2[n].by] # id
    BY <1>1
  <2>2. StatusIn(fs2, id) = "none"
    BY <2>1, LastIs
  <2>3. LastIn(fs2, id) = 0
    BY <2>1, LastExists DEF IsLast
  <2>4. QED BY <1>1, <2>2, <2>3
<1>2. CASE IsLast(fs, id, l) /\ StatusIn(fs, id) \in FactStatus
  <2>1. IsLast(fs2, id, l)
    <3> HIDE DEF l
    <3>1. QED BY <1>2 DEF IsLast
  <2>2. LastIn(fs2, id) = l /\ StatusIn(fs2, id) = fs2[l].status
    <3> HIDE DEF l
    <3>1. QED BY <2>1, LastIs
  <2>3. StatusIn(fs, id) # "none"
    BY <1>2 DEF FactStatus
  <2>4. QED BY <2>2, <2>3
<1>3. QED BY <1>1, <1>2, StatusFacts

\* resolve_fact decides the last open fact of its id, or nothing.
LEMMA ResolveFacts ==
  ASSUME Typed(facts), NEW id, NEW st \in FactStatus, Resolve(id, st)
  PROVE  /\ Typed(facts') /\ Len(facts') = Len(facts)
         /\ \A i \in 1 .. Len(facts) :
              /\ facts'[i].by = facts[i].by
              /\ facts'[i].status = facts[i].status
                 \/ (facts[i].status = "pending" /\ facts'[i].status = st /\ IdOf[facts[i].by] = id)
         /\ \A o : StatusOf(o)' = IF o = id /\ StatusOf(o) = "pending" THEN st ELSE StatusOf(o)
<1>1. facts \in Seq(Facts) /\ StatusOf(id) = StatusIn(facts, id) /\ Latest(id) = LastIn(facts, id)
  BY StatusNow DEF Typed
<1>2. CASE StatusOf(id) # "pending"
  <2>1. facts' = facts
    BY <1>2 DEF Resolve
  <2>2. \A o : StatusOf(o)' = StatusOf(o)
    BY <2>1, StatusNow
  <2>3. QED BY <1>2, <2>1, <2>2 DEF Typed
<1>3. CASE StatusOf(id) = "pending"
  <2> DEFINE l == Latest(id)
             f == [facts[l] EXCEPT !.status = st]
  <2>1. /\ IsLast(facts, id, l) /\ facts[l].status = "pending" /\ facts[l] \in Facts
        /\ l \in 1 .. Len(facts) /\ IdOf[facts[l].by] = id
    <3>1. /\ IsLast(facts, id, LastIn(facts, id)) /\ facts[LastIn(facts, id)] \in Facts
          /\ StatusIn(facts, id) = facts[LastIn(facts, id)].status
      BY <1>1, <1>3, StatusFacts
    <3>2. l = LastIn(facts, id)
      BY <1>1
    <3> HIDE DEF l
    <3>3. QED BY <1>1, <1>3, <3>1, <3>2 DEF IsLast
  <2>2. facts' = [facts EXCEPT ![l] = f]
    BY <1>3 DEF Resolve
  <2>3. f \in Facts /\ f.by = facts[l].by /\ f.status = st
    BY <2>1 DEF Facts
  <2> HIDE DEF f, l
  <2>4. facts' \in Seq(Facts) /\ Len(facts') = Len(facts)
    BY <1>1, <2>1, <2>2, <2>3, ExceptSeq
  <2>5. facts'[l] = f /\ \A i \in 1 .. Len(facts) : i # l => facts'[i] = facts[i]
    BY <1>1, <2>1, <2>2, Positions
  <2>6. \A i \in 1 .. Len(facts) : facts'[i].by = facts[i].by
    BY <2>3, <2>5
  <2>7. ASSUME NEW o
        PROVE  StatusOf(o)' = IF o = id /\ StatusOf(o) = "pending" THEN st ELSE StatusOf(o)
    <3>1. StatusOf(o)' = StatusIn(facts', o) /\ StatusOf(o) = StatusIn(facts, o)
      BY StatusNow
    <3>2. /\ StatusIn(facts, o) = "none" => StatusIn(facts', o) = "none"
          /\ StatusIn(facts, o) # "none" => StatusIn(facts', o) = facts'[LastIn(facts, o)].status
      BY <1>1, <2>4, <2>6, SamePlaces
    <3>3. CASE o = id
      <4>1. LastIn(facts, o) = l
        BY <1>1, <3>3 DEF l
      <4>2. QED BY <1>3, <2>3, <2>5, <3>1, <3>2, <3>3, <4>1
    <3>4. CASE o # id /\ StatusIn(facts, o) = "none"
      BY <3>1, <3>2, <3>4
    <3>5. CASE o # id /\ IsLast(facts, o, LastIn(facts, o))
               /\ StatusIn(facts, o) = facts[LastIn(facts, o)].status
               /\ StatusIn(facts, o) \in FactStatus
      <4> DEFINE k == LastIn(facts, o)
      <4>1. k \in 1 .. Len(facts) /\ k # l
        BY <2>1, <3>5 DEF IsLast
      <4>2. StatusIn(facts, o) # "none"
        BY <3>5 DEF FactStatus
      <4>3. QED BY <2>5, <3>1, <3>2, <3>5, <4>1, <4>2
    <3>6. QED BY <1>1, <3>3, <3>4, <3>5, StatusFacts
  <2>8. QED BY <2>1, <2>3, <2>4, <2>5, <2>6, <2>7 DEF Typed
<1>4. QED BY <1>2, <1>3

\* A new fact is the latest of its id; the oldest fact may leave the file.
LEMMA AppendFacts ==
  ASSUME Typed(facts), NEW c \in Callers, NEW st \in FactStatus, AppendFact(c, st)
  PROVE  /\ Typed(facts')
         /\ \A i \in 1 .. Len(facts') :
              \/ facts'[i] = [by |-> c, status |-> st]
              \/ \E j \in 1 .. Len(facts) : facts'[i] = facts[j]
         /\ StatusOf(IdOf[c])' = st
         /\ \A o : o # IdOf[c] => StatusOf(o)' \in {StatusOf(o), "none"}
<1> DEFINE f == [by |-> c, status |-> st]
           n == Len(facts)
           longer == Append(facts, f)
<1>1. facts \in Seq(Facts) /\ n \in Nat /\ n <= MaxFacts /\ MaxFacts \in Nat /\ MaxFacts # 0
  BY ApprovalsAssumption, Positions DEF Typed
<1>2. f \in Facts
  BY DEF Facts
<1>3. /\ longer \in Seq(Facts) /\ Len(longer) = n + 1 /\ longer[n + 1] = f
      /\ \A i \in 1 .. n : longer[i] = facts[i]
  BY <1>1, <1>2, AppendProperties
<1>4. facts' = IF Len(longer) > MaxFacts THEN Tail(longer) ELSE longer
  BY DEF AppendFact
<1> HIDE DEF f, longer
\* In both cases the facts move down by k places.
<1>5. \E k \in {0, 1} :
        /\ facts' \in Seq(Facts) /\ Len(facts') = n + 1 - k /\ Len(facts') <= MaxFacts
        /\ facts'[n + 1 - k] = f /\ n + 1 - k >= 1
        /\ \A i \in 1 .. (n - k) : facts'[i] = facts[i + k]
  <2>1. CASE ~(Len(longer) > MaxFacts)
    <3>1. facts' = longer
      BY <1>4, <2>1
    <3>2. QED BY <1>1, <1>3, <2>1, <3>1
  <2>2. CASE Len(longer) > MaxFacts
    <3>1. facts' = Tail(longer) /\ n = MaxFacts
      BY <1>1, <1>3, <1>4, <2>2
    <3>2. longer # << >>
      BY <1>1, <1>3, EmptySeq
    <3>3. /\ Tail(longer) \in Seq(Facts) /\ Len(Tail(longer)) = n
          /\ \A i \in 1 .. n : Tail(longer)[i] = longer[i + 1]
      BY <1>1, <1>3, <3>2, HeadTailProperties
    <3>4. facts'[n] = f /\ \A i \in 1 .. (n - 1) : facts'[i] = facts[i + 1]
      BY <1>1, <1>3, <3>1, <3>3
    <3>5. QED BY <1>1, <3>1, <3>3, <3>4
  <2>3. QED BY <2>1, <2>2
<1>6. PICK k \in {0, 1} :
        /\ facts' \in Seq(Facts) /\ Len(facts') = n + 1 - k /\ Len(facts') <= MaxFacts
        /\ facts'[n + 1 - k] = f /\ n + 1 - k >= 1
        /\ \A i \in 1 .. (n - k) : facts'[i] = facts[i + k]
  BY <1>5
<1> DEFINE m == n + 1 - k
<1>7. /\ m \in Nat /\ m >= 1 /\ Len(facts') = m /\ facts'[m] = f
      /\ \A i \in 1 .. m : i # m => i \in 1 .. (n - k) /\ i + k \in 1 .. n /\ facts'[i] = facts[i + k]
  BY <1>1, <1>6
<1>8. f.by = c /\ f.status = st
  BY DEF f
<1> HIDE DEF m, n
<1>9. StatusIn(facts', IdOf[c]) = st
  <2>1. IsLast(facts', IdOf[c], m)
    BY <1>7, <1>8 DEF IsLast
  <2>2. QED BY <1>6, <1>7, <1>8, <2>1, LastIs
<1>10. ASSUME NEW o, o # IdOf[c] PROVE StatusIn(facts', o) \in {StatusIn(facts, o), "none"}
  <2>1. CASE \A i \in 1 .. Len(facts') : IdOf[facts'[i].by] # o
    BY <1>6, <2>1, LastIs
  <2>2. CASE IsLast(facts', o, LastIn(facts', o))
    <3> DEFINE l == LastIn(facts', o)
    <3>1. /\ l \in 1 .. m /\ IdOf[facts'[l].by] = o
          /\ \A i \in 1 .. m : IdOf[facts'[i].by] = o => i <= l
      BY <1>7, <2>2 DEF IsLast
    <3>2. StatusIn(facts', o) = facts'[l].status
      BY <1>6, <2>2, LastIs
    <3> HIDE DEF l
    <3>3. l # m
      BY <1>7, <1>8, <1>10, <3>1
    <3>4. l + k \in 1 .. n /\ facts'[l] = facts[l + k]
      BY <1>7, <3>1, <3>3
    <3>5. ASSUME NEW j \in 1 .. n, IdOf[facts[j].by] = o PROVE j <= l + k
      <4>1. CASE j - k \in 1 .. (n - k)
        <5>1. (j - k) + k = j /\ j - k \in 1 .. m
          BY <1>1, <1>6, <4>1 DEF m, n
        <5>2. facts'[j - k] = facts[j]
          BY <1>6, <4>1, <5>1
        <5>3. j - k <= l
          BY <3>1, <3>5, <5>1, <5>2
        <5>4. QED BY <1>1, <3>1, <5>3 DEF n
      <4>2. CASE j - k \notin 1 .. (n - k)
        BY <1>1, <1>6, <3>1, <3>5, <4>2 DEF m, n
      <4>3. QED BY <4>1, <4>2
    <3>6. IsLast(facts, o, l + k)
      BY <3>1, <3>4, <3>5 DEF IsLast, n
    <3>7. StatusIn(facts, o) = facts[l + k].status
      BY <1>1, <3>6, LastIs
    <3>8. QED BY <3>2, <3>4, <3>7
  <2>3. QED BY <1>6, <2>1, <2>2, LastExists
<1>11. \A i \in 1 .. Len(facts') :
         facts'[i] = f \/ \E j \in 1 .. Len(facts) : facts'[i] = facts[j]
  BY <1>7 DEF n
<1>12. QED BY <1>6, <1>9, <1>10, <1>11, StatusNow DEF Typed, f

\* As long as the file has room no other id is touched.
LEMMA AppendWithRoom ==
  ASSUME Typed(facts), NEW c \in Callers, NEW st \in FactStatus, AppendFact(c, st),
         Len(facts) < MaxFacts, NEW o, o # IdOf[c]
  PROVE  StatusOf(o)' = StatusOf(o)
<1> DEFINE f == [by |-> c, status |-> st]
           n == Len(facts)
<1>1. facts \in Seq(Facts) /\ n \in Nat /\ MaxFacts \in Nat /\ n < MaxFacts
  BY ApprovalsAssumption, Positions DEF Typed
<1>2. f \in Facts
  BY DEF Facts
<1>3. /\ Append(facts, f) \in Seq(Facts) /\ Len(Append(facts, f)) = n + 1
      /\ \A i \in 1 .. n : Append(facts, f)[i] = facts[i]
  BY <1>1, <1>2, AppendProperties
<1>4. facts' = IF Len(Append(facts, f)) > MaxFacts THEN Tail(Append(facts, f)) ELSE Append(facts, f)
  BY DEF AppendFact
<1> HIDE DEF f
<1>5. /\ facts' \in Seq(Facts) /\ Len(facts') = n + 1
      /\ \A i \in 1 .. n : facts'[i] = facts[i]
  BY <1>1, <1>3, <1>4
<1>6. SUFFICES ASSUME StatusIn(facts', o) = "none", StatusIn(facts, o) # "none" PROVE FALSE
  <2>1. StatusOf(o)' \in {StatusOf(o), "none"}
    BY AppendFacts
  <2>2. QED BY <2>1, StatusNow
<1>7. IsLast(facts, o, LastIn(facts, o))
  BY <1>1, <1>6, StatusFacts
<1>8. PICK l \in 1 .. n : IdOf[facts[l].by] = o
  BY <1>7 DEF IsLast
<1>9. l \in 1 .. Len(facts') /\ facts'[l] = facts[l]
  BY <1>1, <1>5
<1>10. \A i \in 1 .. Len(facts') : IdOf[facts'[i].by] # o
  BY <1>5, <1>6, StatusFacts DEF FactStatus
<1>11. QED BY <1>8, <1>9, <1>10

\* A start interrupts orphans.
LEMMA StartFacts ==
  ASSUME Typed(facts), NEW p \in Procs, Start(p)
  PROVE  /\ Typed(facts') /\ Len(facts') = Len(facts)
         /\ \A i \in 1 .. Len(facts) :
              /\ facts'[i].by = facts[i].by
              /\ Orphan(facts[i]) => facts'[i].status = "interrupted"
              /\ ~Orphan(facts[i]) => facts'[i].status = facts[i].status
         /\ \A o : StatusOf(o)' = StatusOf(o)
                   \/ (StatusOf(o) = "pending" /\ StatusOf(o)' = "interrupted")
<1>0. facts \in Seq(Facts) /\ Len(facts) \in Nat /\ DOMAIN facts = 1 .. Len(facts)
      /\ \A i \in 1 .. Len(facts) : facts[i] \in Facts
  BY Positions DEF Typed
<1> DEFINE g(i) == IF Orphan(facts[i]) THEN [facts[i] EXCEPT !.status = "interrupted"]
                   ELSE facts[i]
<1>1. facts' = [i \in 1 .. Len(facts) |-> g(i)]
  BY <1>0 DEF Start
<1>2. \A i \in 1 .. Len(facts) :
        /\ g(i) \in Facts /\ g(i).by = facts[i].by
        /\ Orphan(facts[i]) => g(i).status = "interrupted"
        /\ ~Orphan(facts[i]) => g(i).status = facts[i].status
  BY <1>0 DEF Facts, FactStatus
<1> HIDE DEF g
<1>3. facts' \in Seq(Facts) /\ Len(facts') = Len(facts)
      /\ \A i \in 1 .. Len(facts) : facts'[i] = g(i)
  BY <1>0, <1>1, <1>2, IsASeq, LenProperties
<1>4. \A i \in 1 .. Len(facts) : facts'[i].by = facts[i].by
  BY <1>2, <1>3
<1>5. ASSUME NEW o
      PROVE  StatusIn(facts', o) = StatusIn(facts, o)
             \/ (StatusIn(facts, o) = "pending" /\ StatusIn(facts', o) = "interrupted")
  <2>1. /\ StatusIn(facts, o) = "none" => StatusIn(facts', o) = "none"
        /\ StatusIn(facts, o) # "none" => StatusIn(facts', o) = facts'[LastIn(facts, o)].status
    BY <1>0, <1>3, <1>4, SamePlaces
  <2>2. CASE StatusIn(facts, o) = "none"
    BY <2>1, <2>2
  <2>3. CASE /\ IsLast(facts, o, LastIn(facts, o)) /\ StatusIn(facts, o) \in FactStatus
             /\ StatusIn(facts, o) = facts[LastIn(facts, o)].status
    <3> DEFINE l == LastIn(facts, o)
    <3>1. l \in 1 .. Len(facts) /\ StatusIn(facts, o) # "none"
      BY <2>3 DEF IsLast, FactStatus
    <3>2. StatusIn(facts', o) = facts'[l].status
      BY <2>1, <3>1
    <3>3. CASE Orphan(facts[l])
      <4>1. facts[l].status = "pending"
        BY <3>3 DEF Orphan
      <4>2. QED BY <1>2, <1>3, <2>3, <3>1, <3>2, <3>3, <4>1
    <3>4. CASE ~Orphan(facts[l])
      BY <1>2, <1>3, <2>3, <3>1, <3>2, <3>4
    <3>5. QED BY <3>3, <3>4
  <2>4. QED BY <1>0, <2>2, <2>3, StatusFacts
<1>6. QED BY <1>2, <1>3, <1>5, StatusNow DEF Typed

-----------------------------------------------------------------------------
(* Types, and the queue.                                                   *)

Pcs     == {"idle", "asking", "reviving", "watching", "queueing", "refusing", "waiting",
            "expiring", "withdrawing", "broken", "done", "dead"}
Chans   == {"empty", "yes", "no", "closed"}
Results == {"none", "yes", "no", "canceled", "error"}
Says    == {<<>>} \cup (Ids \X {"yes", "no"})
Ends    == [id : Ids, to : {"expired", "interrupted"}]

\* The types of what the callers do, of the queues, and of the rest.
CallerTypes(q, r) == q \in [Callers -> Pcs] /\ r \in [Callers -> Results]
Queues(pd, q) ==
  /\ pd \in [Procs -> SUBSET Callers]
  /\ \A p \in Procs : \A c \in pd[p] : q[c] = "waiting" /\ Home[c] = p
RestTypes(pr, dm, ch, lt, wt, sy, wd, ye) ==
  /\ pr \in [Procs -> {"new", "up", "dead"}] /\ dm \in [Procs -> SUBSET Ends]
  /\ ch \in [Callers -> Chans] /\ lt \subseteq Timed /\ wt \in [Callers -> BOOLEAN]
  /\ sy \in [Surfaces -> Says] /\ wd \in 0 .. MaxWords /\ ye \subseteq Ids

LEMMA Split ==
  /\ TInv <=> /\ Typed(facts) /\ CallerTypes(pc, result) /\ Queues(pending, pc)
              /\ RestTypes(proc, doomed, chan, late, wanted, say, words, yes)
  /\ TInv' <=> /\ Typed(facts') /\ CallerTypes(pc', result') /\ Queues(pending', pc')
               /\ RestTypes(proc', doomed', chan', late', wanted', say', words', yes')
<1>1. TInv <=> /\ Typed(facts) /\ CallerTypes(pc, result) /\ Queues(pending, pc)
               /\ RestTypes(proc, doomed, chan, late, wanted, say, words, yes)
  BY DEF TInv, TypeOK, AtHome, QueueHoldsWaiters, Typed, CallerTypes, Queues, RestTypes,
         Pcs, Chans, Results, Says, Ends
<1>2. TInv' <=> /\ Typed(facts') /\ CallerTypes(pc', result') /\ Queues(pending', pc')
                /\ RestTypes(proc', doomed', chan', late', wanted', say', words', yes')
  BY DEF TInv, TypeOK, AtHome, QueueHoldsWaiters, Typed, CallerTypes, Queues, RestTypes,
         Pcs, Chans, Results, Says, Ends
<1>3. QED BY <1>1, <1>2

LEMMA IdFacts ==
  /\ \A c \in Callers : IdOf[c] \in Ids /\ Home[c] \in Procs
  /\ \A s \in Surfaces : Place[s] \in Procs
  /\ \A c \in Timed : c \in Callers
  /\ \A p \in Single : p \in Procs
BY ApprovalsAssumption DEF Ids

\* A caller who does not wait moves on; nobody enters or leaves a queue.
LEMMA QueuesMove ==
  ASSUME Queues(pending, pc), pc \in [Callers -> Pcs], NEW c \in Callers, pc[c] # "waiting", NEW l,
         pc' = [pc EXCEPT ![c] = l], pending' = pending
  PROVE  Queues(pending', pc')
<1>1. ASSUME NEW p \in Procs, NEW d \in pending[p] PROVE pc'[d] = "waiting" /\ Home[d] = p
  <2>1. pc[d] = "waiting" /\ Home[d] = p /\ d # c /\ d \in Callers
    BY DEF Queues
  <2>2. QED BY <2>1
<1>2. QED BY <1>1 DEF Queues

\* A caller who waits leaves the queue of his process.
LEMMA QueuesLeave ==
  ASSUME Queues(pending, pc), pc \in [Callers -> Pcs], NEW c \in Callers, NEW l,
         pc' = [pc EXCEPT ![c] = l], Unqueue(c)
  PROVE  Queues(pending', pc')
<1>1. /\ pending \in [Procs -> SUBSET Callers]
      /\ pending' = [pending EXCEPT ![Home[c]] = pending[Home[c]] \ {c}]
  BY DEF Queues, Unqueue
<1>2. pending' \in [Procs -> SUBSET Callers]
  BY <1>1
<1>3. ASSUME NEW p \in Procs, NEW d \in pending'[p] PROVE pc'[d] = "waiting" /\ Home[d] = p
  <2>1. d \in pending[p] /\ (p = Home[c] => d # c)
    BY <1>1, <1>3
  <2>2. pc[d] = "waiting" /\ Home[d] = p /\ d \in Callers
    BY <1>1, <2>1 DEF Queues
  <2>3. d # c
    BY <2>1, <2>2
  <2>4. QED BY <2>2, <2>3
<1>4. QED BY <1>2, <1>3 DEF Queues

\* A queue only loses entries, and nobody moves.
LEMMA QueuesShrink ==
  ASSUME Queues(pending, pc), NEW p \in Procs, NEW out,
         pending' = [pending EXCEPT ![p] = @ \ out], pc' = pc
  PROVE  Queues(pending', pc')
<1>1. pending' \in [Procs -> SUBSET Callers]
  BY DEF Queues
<1>2. \A q \in Procs : \A c \in pending'[q] : c \in pending[q]
  BY DEF Queues
<1>3. QED BY <1>1, <1>2 DEF Queues

LEMMA MoveTypes ==
  ASSUME CallerTypes(pc, result), NEW c \in Callers, NEW l \in Pcs, Goto(c, l)
  PROVE  /\ \A r \in Results : result' = [result EXCEPT ![c] = r] => CallerTypes(pc', result')
         /\ result' = result => CallerTypes(pc', result')
         /\ pc' = [pc EXCEPT ![c] = l]
BY DEF CallerTypes, Goto

\* A caller who does not wait moves on, and the file stays well formed.
LEMMA TypeOfMove ==
  ASSUME TInv, NEW c \in Callers,
         Ask(c) \/ Revive(c) \/ Publish(c) \/ Refuse(c) \/ Settle(c) \/ Watch(c) \/ Again(c)
  PROVE  TInv'
<1>1. /\ Typed(facts) /\ CallerTypes(pc, result) /\ Queues(pending, pc)
      /\ RestTypes(proc, doomed, chan, late, wanted, say, words, yes)
  BY Split
<1>2. pc \in [Callers -> Pcs] /\ result \in [Callers -> Results] /\ IdOf[c] \in Ids
  BY <1>1, IdFacts DEF CallerTypes
<1>3. \A st : st \in FactStatus /\ (Resolve(IdOf[c], st) \/ AppendFact(c, st)) => Typed(facts')
  BY <1>1, ResolveFacts, AppendFacts
<1>4. \A l, r : l \in Pcs /\ r \in Results /\ Goto(c, l) /\ pc[c] # "waiting"
                /\ UNCHANGED pending /\ (UNCHANGED result \/ result' = [result EXCEPT ![c] = r])
                => CallerTypes(pc', result') /\ Queues(pending', pc')
  BY <1>1, <1>2, MoveTypes, QueuesMove
<1>5. \A l : l \in Pcs /\ Goto(c, l) /\ pc[c] # "waiting" /\ UNCHANGED <<pending, result>>
             => CallerTypes(pc', result') /\ Queues(pending', pc')
  BY <1>4 DEF Results
<1>6. \A r : r \in Results /\ Return(c, r) /\ pc[c] # "waiting" /\ UNCHANGED pending
             => CallerTypes(pc', result') /\ Queues(pending', pc')
  BY <1>4 DEF Return, Pcs
<1>7. CASE Ask(c)
  <2>1. /\ facts' = facts /\ pc[c] # "waiting" /\ UNCHANGED pending
        /\ \/ Return(c, "yes") \/ Return(c, "no")
           \/ UNCHANGED result /\ (Goto(c, "reviving") \/ Goto(c, "watching") \/ Goto(c, "asking"))
    BY <1>7 DEF Ask
  <2>2. CallerTypes(pc', result') /\ Queues(pending', pc')
    BY <1>5, <1>6, <2>1 DEF Pcs, Results
  <2>3. RestTypes(proc', doomed', chan', late', wanted', say', words', yes')
    BY <1>1, <1>7 DEF Ask
  <2>4. QED BY <1>1, <2>1, <2>2, <2>3, Split
<1>8. CASE Revive(c)
  <2>1. CallerTypes(pc', result') /\ Queues(pending', pc')
    BY <1>5, <1>8 DEF Revive, Pcs
  <2>2. Typed(facts') /\ RestTypes(proc', doomed', chan', late', wanted', say', words', yes')
    BY <1>1, <1>3, <1>8 DEF Revive, FactStatus
  <2>3. QED BY <2>1, <2>2, Split
<1>9. CASE Publish(c)
  <2>1. CallerTypes(pc', result') /\ Queues(pending', pc')
    BY <1>5, <1>6, <1>9 DEF Publish, Pcs, Results
  <2>2. Typed(facts')
    BY <1>1, <1>3, <1>9 DEF Publish, FactStatus
  <2>3. yes' = yes \/ yes' = yes \cup {IdOf[c]}
    BY <1>9 DEF Publish
  <2>4. RestTypes(proc', doomed', chan', late', wanted', say', words', yes')
    BY <1>1, <1>2, <1>9, <2>3 DEF Publish, RestTypes
  <2>5. QED BY <2>1, <2>2, <2>4, Split
<1>10. CASE Refuse(c)
  <2>1. CallerTypes(pc', result') /\ Queues(pending', pc')
    BY <1>6, <1>10 DEF Refuse, Results
  <2>2. Typed(facts') /\ RestTypes(proc', doomed', chan', late', wanted', say', words', yes')
    BY <1>1, <1>3, <1>10 DEF Refuse, FactStatus
  <2>3. QED BY <2>1, <2>2, Split
<1>11. CASE Settle(c)
  <2>1. CallerTypes(pc', result') /\ Queues(pending', pc')
    BY <1>6, <1>11 DEF Settle, Results
  <2>2. Typed(facts') /\ RestTypes(proc', doomed', chan', late', wanted', say', words', yes')
    BY <1>1, <1>3, <1>11 DEF Settle, FactStatus
  <2>3. QED BY <2>1, <2>2, Split
<1>12. CASE Watch(c)
  <2>1. CallerTypes(pc', result') /\ Queues(pending', pc')
    BY <1>6, <1>12 DEF Watch, Results
  <2>2. Typed(facts') /\ RestTypes(proc', doomed', chan', late', wanted', say', words', yes')
    BY <1>1, <1>12 DEF Watch, Typed
  <2>3. QED BY <2>1, <2>2, Split
<1>13. CASE Again(c)
  <2>1. CallerTypes(pc', result') /\ Queues(pending', pc')
    BY <1>4, <1>13 DEF Again, Pcs, Results
  <2>2. chan' \in [Callers -> Chans]
    BY <1>1, <1>13 DEF Again, RestTypes, Chans
  <2>3. Typed(facts') /\ RestTypes(proc', doomed', chan', late', wanted', say', words', yes')
    BY <1>1, <1>13, <2>2 DEF Again, RestTypes
  <2>4. QED BY <2>1, <2>3, Split
<1>14. QED BY <1>7, <1>8, <1>9, <1>10, <1>11, <1>12, <1>13

\* A caller enters the queue, or leaves it.
LEMMA TypeOfQueue ==
  ASSUME TInv, NEW c \in Callers, Enqueue(c) \/ GiveUp(c) \/ Receive(c) \/ Poll(c)
  PROVE  TInv'
<1>1. /\ Typed(facts) /\ CallerTypes(pc, result) /\ Queues(pending, pc)
      /\ RestTypes(proc, doomed, chan, late, wanted, say, words, yes)
  BY Split
<1>2. /\ pc \in [Callers -> Pcs] /\ result \in [Callers -> Results] /\ Home[c] \in Procs
      /\ pending \in [Procs -> SUBSET Callers] /\ chan \in [Callers -> Chans]
  BY <1>1, IdFacts DEF CallerTypes, Queues, RestTypes
<1>3. CASE Enqueue(c)
  <2> DEFINE p == Home[c]
             live == pending[p] \ late
  <2>1. /\ pc[c] = "queueing" /\ facts' = facts /\ result' = result
        /\ chan' = [Closed(p) EXCEPT ![c] = "empty"]
        /\ \/ pending' = [pending EXCEPT ![p] = live] /\ Goto(c, "refusing")
           \/ pending' = [pending EXCEPT ![p] = live \cup {c}] /\ Goto(c, "waiting")
        /\ UNCHANGED <<proc, doomed, late, wanted, say, words, yes>>
    BY <1>3 DEF Enqueue
  <2>2. Closed(p) \in [Callers -> Chans]
    BY <1>2 DEF Closed, Chans
  <2>3. chan' \in [Callers -> Chans]
    <3>1. "empty" \in Chans
      BY DEF Chans
    <3>2. QED BY <2>1, <2>2, <3>1
  <2>4. pending' \in [Procs -> SUBSET Callers]
    BY <1>2, <2>1
  <2>5. CallerTypes(pc', result')
    BY <1>1, <2>1, MoveTypes DEF Pcs
  <2>6. ASSUME NEW q \in Procs, NEW d \in pending'[q]
        PROVE  pc'[d] = "waiting" /\ Home[d] = q
    <3>1. CASE d \in pending[q]
      <4>1. pc[d] = "waiting" /\ Home[d] = q /\ d \in Callers /\ d # c
        BY <1>1, <2>1, <3>1 DEF Queues
      <4>2. QED BY <1>2, <2>1, <4>1 DEF Goto
    <3>2. CASE d \notin pending[q]
      <4>1. q = p /\ d = c /\ Goto(c, "waiting")
        BY <1>2, <2>1, <2>6, <3>2
      <4>2. QED BY <1>2, <4>1 DEF Goto
    <3>3. QED BY <3>1, <3>2
  <2>7. Queues(pending', pc')
    BY <2>4, <2>6 DEF Queues
  <2>8. RestTypes(proc', doomed', chan', late', wanted', say', words', yes')
    BY <1>1, <2>1, <2>3 DEF RestTypes
  <2>9. QED BY <1>1, <2>1, <2>5, <2>7, <2>8, Split
<1>4. CASE GiveUp(c) \/ Receive(c) \/ Poll(c)
  <2>1. /\ facts' = facts /\ Unqueue(c)
        /\ UNCHANGED <<proc, doomed, chan, late, wanted, say, words, yes>>
    BY <1>4 DEF GiveUp, Receive, Poll
  <2>2. \/ UNCHANGED result /\ (Goto(c, "withdrawing") \/ Goto(c, "expiring") \/ Goto(c, "broken"))
        \/ \E r \in Results : Return(c, r)
    <3>1. CASE GiveUp(c)
      BY <3>1 DEF GiveUp
    <3>2. CASE Receive(c)
      <4>1. chan[c] \in {"yes", "no", "closed"}
        BY <1>2, <3>2 DEF Receive, Chans
      <4>2. QED BY <3>2, <4>1 DEF Receive, Results
    <3>3. CASE Poll(c)
      BY <3>3 DEF Poll, Results
    <3>4. QED BY <1>4, <3>1, <3>2, <3>3
  <2>3. PICK l \in Pcs : /\ Goto(c, l)
                         /\ UNCHANGED result \/ \E r \in Results : result' = [result EXCEPT ![c] = r]
    BY <2>2 DEF Pcs, Return
  <2>4. CallerTypes(pc', result') /\ pc' = [pc EXCEPT ![c] = l]
    BY <1>1, <2>3, MoveTypes
  <2>5. Queues(pending', pc')
    BY <1>1, <1>2, <2>1, <2>4, QueuesLeave
  <2>6. RestTypes(proc', doomed', chan', late', wanted', say', words', yes')
    BY <1>1, <2>1
  <2>7. QED BY <1>1, <2>1, <2>4, <2>5, <2>6, Split
<1>5. QED BY <1>3, <1>4

\* A surface acts.
LEMMA TypeOfSurface ==
  ASSUME TInv, NEW s \in Surfaces,
         \/ Send(s)
         \/ \E id \in Ids : Interrupt(s, id) \/ \E w \in {"yes", "no"} : Respond(s, id, w)
  PROVE  TInv'
<1>1. /\ Typed(facts) /\ CallerTypes(pc, result) /\ Queues(pending, pc)
      /\ RestTypes(proc, doomed, chan, late, wanted, say, words, yes)
  BY Split
<1>2. /\ chan \in [Callers -> Chans] /\ say \in [Surfaces -> Says] /\ Place[s] \in Procs
      /\ words \in 0 .. MaxWords /\ MaxWords \in Nat /\ yes \subseteq Ids
  BY <1>1, IdFacts, ApprovalsAssumption DEF RestTypes
<1>3. CASE Send(s)
  <2> DEFINE word == say[s][2]
             out == {c \in pending[Place[s]] : IdOf[c] = say[s][1]}
  <2>1. /\ pending' = [pending EXCEPT ![Place[s]] = pending[Place[s]] \ out]
        /\ chan' = [c \in Callers |-> IF c \in out THEN word ELSE chan[c]]
        /\ say' = [say EXCEPT ![s] = <<>>] /\ say[s] # <<>>
        /\ UNCHANGED <<facts, proc, doomed, pc, result, late, wanted, words, yes>>
    BY <1>3 DEF Send
  <2>2. word \in {"yes", "no"}
    <3>1. say[s] \in Ids \X {"yes", "no"}
      BY <1>2, <2>1 DEF Says
    <3>2. QED BY <3>1
  <2> HIDE DEF word, out
  <2>3. Queues(pending', pc')
    BY <1>1, <1>2, <2>1, QueuesShrink
  <2>4. chan' \in [Callers -> Chans]
    BY <1>2, <2>1, <2>2 DEF Chans
  <2>5. say' \in [Surfaces -> Says]
    <3>1. <<>> \in Says
      BY DEF Says
    <3>2. QED BY <1>2, <2>1, <3>1
  <2>6. RestTypes(proc', doomed', chan', late', wanted', say', words', yes')
    BY <1>1, <2>1, <2>4, <2>5 DEF RestTypes
  <2>7. QED BY <1>1, <2>1, <2>3, <2>6, Split
<1>4. ASSUME NEW id \in Ids, Interrupt(s, id) \/ \E w \in {"yes", "no"} : Respond(s, id, w)
      PROVE  TInv'
  <2>1. /\ \E st \in FactStatus : Resolve(id, st)
        /\ \E w \in {"yes", "no"} : say' = [say EXCEPT ![s] = <<id, w>>]
        /\ words < MaxWords /\ words' = words + 1
        /\ yes' = yes \/ yes' = yes \cup {id}
        /\ UNCHANGED <<proc, pending, doomed, callerVars, wanted>>
    BY <1>4 DEF Interrupt, Respond, FactStatus
  <2>2. Typed(facts')
    BY <1>1, <2>1, ResolveFacts
  <2>3. say' \in [Surfaces -> Says]
    <3>1. PICK w \in {"yes", "no"} : say' = [say EXCEPT ![s] = <<id, w>>]
      BY <2>1
    <3>2. <<id, w>> \in Says
      BY DEF Says
    <3>3. QED BY <1>2, <3>1, <3>2
  <2>4. words' \in 0 .. MaxWords /\ yes' \subseteq Ids
    BY <1>2, <2>1
  <2>5. CallerTypes(pc', result') /\ Queues(pending', pc')
    BY <1>1, <2>1 DEF callerVars
  <2>6. RestTypes(proc', doomed', chan', late', wanted', say', words', yes')
    BY <1>1, <2>1, <2>3, <2>4 DEF RestTypes, callerVars
  <2>7. QED BY <2>2, <2>5, <2>6, Split
<1>5. QED BY <1>3, <1>4

\* The popup watcher acts, a process starts or dies, or time passes.
LEMMA TypeOfProcess ==
  ASSUME TInv, NEW p \in Procs, Prune(p) \/ Look(p) \/ Dispose(p) \/ Start(p) \/ Crash(p)
  PROVE  TInv'
<1>1. /\ Typed(facts) /\ CallerTypes(pc, result) /\ Queues(pending, pc)
      /\ RestTypes(proc, doomed, chan, late, wanted, say, words, yes)
  BY Split
<1>2. /\ chan \in [Callers -> Chans] /\ say \in [Surfaces -> Says] /\ doomed \in [Procs -> SUBSET Ends]
      /\ proc \in [Procs -> {"new", "up", "dead"}] /\ pending \in [Procs -> SUBSET Callers]
      /\ pc \in [Callers -> Pcs]
  BY <1>1 DEF RestTypes, Queues, CallerTypes
<1>3. CASE Prune(p)
  <2>1. Stale(p) \subseteq Callers
    BY <1>2 DEF Stale
  <2>2. {[id |-> IdOf[c], to |-> "expired"] : c \in Stale(p)} \subseteq Ends
    BY <2>1, IdFacts DEF Ends
  <2>3. doomed' \in [Procs -> SUBSET Ends]
    BY <1>2, <1>3, <2>2 DEF Prune
  <2>4. Closed(p) \in [Callers -> Chans]
    BY <1>2 DEF Closed, Chans
  <2>5. Queues(pending', pc')
    BY <1>1, <1>3, QueuesShrink DEF Prune
  <2>6. RestTypes(proc', doomed', chan', late', wanted', say', words', yes')
    BY <1>1, <1>3, <2>3, <2>4 DEF Prune, RestTypes
  <2>7. QED BY <1>1, <1>3, <2>5, <2>6, Split DEF Prune
<1>4. CASE Look(p)
  <2>1. \A f \in ToSet(facts) : f \in Facts
    BY <1>1, Positions DEF Typed, ToSet
  <2>2. Over(p) \subseteq Ends
    <3>1. ASSUME NEW d \in Over(p) PROVE d \in Ends
      <4>1. \E f \in ToSet(facts) : \/ d = [id |-> IdOf[f.by], to |-> "interrupted"]
                                    \/ d = [id |-> IdOf[f.by], to |-> "expired"]
        BY <3>1 DEF Over
      <4>2. PICK f \in ToSet(facts) : \/ d = [id |-> IdOf[f.by], to |-> "interrupted"]
                                      \/ d = [id |-> IdOf[f.by], to |-> "expired"]
        BY <4>1
      <4>3. IdOf[f.by] \in Ids
        BY <2>1, IdFacts DEF Facts
      <4>4. QED BY <4>2, <4>3 DEF Ends
    <3>2. QED BY <3>1
  <2>3. doomed' \in [Procs -> SUBSET Ends]
    BY <1>2, <1>4, <2>2 DEF Look
  <2>4. RestTypes(proc', doomed', chan', late', wanted', say', words', yes')
    BY <1>1, <1>4, <2>3 DEF Look, RestTypes, callerVars
  <2>5. CallerTypes(pc', result') /\ Queues(pending', pc')
    BY <1>1, <1>4 DEF Look, callerVars
  <2>6. QED BY <1>1, <1>4, <2>4, <2>5, Split DEF Look
<1>5. CASE Dispose(p)
  <2>1. PICK d \in doomed[p] : Resolve(d.id, d.to) /\ doomed' = [doomed EXCEPT ![p] = @ \ {d}]
    BY <1>5 DEF Dispose
  <2>2. d.to \in FactStatus
    BY <1>2, <2>1 DEF Ends, FactStatus
  <2>3. Typed(facts')
    BY <1>1, <2>1, <2>2, ResolveFacts
  <2>4. doomed' \in [Procs -> SUBSET Ends]
    BY <1>2, <2>1
  <2>5. RestTypes(proc', doomed', chan', late', wanted', say', words', yes')
    BY <1>1, <1>5, <2>4 DEF Dispose, RestTypes, callerVars
  <2>6. CallerTypes(pc', result') /\ Queues(pending', pc')
    BY <1>1, <1>5 DEF Dispose, callerVars
  <2>7. QED BY <2>3, <2>5, <2>6, Split
<1>6. CASE Start(p)
  <2>1. Typed(facts')
    BY <1>1, <1>6, StartFacts
  <2>2. proc' \in [Procs -> {"new", "up", "dead"}]
    BY <1>2, <1>6 DEF Start
  <2>3. RestTypes(proc', doomed', chan', late', wanted', say', words', yes')
    BY <1>1, <1>6, <2>2 DEF Start, RestTypes, callerVars
  <2>4. CallerTypes(pc', result') /\ Queues(pending', pc')
    BY <1>1, <1>6 DEF Start, callerVars
  <2>5. QED BY <2>1, <2>3, <2>4, Split
<1>7. CASE Crash(p)
  <2>1. /\ proc' \in [Procs -> {"new", "up", "dead"}] /\ pending' \in [Procs -> SUBSET Callers]
        /\ doomed' \in [Procs -> SUBSET Ends]
    BY <1>2, <1>7 DEF Crash
  <2>2. chan' \in [Callers -> Chans] /\ pc' \in [Callers -> Pcs]
    BY <1>2, <1>7 DEF Crash, Chans, Pcs
  <2>3. say' \in [Surfaces -> Says]
    BY <1>2, <1>7 DEF Crash, Says
  <2>4. ASSUME NEW q \in Procs, NEW d \in pending'[q] PROVE pc'[d] = "waiting" /\ Home[d] = q
    <3>1. q # p /\ d \in pending[q]
      BY <1>2, <1>7, <2>4 DEF Crash
    <3>2. pc[d] = "waiting" /\ Home[d] = q /\ d \in Callers
      BY <1>1, <3>1 DEF Queues
    <3>3. QED BY <1>7, <3>1, <3>2 DEF Crash
  <2>5. Queues(pending', pc')
    BY <2>1, <2>4 DEF Queues
  <2>6. CallerTypes(pc', result')
    BY <1>1, <1>7, <2>2 DEF Crash, CallerTypes
  <2>7. RestTypes(proc', doomed', chan', late', wanted', say', words', yes')
    BY <1>1, <1>7, <2>1, <2>2, <2>3 DEF Crash, RestTypes
  <2>8. QED BY <1>1, <1>7, <2>5, <2>6, <2>7, Split DEF Crash, Typed
<1>8. QED BY <1>3, <1>4, <1>5, <1>6, <1>7

LEMMA TypeStep == TInv /\ [Next]_vars => TInv'
<1> SUFFICES ASSUME TInv, [Next]_vars PROVE TInv'
  OBVIOUS
<1>1. /\ Typed(facts) /\ CallerTypes(pc, result) /\ Queues(pending, pc)
      /\ RestTypes(proc, doomed, chan, late, wanted, say, words, yes)
  BY Split
<1>2. ASSUME NEW c \in Callers, Ask(c) \/ CallerStep(c) \/ Again(c) PROVE TInv'
  BY <1>2, TypeOfMove, TypeOfQueue DEF CallerStep
<1>3. ASSUME NEW c \in Callers, Deadline(c) PROVE TInv'
  <2>1. late' \subseteq Timed
    BY <1>1, <1>3 DEF Deadline, RestTypes
  <2>2. RestTypes(proc', doomed', chan', late', wanted', say', words', yes')
    BY <1>1, <1>3, <2>1 DEF Deadline, RestTypes
  <2>3. Typed(facts') /\ CallerTypes(pc', result') /\ Queues(pending', pc')
    BY <1>1, <1>3 DEF Deadline
  <2>4. QED BY <2>2, <2>3, Split
<1>4. CASE Reconsider
  <2>1. RestTypes(proc', doomed', chan', late', wanted', say', words', yes')
    BY <1>1, <1>4 DEF Reconsider, RestTypes, callerVars
  <2>2. Typed(facts') /\ CallerTypes(pc', result') /\ Queues(pending', pc')
    BY <1>1, <1>4 DEF Reconsider, callerVars
  <2>3. QED BY <2>1, <2>2, Split
<1>5. CASE UNCHANGED vars
  BY <1>1, <1>5, Split DEF vars, callerVars
<1>6. QED BY <1>2, <1>3, <1>4, <1>5, TypeOfSurface, TypeOfProcess DEF Next

LEMMA InitTypes == Init => TInv
<1>1. SUFFICES ASSUME Init PROVE TInv
  OBVIOUS
<1>2. Typed(facts)
  BY <1>1, ApprovalsAssumption, EmptySeq DEF Init, Typed
<1>3. CallerTypes(pc, result) /\ Queues(pending, pc)
  BY <1>1 DEF Init, CallerTypes, Queues, Pcs, Results
<1>4. RestTypes(proc, doomed, chan, late, wanted, say, words, yes)
  BY <1>1, ApprovalsAssumption DEF Init, RestTypes, Chans, Says
<1>5. QED BY <1>2, <1>3, <1>4, Split

\* The types hold at every time, the file keeps its limit, and the queues hold
\* waiting callers only (remove_pending on every path out of the waiting loop).
THEOREM TypeCorrect == Spec => []TypeOK
<1>1. TInv => TypeOK
  BY DEF TInv
<1>2. QED BY <1>1, InitTypes, TypeStep, PTL DEF Spec

-----------------------------------------------------------------------------
(* Every approval comes from a person or a rule.                           *)

LEMMA StatusIsGenuine ==
  ASSUME TInv, Genuine, NEW id, StatusOf(id) = "approved"
  PROVE  id \in yes
<1>1. facts \in Seq(Facts) /\ StatusIn(facts, id) = "approved" /\ DOMAIN facts = 1 .. Len(facts)
  BY Split, StatusNow, Positions DEF Typed
<1>2. PICK l : IsLast(facts, id, l) /\ facts[l].status = "approved"
  BY <1>1, StatusFacts
<1>3. l \in DOMAIN facts /\ IdOf[facts[l].by] = id
  BY <1>1, <1>2 DEF IsLast
<1>4. QED BY <1>2, <1>3 DEF Genuine

\* The three parts of the invariant, as they are carried to the next state.
GenuineChan(ch, ye)  == \A c \in Callers : ch[c] = "yes" => IdOf[c] \in ye
GenuineFacts(fs, ye) == \A i \in DOMAIN fs : fs[i].status = "approved" => IdOf[fs[i].by] \in ye
GenuineSay(sy, ye)   == \A s \in Surfaces : sy[s] # <<>> /\ sy[s][2] = "yes" => sy[s][1] \in ye
GenuineResult(r, ye) == \A c \in Callers : r[c] = "yes" => IdOf[c] \in ye

LEMMA GenuineParts ==
  /\ Genuine /\ ApprovalIsReal
       <=> GenuineChan(chan, yes) /\ GenuineFacts(facts, yes) /\ GenuineSay(say, yes)
           /\ GenuineResult(result, yes)
  /\ (Genuine /\ ApprovalIsReal)'
       <=> GenuineChan(chan', yes') /\ GenuineFacts(facts', yes') /\ GenuineSay(say', yes')
           /\ GenuineResult(result', yes')
BY DEF Genuine, ApprovalIsReal, GenuineChan, GenuineFacts, GenuineSay, GenuineResult

\* Approvals are never withdrawn from the history.
LEMMA GenuineGrows ==
  ASSUME NEW ye, ye \subseteq yes', GenuineChan(chan, ye), GenuineFacts(facts, ye),
         GenuineSay(say, ye), GenuineResult(result, ye)
  PROVE  GenuineChan(chan, yes') /\ GenuineFacts(facts, yes') /\ GenuineSay(say, yes')
         /\ GenuineResult(result, yes')
BY DEF GenuineChan, GenuineFacts, GenuineSay, GenuineResult

\* A fact resolved otherwise than by an approval stays genuine; one that is
\* approved needs its id in the history.
LEMMA GenuineResolve ==
  ASSUME TInv, NEW id, NEW st \in FactStatus, Resolve(id, st),
         GenuineFacts(facts, yes'), st = "approved" => id \in yes'
  PROVE  GenuineFacts(facts', yes')
<1>1. Typed(facts)
  BY Split
<1>2. /\ Typed(facts') /\ Len(facts') = Len(facts)
      /\ \A i \in 1 .. Len(facts) :
           /\ facts'[i].by = facts[i].by
           /\ facts'[i].status = facts[i].status
              \/ (facts[i].status = "pending" /\ facts'[i].status = st /\ IdOf[facts[i].by] = id)
  BY <1>1, ResolveFacts
<1>3. DOMAIN facts = 1 .. Len(facts) /\ DOMAIN facts' = 1 .. Len(facts)
  BY <1>1, <1>2, Positions DEF Typed
<1>4. QED BY <1>2, <1>3 DEF GenuineFacts

LEMMA GenuineAppend ==
  ASSUME TInv, NEW c \in Callers, NEW st \in FactStatus, AppendFact(c, st),
         GenuineFacts(facts, yes'), st = "approved" => IdOf[c] \in yes'
  PROVE  GenuineFacts(facts', yes')
<1>1. Typed(facts)
  BY Split
<1>2. /\ Typed(facts')
      /\ \A i \in 1 .. Len(facts') :
           \/ facts'[i] = [by |-> c, status |-> st]
           \/ \E j \in 1 .. Len(facts) : facts'[i] = facts[j]
  BY <1>1, AppendFacts
<1>3. DOMAIN facts = 1 .. Len(facts) /\ DOMAIN facts' = 1 .. Len(facts')
  BY <1>1, <1>2, Positions DEF Typed
<1>4. QED BY <1>2, <1>3 DEF GenuineFacts

LEMMA GenuineStep == RInv /\ [Next]_vars => (Genuine /\ ApprovalIsReal)'
<1> SUFFICES ASSUME RInv, [Next]_vars PROVE (Genuine /\ ApprovalIsReal)'
  OBVIOUS
<1>1. /\ TInv /\ Genuine /\ ApprovalIsReal
      /\ GenuineChan(chan, yes) /\ GenuineFacts(facts, yes) /\ GenuineSay(say, yes)
      /\ GenuineResult(result, yes)
  BY GenuineParts DEF RInv
<1>2. yes \subseteq yes' => GenuineChan(chan, yes') /\ GenuineFacts(facts, yes')
                            /\ GenuineSay(say, yes') /\ GenuineResult(result, yes')
  BY <1>1, GenuineGrows
<1>3. /\ chan \in [Callers -> Chans] /\ result \in [Callers -> Results]
      /\ say \in [Surfaces -> Says] /\ doomed \in [Procs -> SUBSET Ends]
      /\ pending \in [Procs -> SUBSET Callers] /\ Typed(facts)
  BY <1>1, Split DEF RestTypes, CallerTypes, Queues
\* A result that is not an approval is harmless, and so is one that is real.
<1>4. \A c, r : c \in Callers /\ Return(c, r) /\ yes \subseteq yes' /\ (r = "yes" => IdOf[c] \in yes')
                => GenuineResult(result', yes')
  <2>1. ASSUME NEW c, NEW r, c \in Callers, result' = [result EXCEPT ![c] = r], yes \subseteq yes',
               r = "yes" => IdOf[c] \in yes'
        PROVE  GenuineResult(result', yes')
    BY <1>2, <1>3, <2>1 DEF GenuineResult
  <2>2. QED BY <2>1 DEF Return
<1>5. ASSUME NEW c \in Callers, Ask(c) PROVE (Genuine /\ ApprovalIsReal)'
  <2>1. UNCHANGED <<facts, chan, say, yes>>
    BY <1>5 DEF Ask
  <2>2. GenuineResult(result', yes')
    <3>1. CASE UNCHANGED result
      BY <1>1, <2>1, <3>1
    <3>2. CASE Return(c, "no")
      BY <1>4, <2>1, <3>2
    <3>3. CASE StatusOf(IdOf[c]) = "approved" /\ Return(c, "yes")
      <4>1. IdOf[c] \in yes'
        BY <1>1, <2>1, <3>3, StatusIsGenuine
      <4>2. QED BY <1>4, <2>1, <3>3, <4>1
    <3>4. QED BY <1>5, <3>1, <3>2, <3>3 DEF Ask
  <2>3. QED BY <1>1, <2>1, <2>2, GenuineParts
<1>6. ASSUME NEW c \in Callers, Revive(c) PROVE (Genuine /\ ApprovalIsReal)'
  <2>1. UNCHANGED <<chan, say, result, yes>> /\ Resolve(IdOf[c], "interrupted")
    BY <1>6 DEF Revive
  <2>2. GenuineFacts(facts', yes')
    BY <1>1, <2>1, GenuineResolve DEF FactStatus
  <2>3. QED BY <1>1, <2>1, <2>2, GenuineParts
<1>7. ASSUME NEW c \in Callers, Publish(c) PROVE (Genuine /\ ApprovalIsReal)'
  <2>1. UNCHANGED <<chan, say>> /\ yes \subseteq yes'
    BY <1>7 DEF Publish
  <2>2. GenuineFacts(facts', yes') /\ GenuineResult(result', yes')
    <3>1. CASE Return(c, "canceled") /\ UNCHANGED facts
      BY <1>2, <1>4, <2>1, <3>1
    <3>2. CASE AppendFact(c, "approved") /\ Return(c, "yes") /\ yes' = yes \cup {IdOf[c]}
      <4>1. IdOf[c] \in yes'
        BY <3>2
      <4>2. QED BY <1>1, <1>2, <1>4, <2>1, <3>2, <4>1, GenuineAppend DEF FactStatus
    <3>3. CASE AppendFact(c, "rejected") /\ Return(c, "no")
      BY <1>1, <1>2, <1>4, <2>1, <3>3, GenuineAppend DEF FactStatus
    <3>4. CASE AppendFact(c, "pending") /\ UNCHANGED result
      BY <1>1, <1>2, <2>1, <3>4, GenuineAppend DEF FactStatus
    <3>5. QED BY <1>7, <3>1, <3>2, <3>3, <3>4 DEF Publish
  <2>3. QED BY <1>2, <2>1, <2>2, GenuineParts
<1>8. ASSUME NEW c \in Callers, Enqueue(c) PROVE (Genuine /\ ApprovalIsReal)'
  <2>1. UNCHANGED <<facts, say, result, yes>> /\ chan' = [Closed(Home[c]) EXCEPT ![c] = "empty"]
    BY <1>8 DEF Enqueue
  <2>2. \A d \in Callers : chan'[d] = "yes" => chan[d] = "yes"
    BY <2>1 DEF Closed
  <2>3. GenuineChan(chan', yes')
    BY <1>1, <2>1, <2>2 DEF GenuineChan
  <2>4. QED BY <1>1, <2>1, <2>3, GenuineParts
<1>9. ASSUME NEW c \in Callers, Refuse(c) \/ Settle(c) PROVE (Genuine /\ ApprovalIsReal)'
  <2>1. /\ UNCHANGED <<chan, say, yes>>
        /\ \E st \in FactStatus \ {"approved"} : Resolve(IdOf[c], st)
        /\ \E r \in Results \ {"yes"} : Return(c, r)
    <3>1. CASE Refuse(c)
      BY <3>1 DEF Refuse, FactStatus, Results
    <3>2. CASE Settle(c)
      BY <3>2 DEF Settle, FactStatus, Results
    <3>3. QED BY <1>9, <3>1, <3>2
  <2>2. GenuineFacts(facts', yes')
    BY <1>1, <2>1, GenuineResolve
  <2>3. GenuineResult(result', yes')
    BY <1>4, <2>1
  <2>4. QED BY <1>1, <2>1, <2>2, <2>3, GenuineParts
<1>10. ASSUME NEW c \in Callers, GiveUp(c) \/ Receive(c) \/ Poll(c) \/ Watch(c)
       PROVE  (Genuine /\ ApprovalIsReal)'
  <2>1. UNCHANGED <<facts, chan, say, yes>>
    BY <1>10 DEF GiveUp, Receive, Poll, Watch
  <2>2. GenuineResult(result', yes')
    <3>1. CASE UNCHANGED result
      BY <1>1, <2>1, <3>1
    <3>2. CASE Return(c, "no") \/ Return(c, "canceled")
      BY <1>4, <2>1, <3>2
    <3>3. CASE StatusOf(IdOf[c]) = "approved" /\ Return(c, "yes")
      <4>1. IdOf[c] \in yes'
        BY <1>1, <2>1, <3>3, StatusIsGenuine
      <4>2. QED BY <1>4, <2>1, <3>3, <4>1
    <3>4. CASE Return(c, chan[c])
      <4>1. chan[c] = "yes" => IdOf[c] \in yes'
        BY <1>1, <2>1 DEF GenuineChan
      <4>2. QED BY <1>4, <2>1, <3>4, <4>1
    <3>5. CASE GiveUp(c)
      BY <3>1, <3>5 DEF GiveUp
    <3>6. CASE Receive(c)
      BY <3>1, <3>4, <3>6 DEF Receive
    <3>7. CASE Poll(c)
      BY <3>2, <3>3, <3>7 DEF Poll
    <3>8. CASE Watch(c)
      BY <3>2, <3>3, <3>8 DEF Watch
    <3>9. QED BY <1>10, <3>5, <3>6, <3>7, <3>8
  <2>3. QED BY <1>1, <2>1, <2>2, GenuineParts
<1>11. ASSUME NEW c \in Callers, Again(c) PROVE (Genuine /\ ApprovalIsReal)'
  <2>1. /\ UNCHANGED <<facts, say, yes>> /\ chan' = [chan EXCEPT ![c] = "empty"]
        /\ result' = [result EXCEPT ![c] = "none"]
    BY <1>11 DEF Again
  <2>2. GenuineChan(chan', yes')
    BY <1>1, <1>3, <2>1 DEF GenuineChan
  <2>3. GenuineResult(result', yes')
    BY <1>1, <1>3, <2>1 DEF GenuineResult
  <2>4. QED BY <1>1, <2>1, <2>2, <2>3, GenuineParts
<1>12. ASSUME NEW s \in Surfaces, NEW id \in Ids,
              Interrupt(s, id) \/ \E w \in {"yes", "no"} : Respond(s, id, w)
       PROVE  (Genuine /\ ApprovalIsReal)'
  <2>1. PICK w \in {"yes", "no"} :
          /\ UNCHANGED <<chan, result>> /\ say' = [say EXCEPT ![s] = <<id, w>>]
          /\ yes \subseteq yes' /\ (w = "yes" => id \in yes')
          /\ \E st \in FactStatus : Resolve(id, st) /\ (st = "approved" => w = "yes")
    <3>1. CASE Interrupt(s, id)
      BY <3>1 DEF Interrupt, FactStatus, callerVars
    <3>2. ASSUME NEW w \in {"yes", "no"}, Respond(s, id, w)
          PROVE  /\ UNCHANGED <<chan, result>> /\ say' = [say EXCEPT ![s] = <<id, w>>]
                 /\ yes \subseteq yes' /\ (w = "yes" => id \in yes')
                 /\ \E st \in FactStatus : Resolve(id, st) /\ (st = "approved" => w = "yes")
      BY <3>2 DEF Respond, FactStatus, callerVars
    <3>3. QED BY <1>12, <3>1, <3>2
  <2>2. GenuineFacts(facts', yes')
    BY <1>1, <1>2, <2>1, GenuineResolve
  <2>3. GenuineSay(say', yes')
    <3>1. \A t \in Surfaces : say'[t] = IF t = s THEN <<id, w>> ELSE say[t]
      BY <1>3, <2>1
    <3>2. <<id, w>>[1] = id /\ <<id, w>>[2] = w
      OBVIOUS
    <3>3. QED BY <1>2, <2>1, <3>1, <3>2 DEF GenuineSay
  <2>4. QED BY <1>2, <2>1, <2>2, <2>3, GenuineParts
<1>13. ASSUME NEW s \in Surfaces, Send(s) PROVE (Genuine /\ ApprovalIsReal)'
  <2> DEFINE out == {c \in pending[Place[s]] : IdOf[c] = say[s][1]}
  <2>1. /\ UNCHANGED <<facts, result, yes>> /\ say[s] # <<>> /\ say' = [say EXCEPT ![s] = <<>>]
        /\ chan' = [c \in Callers |-> IF c \in out THEN say[s][2] ELSE chan[c]]
    BY <1>13 DEF Send
  <2>2. GenuineChan(chan', yes')
    <3>1. ASSUME NEW c \in Callers, chan'[c] = "yes" PROVE IdOf[c] \in yes
      <4>1. CASE c \in out
        <5>1. say[s][2] = "yes" /\ IdOf[c] = say[s][1]
          BY <2>1, <3>1, <4>1
        <5>2. QED BY <1>1, <2>1, <5>1 DEF GenuineSay
      <4>2. CASE c \notin out
        BY <1>1, <2>1, <3>1, <4>2 DEF GenuineChan
      <4>3. QED BY <4>1, <4>2
    <3>2. QED BY <2>1, <3>1 DEF GenuineChan
  <2>3. GenuineSay(say', yes')
    BY <1>1, <1>3, <2>1 DEF GenuineSay
  <2>4. QED BY <1>1, <2>1, <2>2, <2>3, GenuineParts
<1>14. ASSUME NEW p \in Procs, Prune(p) \/ Look(p) PROVE (Genuine /\ ApprovalIsReal)'
  <2>1. UNCHANGED <<facts, say, result, yes>> /\ (chan' = Closed(p) \/ chan' = chan)
    BY <1>14 DEF Prune, Look, callerVars
  <2>2. \A d \in Callers : chan'[d] = "yes" => chan[d] = "yes"
    BY <2>1 DEF Closed
  <2>3. GenuineChan(chan', yes')
    BY <1>1, <2>1, <2>2 DEF GenuineChan
  <2>4. QED BY <1>1, <2>1, <2>3, GenuineParts
<1>15. ASSUME NEW p \in Procs, Dispose(p) PROVE (Genuine /\ ApprovalIsReal)'
  <2>1. PICK d \in doomed[p] : Resolve(d.id, d.to)
    BY <1>15 DEF Dispose
  <2>2. d.to \in FactStatus /\ d.to # "approved"
    BY <1>3, <2>1 DEF Ends, FactStatus
  <2>3. UNCHANGED <<chan, say, result, yes>>
    BY <1>15 DEF Dispose, callerVars
  <2>4. GenuineFacts(facts', yes')
    BY <1>1, <2>1, <2>2, <2>3, GenuineResolve
  <2>5. QED BY <1>1, <2>3, <2>4, GenuineParts
<1>16. ASSUME NEW p \in Procs, Start(p) PROVE (Genuine /\ ApprovalIsReal)'
  <2>1. UNCHANGED <<chan, say, result, yes>>
    BY <1>16 DEF Start, callerVars
  <2>2. /\ Typed(facts') /\ Len(facts') = Len(facts)
        /\ \A i \in 1 .. Len(facts) :
             /\ facts'[i].by = facts[i].by
             /\ Orphan(facts[i]) => facts'[i].status = "interrupted"
             /\ ~Orphan(facts[i]) => facts'[i].status = facts[i].status
    BY <1>3, <1>16, StartFacts
  <2>3. DOMAIN facts = 1 .. Len(facts) /\ DOMAIN facts' = 1 .. Len(facts)
    BY <1>3, <2>2, Positions DEF Typed
  <2>4. GenuineFacts(facts', yes')
    BY <1>1, <2>1, <2>2, <2>3 DEF GenuineFacts
  <2>5. QED BY <1>1, <2>1, <2>4, GenuineParts
<1>17. ASSUME NEW p \in Procs, Crash(p) PROVE (Genuine /\ ApprovalIsReal)'
  <2>1. /\ UNCHANGED <<facts, result, yes>>
        /\ chan' = [c \in Callers |-> IF Home[c] = p THEN "empty" ELSE chan[c]]
        /\ say' = [s \in Surfaces |-> IF Place[s] = p THEN <<>> ELSE say[s]]
    BY <1>17 DEF Crash
  <2>2. GenuineChan(chan', yes') /\ GenuineSay(say', yes')
    BY <1>1, <2>1 DEF GenuineChan, GenuineSay
  <2>3. QED BY <1>1, <2>1, <2>2, GenuineParts
<1>18. CASE (\E c \in Callers : Deadline(c)) \/ Reconsider \/ UNCHANGED vars
  <2>1. UNCHANGED <<facts, chan, say, result, yes>>
    BY <1>18 DEF Deadline, Reconsider, vars, callerVars
  <2>2. QED BY <1>1, <2>1, GenuineParts
<1>19. QED BY <1>5, <1>6, <1>7, <1>8, <1>9, <1>10, <1>11, <1>12, <1>13, <1>14, <1>15, <1>16, <1>17,
              <1>18 DEF Next, CallerStep

\* Whoever is told yes was approved by a person or a rule, however the answer
\* reached him: by his channel, by the file of another process, or by a decision
\* kept from an earlier life (wait_for_decision_with_cancel, respond).
THEOREM YesMeansApproved == Spec => []ApprovalIsReal
<1>1. Init => RInv
  <2>1. SUFFICES ASSUME Init PROVE RInv
    OBVIOUS
  <2>2. TInv
    BY <2>1, InitTypes
  <2>3. Genuine /\ ApprovalIsReal
    BY <2>1 DEF Init, Genuine, ApprovalIsReal
  <2>4. QED BY <2>2, <2>3 DEF RInv
<1>2. RInv /\ [Next]_vars => RInv'
  BY TypeStep, GenuineStep DEF RInv
<1>3. RInv => ApprovalIsReal
  BY DEF RInv
<1>4. QED BY <1>1, <1>2, <1>3, PTL DEF Spec

-----------------------------------------------------------------------------
(* What a step does to the file, to the processes and to a caller.         *)

LEMMA WhatIsWritten ==
  ASSUME TInv, [Next]_vars
  PROVE  \/ facts' = facts /\ proc' = proc
         \/ facts' = facts /\ \E p \in Procs : Crash(p)
         \/ proc' = proc /\ \E id \in Ids, st \in FactStatus : Resolve(id, st)
         \/ /\ proc' = proc
            /\ \E c \in Callers, st \in FactStatus :
                 pc[c] = "asking" /\ AppendFact(c, st) /\ pc'[c] \notin {"idle", "asking"}
         \/ \E p \in Procs : Start(p)
<1>1. pc \in [Callers -> Pcs] /\ doomed \in [Procs -> SUBSET Ends]
  BY Split DEF CallerTypes, RestTypes
<1>2. ASSUME NEW c \in Callers, Ask(c) \/ Enqueue(c) \/ GiveUp(c) \/ Receive(c) \/ Poll(c)
                                \/ Watch(c) \/ Again(c) \/ Deadline(c)
      PROVE  facts' = facts /\ proc' = proc
  BY <1>2 DEF Ask, Enqueue, GiveUp, Receive, Poll, Watch, Again, Deadline
<1>3. ASSUME NEW c \in Callers, Revive(c) \/ Refuse(c) \/ Settle(c)
      PROVE  proc' = proc /\ \E id \in Ids, st \in FactStatus : Resolve(id, st)
  <2>1. proc' = proc /\ \E st \in FactStatus : Resolve(IdOf[c], st)
    BY <1>3 DEF Revive, Refuse, Settle, FactStatus
  <2>2. QED BY <2>1, IdFacts
<1>4. ASSUME NEW c \in Callers, Publish(c)
      PROVE  \/ facts' = facts /\ proc' = proc
             \/ /\ proc' = proc /\ pc[c] = "asking" /\ pc'[c] \notin {"idle", "asking"}
                /\ \E st \in FactStatus : AppendFact(c, st)
  <2>1. /\ proc' = proc /\ pc[c] = "asking"
        /\ facts' = facts \/ \E st \in FactStatus : AppendFact(c, st)
        /\ Goto(c, "done") \/ Goto(c, "queueing")
    BY <1>4 DEF Publish, FactStatus, Return
  <2>2. pc'[c] \notin {"idle", "asking"}
    BY <1>1, <2>1 DEF Goto
  <2>3. QED BY <2>1, <2>2
<1>5. ASSUME NEW s \in Surfaces, NEW id \in Ids,
             Interrupt(s, id) \/ \E w \in {"yes", "no"} : Respond(s, id, w)
      PROVE  proc' = proc /\ \E st \in FactStatus : Resolve(id, st)
  BY <1>5 DEF Interrupt, Respond, FactStatus
<1>6. ASSUME NEW s \in Surfaces, Send(s) PROVE facts' = facts /\ proc' = proc
  BY <1>6 DEF Send
<1>7. ASSUME NEW p \in Procs, Prune(p) \/ Look(p) PROVE facts' = facts /\ proc' = proc
  BY <1>7 DEF Prune, Look
<1>8. ASSUME NEW p \in Procs, Dispose(p)
      PROVE  proc' = proc /\ \E id \in Ids, st \in FactStatus : Resolve(id, st)
  <2>1. PICK d \in doomed[p] : Resolve(d.id, d.to)
    BY <1>8 DEF Dispose
  <2>2. d.id \in Ids /\ d.to \in FactStatus
    BY <1>1, <2>1 DEF Ends, FactStatus
  <2>3. QED BY <1>8, <2>1, <2>2 DEF Dispose
<1>9. ASSUME NEW p \in Procs, Crash(p) PROVE facts' = facts
  BY <1>9 DEF Crash
<1>10. CASE Reconsider \/ UNCHANGED vars
  BY <1>10 DEF Reconsider, vars
<1>11. QED BY <1>2, <1>3, <1>4, <1>5, <1>6, <1>7, <1>8, <1>9, <1>10 DEF Next, CallerStep

LEMMA WhoMoves ==
  ASSUME TInv, [Next]_vars, NEW d \in Callers
  PROVE  \/ pc'[d] = pc[d] \/ Ask(d) \/ Revive(d) \/ Again(d)
         \/ Busy(d) /\ pc'[d] \notin {"idle", "asking", "reviving"} /\ proc' = proc
         \/ pc'[d] = "dead"
<1>1. pc \in [Callers -> Pcs]
  BY Split DEF CallerTypes
<1>2. ASSUME NEW c \in Callers, NEW l, Goto(c, l), c # d PROVE pc'[d] = pc[d]
  BY <1>1, <1>2 DEF Goto
<1>3. ASSUME NEW c \in Callers, Ask(c) \/ Revive(c) \/ Again(c), c # d PROVE pc'[d] = pc[d]
  BY <1>2, <1>3 DEF Ask, Revive, Again, Return
<1>4. ASSUME NEW c \in Callers,
             Publish(c) \/ Enqueue(c) \/ Refuse(c) \/ GiveUp(c) \/ Receive(c) \/ Poll(c)
             \/ Settle(c) \/ Watch(c)
      PROVE  \/ pc'[d] = pc[d]
             \/ Busy(d) /\ pc'[d] \notin {"idle", "asking", "reviving"} /\ proc' = proc
  <2>1. /\ \E l \in Pcs \ {"idle", "asking", "reviving"} : Goto(c, l)
        /\ pc[c] \notin {"idle", "done", "dead"} /\ proc' = proc
    <3>1. CASE Publish(c)
      BY <3>1 DEF Publish, Return, Pcs
    <3>2. CASE Enqueue(c)
      BY <3>2 DEF Enqueue, Pcs
    <3>3. CASE Refuse(c) \/ Settle(c) \/ Watch(c)
      BY <3>3 DEF Refuse, Settle, Watch, Return, Pcs
    <3>4. CASE GiveUp(c) \/ Receive(c) \/ Poll(c)
      BY <3>4 DEF GiveUp, Receive, Poll, Return, Pcs
    <3>5. QED BY <1>4, <3>1, <3>2, <3>3, <3>4
  <2>2. PICK l \in Pcs \ {"idle", "asking", "reviving"} : Goto(c, l)
    BY <2>1
  <2>3. CASE c = d
    <3>1. pc'[d] = l
      BY <1>1, <2>2, <2>3 DEF Goto
    <3>2. QED BY <2>1, <2>3, <3>1 DEF Busy
  <2>4. CASE c # d
    BY <1>2, <2>2, <2>4
  <2>5. QED BY <2>3, <2>4
<1>5. ASSUME NEW c \in Callers, Deadline(c) PROVE pc'[d] = pc[d]
  BY <1>5 DEF Deadline
<1>6. ASSUME NEW s \in Surfaces,
             Send(s) \/ \E id \in Ids : Interrupt(s, id) \/ \E w \in {"yes", "no"} : Respond(s, id, w)
      PROVE  pc'[d] = pc[d]
  BY <1>6 DEF Send, Interrupt, Respond, callerVars
<1>7. ASSUME NEW p \in Procs, Prune(p) \/ Look(p) \/ Dispose(p) \/ Start(p) PROVE pc'[d] = pc[d]
  BY <1>7 DEF Prune, Look, Dispose, Start, callerVars
<1>8. ASSUME NEW p \in Procs, Crash(p) PROVE pc'[d] = pc[d] \/ pc'[d] = "dead"
  BY <1>8 DEF Crash
<1>9. CASE Reconsider \/ UNCHANGED vars
  BY <1>9 DEF Reconsider, vars, callerVars
<1>10. QED BY <1>3, <1>4, <1>5, <1>6, <1>7, <1>8, <1>9 DEF Next, CallerStep

\* A process that was up stays up, unless it is killed, and then so are its callers.
LEMMA WhoRuns ==
  ASSUME TInv, [Next]_vars
  PROVE  \/ proc' = proc
         \/ \E p \in Procs : Start(p) /\ proc' = [proc EXCEPT ![p] = "up"] /\ UNCHANGED <<pc>>
         \/ \E p \in Procs : /\ Crash(p) /\ proc' = [proc EXCEPT ![p] = "dead"]
                             /\ pc' = [c \in Callers |-> IF Home[c] = p THEN "dead" ELSE pc[c]]
<1>1. CASE \E p \in Procs : Start(p)
  BY <1>1 DEF Start, callerVars
<1>2. CASE \E p \in Procs : Crash(p)
  BY <1>2 DEF Crash
<1>3. QED BY <1>1, <1>2, WhatIsWritten

-----------------------------------------------------------------------------
(* A decision is final.                                                    *)

\* Two callers at work never share an id.
LEMMA OneAtWork ==
  ASSUME OneLife, TInv, Lives, NEW c \in Callers, NEW d \in Callers, Busy(c), Busy(d),
         IdOf[c] = IdOf[d]
  PROVE  c = d
<1>1. SUFFICES ASSUME c # d PROVE FALSE
  OBVIOUS
<1>2. Home[c] \in Single /\ Home[d] \in Single
  BY <1>1 DEF OneLife
<1>3. Up(Home[c]) /\ Up(Home[d])
  BY DEF Lives
<1>4. Home[c] = Home[d]
  BY <1>2, <1>3 DEF Lives
<1>5. QED BY <1>1, <1>4, ApprovalsAssumption

LEMMA LivesStep ==
  ASSUME TInv, Lives, [Next]_vars
  PROVE  Lives'
<1>1. proc \in [Procs -> {"new", "up", "dead"}] /\ Single \subseteq Procs
  BY Split, ApprovalsAssumption DEF RestTypes
<1>2. \A p, q \in Single : Up(p)' /\ Up(q)' => p = q
  <2>1. CASE proc' = proc
    BY <2>1 DEF Lives, Up
  <2>2. ASSUME NEW s \in Procs, Start(s), proc' = [proc EXCEPT ![s] = "up"]
        PROVE  \A p, q \in Single : Up(p)' /\ Up(q)' => p = q
    <3>1. s \in Single => \A q \in Single : ~Up(q)
      BY <2>2 DEF Start
    <3>2. QED BY <1>1, <2>2, <3>1 DEF Lives, Up
  <2>3. ASSUME NEW s \in Procs, proc' = [proc EXCEPT ![s] = "dead"]
        PROVE  \A p, q \in Single : Up(p)' /\ Up(q)' => p = q
    BY <1>1, <2>3 DEF Lives, Up
  <2>4. QED BY <2>1, <2>2, <2>3, WhoRuns
<1>3. ASSUME NEW c \in Callers, Busy(c)' PROVE Up(Home[c])'
  <2>1. Home[c] \in Procs
    BY IdFacts
  <2>2. CASE proc' = proc
    <3>1. Busy(c) \/ Ask(c)
      <4>1. CASE pc'[c] = pc[c]
        BY <1>3, <4>1 DEF Busy
      <4>2. CASE Revive(c)
        BY <4>2 DEF Revive, Busy
      <4>3. CASE Again(c)
        <5>1. pc'[c] = "idle"
          BY <4>3, Split DEF Again, Goto, CallerTypes
        <5>2. QED BY <1>3, <5>1 DEF Busy
      <4>4. CASE pc'[c] = "dead"
        BY <1>3, <4>4 DEF Busy
      <4>5. QED BY <4>1, <4>2, <4>3, <4>4, WhoMoves
    <3>2. Up(Home[c])
      BY <3>1 DEF Lives, Ask
    <3>3. QED BY <2>2, <3>2 DEF Up
  <2>3. ASSUME NEW s \in Procs, proc' = [proc EXCEPT ![s] = "up"], pc' = pc
        PROVE  Up(Home[c])'
    <3>1. Up(Home[c])
      BY <1>3, <2>3 DEF Busy, Lives
    <3>2. QED BY <1>1, <2>1, <2>3, <3>1 DEF Up
  <2>4. ASSUME NEW s \in Procs, proc' = [proc EXCEPT ![s] = "dead"],
               pc' = [d \in Callers |-> IF Home[d] = s THEN "dead" ELSE pc[d]]
        PROVE  Up(Home[c])'
    <3>1. Home[c] # s /\ pc'[c] = pc[c]
      BY <1>3, <2>4 DEF Busy
    <3>2. Up(Home[c])
      BY <1>3, <3>1 DEF Busy, Lives
    <3>3. QED BY <1>1, <2>1, <2>4, <3>1, <3>2 DEF Up
  <2>5. QED BY <2>2, <2>3, <2>4, WhoRuns
<1>4. QED BY <1>2, <1>3 DEF Lives

\* A fact in the file belongs to a caller.
LEMMA FactOwners ==
  ASSUME TInv
  PROVE  DOMAIN facts = 1 .. Len(facts) /\ \A i \in DOMAIN facts : facts[i].by \in Callers
BY Split, Positions DEF Typed, Facts

LEMMA PublishedStep ==
  ASSUME VInv, [Next]_vars
  PROVE  PublishedOnce'
<1>0. TInv /\ TInv' /\ PublishedOnce /\ Recovered /\ pc \in [Callers -> Pcs]
  BY TypeStep, Split DEF VInv, CallerTypes
\* Whoever has published stays past the question.
<1>1. ASSUME NEW d \in Callers, d \notin Stable, pc[d] \notin {"idle", "asking"}
      PROVE  pc'[d] \notin {"idle", "asking"}
  <2>1. ~Ask(d) /\ ~Revive(d) /\ ~Again(d)
    BY <1>0, <1>1 DEF Ask, Revive, Again, Recovered
  <2>2. QED BY <1>0, <1>1, <2>1, WhoMoves
<1>2. ASSUME NEW i \in DOMAIN facts, facts[i].by \notin Stable
      PROVE  facts[i].by \in Callers /\ pc'[facts[i].by] \notin {"idle", "asking"}
  BY <1>0, <1>1, <1>2, FactOwners DEF PublishedOnce
<1>3. ASSUME NEW i \in DOMAIN facts', facts'[i].by \notin Stable
      PROVE  pc'[facts'[i].by] \notin {"idle", "asking"}
  <2>0. Typed(facts) /\ DOMAIN facts = 1 .. Len(facts) /\ DOMAIN facts' = 1 .. Len(facts')
    BY <1>0, Split, Positions DEF Typed
  <2>1. CASE facts' = facts
    BY <1>2, <1>3, <2>1
  <2>2. ASSUME Len(facts') = Len(facts), \A j \in 1 .. Len(facts) : facts'[j].by = facts[j].by
        PROVE  pc'[facts'[i].by] \notin {"idle", "asking"}
    BY <1>2, <1>3, <2>0, <2>2
  <2>3. CASE \E id \in Ids, st \in FactStatus : Resolve(id, st)
    BY <2>0, <2>2, <2>3, ResolveFacts
  <2>4. CASE \E p \in Procs : Start(p)
    BY <2>0, <2>2, <2>4, StartFacts
  <2>5. ASSUME NEW c \in Callers, NEW st \in FactStatus, AppendFact(c, st),
               pc'[c] \notin {"idle", "asking"}
        PROVE  pc'[facts'[i].by] \notin {"idle", "asking"}
    <3>1. \/ facts'[i] = [by |-> c, status |-> st]
          \/ \E j \in 1 .. Len(facts) : facts'[i] = facts[j]
      BY <1>3, <2>0, <2>5, AppendFacts
    <3>2. CASE facts'[i] = [by |-> c, status |-> st]
      BY <2>5, <3>2
    <3>3. CASE \E j \in 1 .. Len(facts) : facts'[i] = facts[j]
      BY <1>2, <1>3, <2>0, <3>3
    <3>4. QED BY <3>1, <3>2, <3>3
  <2>6. QED BY <1>0, <2>1, <2>3, <2>4, <2>5, WhatIsWritten
<1>4. QED BY <1>3 DEF PublishedOnce

\* An open fact of this fact list whose owner is gone in this state of processes.
OrphanIn(f, pr) == f.status = "pending" /\ pr[Home[f.by]] # "up"

LEMMA RecoveredStep ==
  ASSUME OneLife, VInv, [Next]_vars
  PROVE  Recovered'
<1>0. /\ TInv /\ TInv' /\ Lives /\ Lives' /\ Recovered /\ pc \in [Callers -> Pcs]
      /\ proc \in [Procs -> {"new", "up", "dead"}] /\ Single \subseteq Procs
  BY TypeStep, LivesStep, Split, ApprovalsAssumption DEF VInv, CallerTypes, RestTypes
<1>1. Typed(facts) /\ DOMAIN facts = 1 .. Len(facts) /\ DOMAIN facts' = 1 .. Len(facts')
      /\ \A i \in DOMAIN facts : facts[i].by \in Callers
  BY <1>0, Split, Positions, FactOwners DEF Typed
<1>2. /\ \A f : Orphan(f) <=> OrphanIn(f, proc)
      /\ \A f : Orphan(f)' <=> OrphanIn(f', proc')
  BY DEF Orphan, OrphanIn, Up
<1>3. \A i \in DOMAIN facts : OrphanIn(facts[i], proc) /\ Home[facts[i].by] \in Single
                              => \A q \in Single : proc[q] # "up"
  BY <1>0, <1>2 DEF Recovered, Up
<1>4. ASSUME NEW i \in DOMAIN facts', OrphanIn(facts'[i], proc'), Home[facts'[i].by] \in Single,
             NEW q \in Single
      PROVE  proc'[q] # "up"
  <2>1. CASE facts' = facts /\ proc' = proc
    BY <1>3, <1>4, <2>1
  <2>2. ASSUME NEW p \in Procs, Crash(p), facts' = facts
        PROVE  proc'[q] # "up"
    <3>1. proc' = [proc EXCEPT ![p] = "dead"] /\ proc[p] = "up"
      BY <2>2 DEF Crash, Up
    <3>2. CASE OrphanIn(facts[i], proc)
      <4>1. proc[q] # "up"
        BY <1>3, <1>4, <2>2, <3>2
      <4>2. q \in Procs
        BY <1>0
      <4>3. QED BY <1>0, <3>1, <4>1, <4>2
    <3>3. CASE ~OrphanIn(facts[i], proc)
      <4>1. Home[facts[i].by] = p /\ p \in Single
        BY <1>0, <1>4, <2>2, <3>1, <3>3 DEF OrphanIn
      <4>2. Up(p)
        BY <3>1 DEF Up
      <4>3. CASE Up(q)
        <5>1. q = p
          BY <1>0, <4>1, <4>2, <4>3 DEF Lives
        <5>2. QED BY <1>0, <3>1, <5>1
      <4>4. CASE ~Up(q)
        <5>1. q # p
          BY <4>2, <4>4
        <5>2. QED BY <1>0, <3>1, <4>4, <5>1 DEF Up
      <4>5. QED BY <4>3, <4>4
    <3>4. QED BY <3>2, <3>3
  <2>3. ASSUME NEW id \in Ids, NEW st \in FactStatus, Resolve(id, st), proc' = proc
        PROVE  proc'[q] # "up"
    <3>1. /\ i \in 1 .. Len(facts) /\ facts'[i].by = facts[i].by
          /\ facts'[i].status = facts[i].status \/ facts[i].status = "pending"
      BY <1>1, <1>4, <2>3, ResolveFacts
    <3>2. OrphanIn(facts[i], proc) /\ Home[facts[i].by] \in Single
      BY <1>4, <2>3, <3>1 DEF OrphanIn
    <3>3. QED BY <1>1, <1>3, <2>3, <3>1, <3>2
  <2>4. ASSUME NEW c \in Callers, NEW st \in FactStatus, AppendFact(c, st), pc[c] = "asking",
               proc' = proc
        PROVE  proc'[q] # "up"
    <3>1. proc[Home[c]] = "up"
      BY <1>0, <2>4 DEF Lives, Busy, Up
    <3>2. \/ facts'[i] = [by |-> c, status |-> st]
          \/ \E j \in 1 .. Len(facts) : facts'[i] = facts[j]
      BY <1>1, <1>4, <2>4, AppendFacts
    <3>3. facts'[i] # [by |-> c, status |-> st]
      BY <1>4, <2>4, <3>1 DEF OrphanIn
    <3>4. PICK j \in 1 .. Len(facts) : facts'[i] = facts[j]
      BY <3>2, <3>3
    <3>5. QED BY <1>1, <1>3, <1>4, <2>4, <3>4
  <2>5. ASSUME NEW p \in Procs, Start(p)
        PROVE  proc'[q] # "up"
    <3>1. proc' = [proc EXCEPT ![p] = "up"]
      BY <2>5 DEF Start
    <3>2. /\ i \in 1 .. Len(facts) /\ facts'[i].by = facts[i].by
          /\ Orphan(facts[i]) => facts'[i].status = "interrupted"
          /\ ~Orphan(facts[i]) => facts'[i].status = facts[i].status
      BY <1>1, <1>4, <2>5, StartFacts
    <3>3. facts[i].status = "pending" /\ ~Orphan(facts[i])
      BY <1>4, <3>2 DEF OrphanIn, Orphan
    <3>4. proc[Home[facts[i].by]] = "up" /\ Home[facts[i].by] \in Procs
      BY <1>1, <3>2, <3>3, IdFacts DEF Orphan, Up
    <3>5. proc'[Home[facts[i].by]] = "up"
      BY <1>0, <3>1, <3>4
    <3>6. QED BY <1>4, <3>2, <3>5 DEF OrphanIn
  <2>6. QED BY <1>0, <2>1, <2>2, <2>3, <2>4, <2>5, WhatIsWritten
<1>5. ASSUME NEW c \in Callers PROVE pc'[c] # "reviving"
  <2>1. pc[c] # "reviving"
    BY <1>0 DEF Recovered
  <2>2. CASE Ask(c)
    <3>1. CASE pc'[c] = "reviving"
      <4>1. /\ c \in Stable /\ StatusOf(IdOf[c]) = "pending" /\ Up(Home[c])
            /\ Orphan(facts[Latest(IdOf[c])])
        BY <1>0, <2>2, <3>1 DEF Ask, Goto, Return
      <4>2. StatusIn(facts, IdOf[c]) = "pending" /\ Latest(IdOf[c]) = LastIn(facts, IdOf[c])
        BY <4>1, StatusNow
      <4>3. IsLast(facts, IdOf[c], LastIn(facts, IdOf[c]))
        BY <1>1, <4>2, StatusFacts DEF Typed
      <4>4. PICK i : i = Latest(IdOf[c])
        OBVIOUS
      <4>5. i \in DOMAIN facts /\ IdOf[facts[i].by] = IdOf[c] /\ Orphan(facts[i])
        BY <1>1, <4>1, <4>2, <4>3, <4>4 DEF IsLast
      <4>6. facts[i].by # c /\ facts[i].by \in Callers
        BY <1>1, <4>1, <4>5 DEF Orphan
      <4>7. Home[facts[i].by] \in Single /\ Home[c] \in Single
        BY <4>5, <4>6 DEF OneLife
      <4>8. ~Up(Home[c])
        BY <1>0, <4>5, <4>7 DEF Recovered
      <4>9. QED BY <4>1, <4>8
    <3>2. QED BY <3>1
  <2>3. CASE Revive(c)
    BY <2>1, <2>3 DEF Revive
  <2>4. CASE Again(c)
    BY <1>0, <2>4 DEF Again, Goto
  <2>5. QED BY <1>0, <2>1, <2>2, <2>3, <2>4, WhoMoves
<1>6. \A i \in DOMAIN facts' : OrphanIn(facts'[i], proc') /\ Home[facts'[i].by] \in Single
                               => \A q \in Single : proc'[q] # "up"
  BY <1>4
<1>7. QED BY <1>5, <1>6 DEF Recovered, Orphan, OrphanIn, Up

\* Who is about to publish has found the place free, and it stays free for him.
LEMMA VacantStep ==
  ASSUME OneLife, VInv, [Next]_vars
  PROVE  Vacant'
<1>0. TInv /\ TInv' /\ Lives /\ Vacant /\ PublishedOnce /\ Recovered /\ pc \in [Callers -> Pcs]
      /\ Typed(facts)
  BY TypeStep, Split DEF VInv, CallerTypes
<1> DEFINE Free == {"none", "expired", "interrupted"}
<1>1. ASSUME NEW c \in Callers, pc'[c] = "asking" PROVE StatusOf(IdOf[c])' \in Free
  <2>1. CASE Ask(c)
    <3>1. facts' = facts
      BY <2>1 DEF Ask
    <3>2. CASE c \in Stable
      <4>1. StatusOf(IdOf[c]) \in Free
        BY <1>0, <1>1, <2>1, <3>2 DEF Ask, Goto, Return
      <4>2. QED BY <3>1, <4>1, StatusNow
    <3>3. CASE c \notin Stable
      <4>1. pc[c] = "idle"
        BY <2>1 DEF Ask
      <4>2. ASSUME NEW i \in 1 .. Len(facts) PROVE IdOf[facts[i].by] # IdOf[c]
        <5>1. i \in DOMAIN facts /\ facts[i].by \in Callers
          BY <1>0, FactOwners
        <5>2. facts[i].by # c
          BY <1>0, <3>3, <4>1, <5>1 DEF PublishedOnce
        <5>3. QED BY <3>3, <5>1, <5>2 DEF OneLife
      <4>3. StatusIn(facts, IdOf[c]) = "none"
        BY <1>0, <4>2, LastIs DEF Typed
      <4>4. QED BY <3>1, <4>3, StatusNow
    <3>4. QED BY <3>2, <3>3
  <2>2. CASE pc[c] = "asking"
    <3>1. StatusOf(IdOf[c]) \in Free
      BY <1>0, <2>2 DEF Vacant
    <3>2. CASE facts' = facts
      BY <3>1, <3>2, StatusNow
    <3>3. ASSUME NEW id \in Ids, NEW st \in FactStatus, Resolve(id, st)
          PROVE  StatusOf(IdOf[c])' \in Free
      BY <1>0, <3>1, <3>3, ResolveFacts
    <3>4. ASSUME NEW p \in Procs, Start(p) PROVE StatusOf(IdOf[c])' \in Free
      BY <1>0, <3>1, <3>4, StartFacts
    <3>5. ASSUME NEW d \in Callers, NEW st \in FactStatus, AppendFact(d, st), pc[d] = "asking",
                 pc'[d] # "asking"
          PROVE  StatusOf(IdOf[c])' \in Free
      <4>1. c # d
        BY <1>1, <3>5
      <4>2. IdOf[c] # IdOf[d]
        BY <1>0, <2>2, <3>5, <4>1, OneAtWork DEF Busy
      <4>3. QED BY <1>0, <3>1, <3>5, <4>2, AppendFacts
    <3>6. QED BY <1>0, <3>2, <3>3, <3>4, <3>5, WhatIsWritten
  <2>3. ~Revive(c)
    BY <1>0 DEF Revive, Recovered
  <2>4. ~Again(c)
    BY <1>0, <1>1 DEF Again, Goto
  <2>5. QED BY <1>0, <1>1, <2>1, <2>2, <2>3, <2>4, WhoMoves
<1>2. QED BY <1>1 DEF Vacant

LEMMA VerdictStep ==
  ASSUME VInv, [Next]_vars, NEW id \in Ids, StatusOf(id) \in {"approved", "rejected"}
  PROVE  StatusOf(id)' \in {StatusOf(id), "none"}
<1>0. TInv /\ Vacant /\ Typed(facts)
  BY Split DEF VInv
<1>1. CASE facts' = facts
  BY <1>1, StatusNow
<1>2. ASSUME NEW o \in Ids, NEW st \in FactStatus, Resolve(o, st)
      PROVE  StatusOf(id)' = StatusOf(id)
  BY <1>0, <1>2, ResolveFacts
<1>3. ASSUME NEW p \in Procs, Start(p) PROVE StatusOf(id)' = StatusOf(id)
  BY <1>0, <1>3, StartFacts
<1>4. ASSUME NEW c \in Callers, NEW st \in FactStatus, AppendFact(c, st), pc[c] = "asking"
      PROVE  StatusOf(id)' \in {StatusOf(id), "none"}
  <2>1. id # IdOf[c]
    BY <1>0, <1>4 DEF Vacant
  <2>2. QED BY <1>0, <1>4, <2>1, AppendFacts
<1>5. QED BY <1>0, <1>1, <1>2, <1>3, <1>4, WhatIsWritten

\* A decision is final, whatever expires, restarts or is answered twice
\* (resolve_fact), where one life of the desktop at a time uses an id.
THEOREM VerdictsAreFinal == OneLife => (Spec => VerdictIsFinal)
<1> SUFFICES ASSUME OneLife PROVE Spec => VerdictIsFinal
  OBVIOUS
<1>1. Init => VInv
  <2>1. SUFFICES ASSUME Init PROVE VInv
    OBVIOUS
  <2>2. TInv
    BY <2>1, InitTypes
  <2>3. DOMAIN facts = {} /\ Typed(facts) /\ facts = <<>>
    BY <2>1, <2>2, Split DEF Init
  <2>4. Lives /\ PublishedOnce /\ Recovered /\ Vacant
    BY <2>1, <2>3, IdFacts DEF Init, Lives, Busy, Up, PublishedOnce, Recovered, Vacant
  <2>5. QED BY <2>2, <2>4 DEF VInv
<1>2. VInv /\ [Next]_vars => VInv'
  BY TypeStep, LivesStep, PublishedStep, RecoveredStep, VacantStep DEF VInv
<1>3. VInv /\ [Next]_vars
        => [\A id \in Ids : StatusOf(id) \in {"approved", "rejected"}
              => StatusOf(id)' \in {StatusOf(id), "none"}]_vars
  BY VerdictStep
<1>4. QED BY <1>1, <1>2, <1>3, PTL DEF Spec, VerdictIsFinal

=============================================================================
