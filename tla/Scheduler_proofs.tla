-------------------------- MODULE Scheduler_proofs --------------------------
(***************************************************************************)
(* Theorems about Scheduler for every set of schedules and clients, every  *)
(* rate, every length of the busy check's list and all bounds.             *)
(***************************************************************************)
EXTENDS Scheduler, FiniteSetTheorems, SequenceTheorems, TLAPS

Run == [flow : Flows, by : Schedules \cup {Person}, due : 0 .. MaxTime,
        edit : 0 .. MaxCalls, status : Statuses,
        saved : 0 .. MaxTime, threaded : BOOLEAN, missed : SUBSET Nat]
Ticks == [at : {"asleep", "scan", "dispatch"}, now : 0 .. MaxTime, read : Files, copy : Files,
          todo : SUBSET Schedules, item : Schedules \cup {NoItem}, changed : BOOLEAN,
          missed : SUBSET Nat]
Copies == [at : {"idle", "save"}, read : Files, copy : Files]

\* What a file says of its runs and edits is true of the runs rs and the number k
\* of calls.
ItemFits(s, x, rs, k) ==
  x # Gone => /\ x.edit <= k
              /\ x.run = NoRun \/ (x.run \in DOMAIN rs /\ rs[x.run].by = s)
Fits(f, rs, k) == \A s \in Schedules : ItemFits(s, f[s], rs, k)

Types ==
  /\ now \in 0 .. MaxTime /\ calls \in 0 .. MaxCalls /\ faults \in 0 .. MaxFaults
  /\ cut \in Nat /\ unread \in Nat /\ over \in Nat /\ cut + unread <= faults
  /\ runs \in Seq(Run) /\ file \in Files /\ tick \in Ticks /\ client \in [Clients -> Copies]

Known ==
  /\ \A i \in DOMAIN runs : runs[i].edit <= calls
  /\ Fits(file, runs, calls) /\ Fits(tick.read, runs, calls) /\ Fits(tick.copy, runs, calls)
  /\ \A c \in Clients : Fits(client[c].read, runs, calls) /\ Fits(client[c].copy, runs, calls)

Chosen ==
  /\ \A s \in tick.todo : tick.copy[s] # Gone /\ Due(tick.copy[s], tick.now)
  /\ tick.at = "dispatch" => tick.item \in tick.todo

TInv == Types /\ Known /\ Chosen

\* The runs of one workflow that the busy check is there to keep apart.
Rival(r, flow) == r.flow = flow /\ Live(r) /\ r.threaded /\ r.by # Person

\* Of two of them that execute together the search overlooked the older one.
Apart ==
  unread = 0 =>
    \A i, j \in DOMAIN runs :
      i < j /\ Rival(runs[i], runs[j].flow) /\ Rival(runs[j], runs[j].flow) => i \in runs[j].missed

\* A dispatch that was cleared stays cleared.
Clear ==
  unread = 0 /\ tick.at = "dispatch" =>
    \A i \in DOMAIN runs : Rival(runs[i], Flow[tick.item]) => i \in tick.missed

\* Only a ledger with more runs than the search reads has runs that it overlooks.
Wide ==
  /\ tick.missed # {} => Recent < Len(runs)
  /\ \A j \in DOMAIN runs : runs[j].missed # {} => Recent < Len(runs)

WInv == TInv /\ Apart /\ Clear /\ Wide

\* The executions of an occurrence, and whether a schedule may still start one.
Executions(s, d, e) ==
  {j \in DOMAIN runs : /\ runs[j].by = s /\ runs[j].threaded
                       /\ runs[j].due = d /\ runs[j].edit = e}
Open(x, d, e) == x # Gone /\ x.edit = e /\ (x.next = Unset \/ x.next <= d)

\* y was made of x without an edit, and its next occurrence is no earlier.
Later(x, y) ==
  y # Gone => /\ x # Gone /\ y.edit = x.edit
              /\ x.next = Unset \/ (y.next # Unset /\ x.next <= y.next)

Advances ==
  /\ tick.at = "asleep" => tick.read = Nothing
  /\ tick.changed \/ tick.copy = tick.read
  /\ \A s \in Schedules : Later(tick.read[s], tick.copy[s])

\* Nobody but this client has heard of an edit that it has not saved yet.
Has(f, s, e) == f[s] # Gone /\ f[s].edit = e
Heard(s, e) ==
  \/ Has(file, s, e) \/ Has(tick.read, s, e) \/ Has(tick.copy, s, e)
  \/ \E i \in DOMAIN runs : runs[i].by = s /\ runs[i].edit = e
Private(c, s, e) ==
  \A d \in Clients : ~Has(client[d].read, s, e) /\ (d # c => ~Has(client[d].copy, s, e))

Edited ==
  \A c \in Clients, s \in Schedules :
    \/ Later(client[c].read[s], client[c].copy[s])
    \/ ~Heard(s, client[c].copy[s].edit) /\ Private(c, s, client[c].copy[s].edit)

\* The tick or the file may still start the occurrence: the tick's copy has it
\* open, or the file has and this tick has not served it.
Owed(s, d, e) ==
  \/ Open(tick.copy[s], d, e)
  \/ Open(file[s], d, e) /\ (Open(tick.read[s], d, e) => Open(tick.copy[s], d, e))

\* Every execution but one is paid by a loss, also the one that is still owed.
Losses == cut + over
Within(s, d, e, n) == Cardinality(Executions(s, d, e)) <= n

Paid ==
  \A s \in Schedules, d \in 0 .. MaxTime, e \in 0 .. MaxCalls :
    /\ Within(s, d, e, 1 + Losses)
    /\ Owed(s, d, e) => Within(s, d, e, Losses)

OInv == TInv /\ Advances /\ Edited /\ Paid

-----------------------------------------------------------------------------
(* The constants, the clock and the items of a file.                       *)

LEMMA Bounds ==
  /\ Recent \in Nat /\ MaxTime \in Nat /\ MaxCalls \in Nat
  /\ MaxActs \in Nat /\ MaxFaults \in Nat
  /\ \A s \in Schedules : s \in Nat /\ s # 0 /\ Every[s] \in Nat /\ Every[s] # 0
BY SchedulerAssumption

\* The next occurrence is later than the time it is computed at.
LEMMA NextIsLater ==
  ASSUME NEW s \in Schedules, NEW t \in Nat
  PROVE  NextAfter(s, t) \in Nat /\ NextAfter(s, t) > t
<1> DEFINE e == Every[s]
<1>0. e \in Nat \ {0}
  BY Bounds
<1> HIDE DEF e
<1>1. t \div e \in Nat
  BY <1>0
<1>2. t = e * (t \div e) + (t % e) /\ t % e \in 0 .. (e - 1)
  BY <1>0
<1>3. (t \div e + 1) * e = e * (t \div e) + e /\ (t \div e + 1) * e \in Nat
  BY <1>0, <1>1
<1>4. (t \div e + 1) * e > t
  BY <1>0, <1>1, <1>2, <1>3
<1>5. QED BY <1>3, <1>4 DEF NextAfter, e

LEMMA ItemFacts ==
  /\ \A x \in Schedule : x # Gone
  /\ \A f \in Files, s \in Schedules : f[s] = Gone \/ f[s] \in Schedule
<1>1. ASSUME NEW x \in Schedule PROVE x # Gone
  <2>1. x.stored = TRUE /\ Gone.stored = FALSE
    BY DEF Schedule, Gone
  <2>2. QED BY <2>1
<1>2. QED BY <1>1 DEF Files

LEMMA LaterSame ==
  ASSUME NEW x \in Schedule PROVE x # Gone /\ Later(x, x)
<1>1. x.next \in Nat
  BY DEF Schedule
<1>2. QED BY <1>1, ItemFacts DEF Later, Unset

\* What list, wake and set write for a schedule.
LEMMA SetFacts ==
  ASSUME NEW s \in Schedules, NEW old \in Schedule \cup {Gone}, NEW on \in BOOLEAN,
         NEW t \in Nat, NEW edit \in 0 .. MaxCalls
  PROVE  LET x == SetAt(s, old, on, t, edit) IN
         /\ x \in Schedule /\ x.edit = edit /\ x.next # Unset
         /\ x.run = NoRun \/ (old # Gone /\ x.run = old.run)
<1> DEFINE base == IF old = Gone
                   THEN [stored |-> TRUE, enabled |-> on, next |-> Unset, run |-> NoRun,
                         postponed |-> FALSE, status |-> "", edit |-> edit]
                   ELSE old
           x == [base EXCEPT !.enabled = on, !.next = NextAfter(s, t), !.postponed = FALSE,
                             !.edit = edit]
<1>1. base \in Schedule /\ (base.run = NoRun \/ (old # Gone /\ base.run = old.run))
  BY DEF Schedule, Unset, NoRun
<1>2. NextAfter(s, t) \in Nat /\ NextAfter(s, t) # Unset
  BY NextIsLater DEF Unset
<1> HIDE DEF base
<1>3. x \in Schedule /\ x.edit = edit /\ x.next # Unset /\ x.run = base.run
  BY <1>1, <1>2 DEF Schedule
<1>4. QED BY <1>1, <1>3 DEF SetAt, base

LEMMA CompletedFacts ==
  ASSUME NEW s \in Schedules, file \in Files, NEW t \in Nat
  PROVE  LET x == Completed(s, t) IN
         /\ x \in Schedule \cup {Gone} /\ Later(file[s], x)
         /\ x # Gone => file[s] # Gone /\ x.run = file[s].run
         /\ file[s] # Gone => x # Gone
         /\ file[s] # Gone /\ file[s].next # Unset => x = file[s]
<1>1. file[s] = Gone \/ (file[s] \in Schedule /\ file[s] # Gone)
  BY ItemFacts
<1>2. NextAfter(s, t) \in Nat /\ NextAfter(s, t) # Unset
  BY NextIsLater DEF Unset
<1>3. CASE file[s] = Gone
  BY <1>3 DEF Completed, Later
<1>4. CASE file[s] # Gone /\ file[s].next # Unset
  BY <1>1, <1>4, LaterSame DEF Completed
<1>5. CASE file[s] # Gone /\ file[s].next = Unset
  <2> DEFINE x == [file[s] EXCEPT !.next = NextAfter(s, t)]
  <2>1. x \in Schedule /\ x.edit = file[s].edit /\ x.run = file[s].run
    BY <1>1, <1>2, <1>5 DEF Schedule
  <2>2. Completed(s, t) = x
    BY <1>5 DEF Completed
  <2> HIDE DEF x
  <2>3. QED BY <1>5, <2>1, <2>2, ItemFacts DEF Later
<1>6. QED BY <1>3, <1>4, <1>5

LEMMA ListedFacts ==
  ASSUME NEW s \in Schedules, file \in Files, file[s] # Gone, NEW t \in Nat,
         \A i \in DOMAIN runs : runs[i] \in Run, ItemFits(s, file[s], runs, calls)
  PROVE  LET x == Listed(s, t) IN
         x \in Schedule /\ Later(file[s], x) /\ x.run = file[s].run
<1>1. file[s] \in Schedule
  BY ItemFacts
<1>2. NextAfter(s, t) \in Nat /\ NextAfter(s, t) # Unset
  BY NextIsLater DEF Unset
<1> DEFINE item  == file[s]
           timed == IF item.next = Unset THEN [item EXCEPT !.next = NextAfter(s, t)] ELSE item
           st    == runs[timed.run].status
           x     == [timed EXCEPT !.status = st, !.postponed = FALSE]
<1>3. timed \in Schedule /\ Later(item, timed) /\ timed.run = item.run
  <2>1. CASE item.next = Unset
    <3> DEFINE y == [item EXCEPT !.next = NextAfter(s, t)]
    <3>1. y \in Schedule /\ y.edit = item.edit /\ y.run = item.run
      BY <1>1, <1>2 DEF Schedule
    <3>2. timed = y
      BY <2>1
    <3> HIDE DEF y, item
    <3>3. QED BY <2>1, <3>1, <3>2 DEF Later, item
  <2>2. CASE item.next # Unset
    BY <1>1, <2>2, LaterSame
  <2>3. QED BY <2>1, <2>2
<1>4. timed.run # NoRun => st \in Statuses
  <2>1. timed.run # NoRun => runs[timed.run] \in Run
    BY <1>3 DEF ItemFits
  <2>2. QED BY <2>1 DEF Run
<1> HIDE DEF timed, st
<1>5. timed.run # NoRun =>
        x \in Schedule /\ x.edit = timed.edit /\ x.next = timed.next /\ x.run = timed.run
  BY <1>3, <1>4 DEF Schedule, Statuses
<1>6. Listed(s, t) = IF timed.run = NoRun THEN timed ELSE x
  BY DEF Listed, timed, st
<1> HIDE DEF x
<1>7. timed.run # NoRun => Later(item, x)
  BY <1>3, <1>5, ItemFacts DEF Later
<1>8. QED BY <1>3, <1>5, <1>6, <1>7

-----------------------------------------------------------------------------
(* What an action does to the ledger and to the tick.                      *)

LEMMA FitsGrow ==
  ASSUME NEW f \in Files, NEW rs \in Seq(Run), NEW k \in Nat, Fits(f, rs, k),
         NEW rs2 \in Seq(Run), NEW k2 \in Nat, k <= k2,
         \A i \in DOMAIN rs : i \in DOMAIN rs2 /\ rs2[i].by = rs[i].by
  PROVE  Fits(f, rs2, k2)
<1>1. ASSUME NEW s \in Schedules, f[s] # Gone PROVE ItemFits(s, f[s], rs2, k2)
  <2>1. f[s].edit \in Nat /\ ItemFits(s, f[s], rs, k)
    <3>1. f[s] \in Schedule
      BY <1>1, ItemFacts
    <3>2. f[s].edit \in 0 .. MaxCalls
      BY <3>1 DEF Schedule
    <3>3. QED BY <3>2, Bounds DEF Fits
  <2> DEFINE x == f[s]
  <2>2. x.edit <= k2
    BY <1>1, <2>1 DEF ItemFits
  <2>3. QED BY <1>1, <2>1, <2>2 DEF ItemFits
<1>2. QED BY <1>1 DEF Fits, ItemFits

LEMMA Appended ==
  ASSUME Types, Known, NEW r \in Run, r.edit <= calls, runs' = Append(runs, r)
  PROVE  /\ runs' \in Seq(Run) /\ Len(runs) \in Nat /\ Len(runs') = Len(runs) + 1
         /\ DOMAIN runs = 1 .. Len(runs) /\ DOMAIN runs' = 1 .. (Len(runs) + 1)
         /\ \A i \in DOMAIN runs : i \in DOMAIN runs' /\ runs'[i] = runs[i]
         /\ runs'[Len(runs) + 1] = r
         /\ \A i \in DOMAIN runs' : i \in DOMAIN runs \/ i = Len(runs) + 1
         /\ \A i \in DOMAIN runs' : runs'[i].edit <= calls
<1>1. runs \in Seq(Run)
  BY DEF Types
<1>2. /\ runs' \in Seq(Run) /\ Len(runs) \in Nat /\ Len(runs') = Len(runs) + 1
      /\ DOMAIN runs = 1 .. Len(runs) /\ DOMAIN runs' = 1 .. (Len(runs) + 1)
  BY <1>1, AppendProperties, LenProperties
<1>3. \A i \in 1 .. Len(runs) : runs'[i] = runs[i]
  BY <1>1, AppendProperties
<1>4. runs'[Len(runs) + 1] = r
  BY <1>1, AppendProperties
<1>5. \A i \in DOMAIN runs : i \in DOMAIN runs' /\ runs'[i] = runs[i]
  BY <1>2, <1>3
<1>6. \A i \in DOMAIN runs' : i \in DOMAIN runs \/ i = Len(runs) + 1
  BY <1>2
<1>7. \A i \in DOMAIN runs' : runs'[i].edit <= calls
  BY <1>4, <1>5, <1>6 DEF Known
<1>8. QED BY <1>2, <1>4, <1>5, <1>6, <1>7

\* The tick is done with a schedule.
LEMMA ScannedFacts ==
  ASSUME Types, NEW s \in Schedules, NEW item \in Schedule, NEW ch \in BOOLEAN,
         tick' = Scanned(s, item, ch)
  PROVE  /\ tick' \in Ticks /\ tick'.at = "scan" /\ tick'.now = tick.now
         /\ tick'.read = tick.read /\ tick'.copy = [tick.copy EXCEPT ![s] = item]
         /\ tick'.copy[s] = item
         /\ \A o \in Schedules : o # s => tick'.copy[o] = tick.copy[o]
         /\ tick'.todo = tick.todo \ {s} /\ tick'.changed = (tick.changed \/ ch)
<1>1. tick \in Ticks
  BY DEF Types
<1> DEFINE f == [tick.copy EXCEPT ![s] = item]
           t == [at |-> "scan", now |-> tick.now, read |-> tick.read, copy |-> f,
                 todo |-> tick.todo \ {s}, item |-> NoItem, changed |-> tick.changed \/ ch,
                 missed |-> {}]
<1>2. tick.copy \in [Schedules -> Schedule \cup {Gone}]
  BY <1>1 DEF Ticks, Files
<1>3. f \in Files /\ f[s] = item /\ \A o \in Schedules : o # s => f[o] = tick.copy[o]
  BY <1>2 DEF Files
<1>4. tick' = t
  BY <1>1 DEF Scanned, Ticks
<1> HIDE DEF f
<1>5. t \in Ticks
  BY <1>1, <1>3 DEF Ticks
<1>6. QED BY <1>3, <1>4, <1>5 DEF f

\* The schedules that a tick still has to see are due.
LEMMA DueFacts ==
  ASSUME TInv, NEW s \in tick.todo
  PROVE  /\ s \in Schedules /\ tick.copy[s] \in Schedule /\ tick.now \in 0 .. MaxTime
         /\ tick.copy[s].next \in 1 .. tick.now /\ tick.copy[s].next \in 0 .. MaxTime
         /\ tick.copy[s].next # Unset
<1>1. s \in Schedules /\ tick.now \in 0 .. MaxTime /\ tick.copy \in Files
  BY DEF TInv, Types, Ticks
<1>2. tick.copy[s] # Gone /\ Due(tick.copy[s], tick.now)
  BY DEF TInv, Chosen
<1>3. tick.copy[s] \in Schedule
  BY <1>1, <1>2, ItemFacts
<1>4. tick.copy[s].next \in Nat
  BY <1>3 DEF Schedule
<1> DEFINE n == tick.copy[s].next
<1>5. n \in Nat /\ n # 0 /\ n <= tick.now
  BY <1>2, <1>4 DEF Due, Unset
<1> HIDE DEF n
<1>6. n \in 1 .. tick.now /\ n \in 0 .. MaxTime
  BY <1>1, <1>5, Bounds
<1>7. QED BY <1>1, <1>3, <1>5, <1>6 DEF n, Unset

LEMMA PostponedFacts ==
  ASSUME NEW x \in Schedule
  PROVE  LET y == [x EXCEPT !.postponed = TRUE] IN
         /\ y \in Schedule /\ y.run = x.run /\ y.edit = x.edit /\ y.next = x.next
         /\ Later(x, y) /\ (x.postponed => y = x)
<1> DEFINE y == [x EXCEPT !.postponed = TRUE]
<1>1. y \in Schedule /\ y.run = x.run /\ y.edit = x.edit /\ y.next = x.next /\ x.next \in Nat
  BY DEF Schedule
<1>2. x.postponed => y = x
  BY DEF Schedule
<1> HIDE DEF y
<1>3. Later(x, y)
  BY <1>1, ItemFacts DEF Later, Unset
<1>4. QED BY <1>1, <1>2, <1>3 DEF y

\* The entry of a schedule whose occurrence is over.
Attempted(x, s, t, run, st) ==
  [x EXCEPT !.run = run, !.status = st, !.postponed = FALSE, !.next = NextAfter(s, t)]

LEMMA DispatchedFacts ==
  ASSUME NEW s \in Schedules, NEW x \in Schedule, NEW t \in Nat, x.next \in 1 .. t,
         NEW run \in Nat, NEW st \in {"accepted", "failed"}
  PROVE  LET y == Attempted(x, s, t, run, st) IN
         /\ y \in Schedule /\ y.run = run /\ y.edit = x.edit
         /\ y.next \in Nat /\ y.next > t /\ y.next # Unset
         /\ Later(x, y)
<1> DEFINE n == NextAfter(s, t)
           y == [x EXCEPT !.run = run, !.status = st, !.postponed = FALSE, !.next = n]
<1>1. n \in Nat /\ n > t
  BY NextIsLater
<1> HIDE DEF n
<1>2. y \in Schedule /\ y.run = run /\ y.edit = x.edit /\ y.next = n
  BY <1>1 DEF Schedule
<1> HIDE DEF y
<1>3. Later(x, y) /\ n # Unset
  BY <1>1, <1>2, ItemFacts DEF Later, Unset
<1>4. Attempted(x, s, t, run, st) = y
  BY DEF y, n, Attempted
<1>5. QED BY <1>1, <1>2, <1>3, <1>4

-----------------------------------------------------------------------------
(* Every state is typed, and names runs and edits that exist.              *)

\* What an action that leaves the files and their copies alone has to show.
LEMMA TypeFrame ==
  ASSUME TInv, file' = file, tick' = tick, client' = client,
         now' \in 0 .. MaxTime, calls' = calls, faults' \in 0 .. MaxFaults,
         cut' \in Nat, unread' \in Nat, over' \in Nat, cut' + unread' <= faults',
         runs' \in Seq(Run),
         \A i \in DOMAIN runs : i \in DOMAIN runs' /\ runs'[i].by = runs[i].by,
         \A i \in DOMAIN runs' : runs'[i].edit <= calls
  PROVE  TInv'
<1>1. Types'
  BY DEF TInv, Types
<1>2. calls \in Nat /\ runs \in Seq(Run) /\ file \in Files
      /\ tick.read \in Files /\ tick.copy \in Files
      /\ \A c \in Clients : client[c].read \in Files /\ client[c].copy \in Files
  BY Bounds DEF TInv, Types, Ticks, Copies
<1>3. Fits(file, runs', calls) /\ Fits(tick.read, runs', calls) /\ Fits(tick.copy, runs', calls)
  BY <1>2, FitsGrow DEF TInv, Known
<1>4. \A c \in Clients : Fits(client[c].read, runs', calls) /\ Fits(client[c].copy, runs', calls)
  BY <1>2, FitsGrow DEF TInv, Known
<1>5. Known'
  BY <1>3, <1>4 DEF Known
<1>6. Chosen'
  BY DEF TInv, Chosen
<1>7. QED BY <1>1, <1>5, <1>6 DEF TInv

\* ... that moves the tick only.
LEMMA TypeTick ==
  ASSUME TInv, file' \in Files, Fits(file', runs', calls), client' = client,
         now' = now, calls' = calls, faults' \in 0 .. MaxFaults,
         cut' \in Nat, unread' \in Nat, over' \in Nat, cut' + unread' <= faults',
         runs' \in Seq(Run),
         \A i \in DOMAIN runs : i \in DOMAIN runs' /\ runs'[i].by = runs[i].by,
         \A i \in DOMAIN runs' : runs'[i].edit <= calls,
         tick' \in Ticks, Fits(tick'.read, runs', calls), Fits(tick'.copy, runs', calls),
         Chosen'
  PROVE  TInv'
<1>1. Types'
  BY DEF TInv, Types
<1>2. calls \in Nat /\ runs \in Seq(Run)
      /\ \A c \in Clients : client[c].read \in Files /\ client[c].copy \in Files
  BY Bounds DEF TInv, Types, Copies
<1>3. \A c \in Clients : Fits(client[c].read, runs', calls) /\ Fits(client[c].copy, runs', calls)
  BY <1>2, FitsGrow DEF TInv, Known
<1>4. Known'
  BY <1>3 DEF Known
<1>5. QED BY <1>1, <1>4 DEF TInv

\* ... that moves a client only.
LEMMA TypeClient ==
  ASSUME TInv, file' \in Files, Fits(file', runs, calls'), tick' = tick,
         now' = now, calls' \in 0 .. MaxCalls, calls <= calls', faults' = faults,
         cut' = cut, unread' = unread, over' \in Nat, runs' = runs,
         NEW c \in Clients, NEW cl \in Copies, client' = [client EXCEPT ![c] = cl],
         Fits(cl.read, runs, calls'), Fits(cl.copy, runs, calls')
  PROVE  TInv'
<1>1. client \in [Clients -> Copies] /\ runs \in Seq(Run)
      /\ calls \in Nat /\ calls' \in Nat
  BY Bounds DEF TInv, Types
<1>2. client' \in [Clients -> Copies] /\ client'[c] = cl
      /\ \A d \in Clients : d # c => client'[d] = client[d]
  BY <1>1
<1>3. Types'
  BY <1>2 DEF TInv, Types
<1>4. /\ tick.read \in Files /\ tick.copy \in Files
      /\ \A d \in Clients : client[d].read \in Files /\ client[d].copy \in Files
  BY <1>1 DEF TInv, Types, Ticks, Copies
<1>5. Fits(tick.read, runs, calls') /\ Fits(tick.copy, runs, calls')
  BY <1>1, <1>4, FitsGrow DEF TInv, Known
<1>6. \A d \in Clients : Fits(client[d].read, runs, calls') /\ Fits(client[d].copy, runs, calls')
  BY <1>1, <1>4, FitsGrow DEF TInv, Known
<1>7. \A d \in Clients : Fits(client'[d].read, runs, calls') /\ Fits(client'[d].copy, runs, calls')
  BY <1>2, <1>6
<1>8. \A i \in DOMAIN runs : runs[i].edit <= calls'
  <2>1. \A i \in DOMAIN runs : runs[i].edit <= calls /\ runs[i].edit \in Nat
    <3>1. \A i \in DOMAIN runs : runs[i] \in Run
      BY <1>1, ElementOfSeq, LenProperties
    <3>2. \A i \in DOMAIN runs : runs[i].edit \in Nat
      BY <3>1, Bounds DEF Run
    <3>3. QED BY <3>2 DEF TInv, Known
  <2>2. QED BY <1>1, <2>1
<1>9. Known'
  BY <1>5, <1>7, <1>8 DEF Known
<1>10. Chosen'
  BY DEF TInv, Chosen
<1>11. QED BY <1>3, <1>9, <1>10 DEF TInv

LEMMA TypeFacts ==
  ASSUME TInv
  PROVE  /\ now \in 0 .. MaxTime /\ now \in Nat /\ calls \in 0 .. MaxCalls /\ calls \in Nat
         /\ faults \in 0 .. MaxFaults /\ cut \in Nat /\ unread \in Nat /\ over \in Nat
         /\ cut + unread <= faults
         /\ runs \in Seq(Run) /\ Len(runs) \in Nat /\ DOMAIN runs = 1 .. Len(runs)
         /\ \A i \in DOMAIN runs : runs[i] \in Run /\ runs[i].edit <= calls
         /\ file \in Files /\ tick \in Ticks /\ tick.read \in Files /\ tick.copy \in Files
         /\ client \in [Clients -> Copies]
         /\ \A c \in Clients : client[c].read \in Files /\ client[c].copy \in Files
         /\ Fits(file, runs, calls) /\ Fits(tick.read, runs, calls) /\ Fits(tick.copy, runs, calls)
         /\ \A c \in Clients : Fits(client[c].read, runs, calls) /\ Fits(client[c].copy, runs, calls)
<1>1. runs \in Seq(Run)
  BY DEF TInv, Types
<1>2. Len(runs) \in Nat /\ DOMAIN runs = 1 .. Len(runs) /\ \A i \in DOMAIN runs : runs[i] \in Run
  BY <1>1, ElementOfSeq, LenProperties
<1>3. /\ now \in 0 .. MaxTime /\ now \in Nat /\ calls \in 0 .. MaxCalls /\ calls \in Nat
      /\ faults \in 0 .. MaxFaults /\ cut \in Nat /\ unread \in Nat /\ over \in Nat
      /\ cut + unread <= faults /\ file \in Files /\ tick \in Ticks
      /\ client \in [Clients -> Copies]
  BY Bounds DEF TInv, Types
<1>4. /\ tick.read \in Files /\ tick.copy \in Files
      /\ \A c \in Clients : client[c].read \in Files /\ client[c].copy \in Files
  BY <1>3 DEF Ticks, Copies
<1>5. QED BY <1>1, <1>2, <1>3, <1>4 DEF TInv, Known

\* Nothing is known of a file without schedules.
LEMMA EmptyFits ==
  Nothing \in Files /\ \A rs, k : Fits(Nothing, rs, k)
BY DEF Nothing, Files, Fits, ItemFits

\* The ledger as it is.
LEMMA SameRuns ==
  ASSUME TInv, runs' = runs
  PROVE  /\ runs' \in Seq(Run)
         /\ \A i \in DOMAIN runs : i \in DOMAIN runs' /\ runs'[i].by = runs[i].by
         /\ \A i \in DOMAIN runs' : runs'[i].edit <= calls
BY TypeFacts

LEMMA TypeWake == ASSUME TInv, Wake PROVE TInv'
<1> DEFINE copy == [s \in Schedules |-> Completed(s, now)]
           due  == {s \in Present(file) : Due(file[s], now)}
           t == [at |-> "scan", now |-> now, read |-> file, copy |-> copy,
                 todo |-> due, item |-> NoItem, changed |-> copy # file, missed |-> {}]
<1>1. tick' = t /\ UNCHANGED <<now, file, runs, clientSide, starts, faults, served, cut, over, unread>>
  BY DEF Wake
<1>2. \A s \in Schedules : /\ copy[s] = Completed(s, now) /\ copy[s] \in Schedule \cup {Gone}
                           /\ Later(file[s], copy[s])
                           /\ copy[s] # Gone => file[s] # Gone /\ copy[s].run = file[s].run
                           /\ file[s] # Gone /\ file[s].next # Unset => copy[s] = file[s]
  BY TypeFacts, CompletedFacts
<1>3. copy \in Files
  BY <1>2 DEF Files
<1>4. Fits(copy, runs, calls)
  <2>1. ASSUME NEW s \in Schedules, copy[s] # Gone PROVE ItemFits(s, copy[s], runs, calls)
    <3> DEFINE x == copy[s]
    <3>1. x # Gone /\ x.run = file[s].run /\ x.edit = file[s].edit
      BY <1>2, <2>1 DEF Later
    <3>2. ItemFits(s, file[s], runs, calls) /\ file[s] # Gone
      BY <1>2, <2>1, TypeFacts DEF Fits
    <3> HIDE DEF x
    <3>3. ItemFits(s, x, runs, calls)
      BY <3>1, <3>2 DEF ItemFits
    <3>4. QED BY <3>3 DEF x
  <2> HIDE DEF copy
  <2>2. QED BY <2>1 DEF Fits, ItemFits
<1>5. ASSUME NEW s \in due PROVE copy[s] # Gone /\ Due(copy[s], now)
  <2>1. s \in Schedules /\ file[s] # Gone /\ Due(file[s], now)
    BY DEF Present
  <2>2. copy[s] = file[s]
    BY <1>2, <2>1 DEF Due
  <2>3. QED BY <2>1, <2>2
<1>6. due \in SUBSET Schedules
  BY DEF Present
<1> HIDE DEF copy, due
<1>7. t \in Ticks
  BY <1>3, <1>6, TypeFacts DEF Ticks
<1>8. Chosen'
  BY <1>1, <1>5 DEF Chosen
<1>9. file' = file /\ client' = client /\ now' = now /\ calls' = calls /\ faults' = faults
      /\ cut' = cut /\ unread' = unread /\ over' = over /\ runs' = runs
  BY <1>1 DEF clientSide
<1> HIDE DEF t
<1>10. tick' \in Ticks /\ tick'.read = file /\ tick'.copy = copy
  BY <1>1, <1>7 DEF t
<1>11. QED BY <1>4, <1>8, <1>9, <1>10, TypeTick, TypeFacts, SameRuns

\* A schedule is taken out of the tick's list with a new entry of the copy.
LEMMA TypeScanned ==
  ASSUME TInv, NEW s \in tick.todo, NEW item \in Schedule, NEW ch \in BOOLEAN,
         tick' = Scanned(s, item, ch), ItemFits(s, item, runs', calls),
         file' = file, client' = client, now' = now, calls' = calls,
         faults' \in 0 .. MaxFaults, faults <= faults', cut' = cut, unread' = unread, over' = over,
         runs' \in Seq(Run),
         \A i \in DOMAIN runs : i \in DOMAIN runs' /\ runs'[i].by = runs[i].by,
         \A i \in DOMAIN runs' : runs'[i].edit <= calls
  PROVE  TInv'
<1>0. s \in Schedules /\ Types
  BY DueFacts DEF TInv
<1>1. /\ tick' \in Ticks /\ tick'.at = "scan" /\ tick'.now = tick.now
      /\ tick'.read = tick.read /\ tick'.copy[s] = item
      /\ \A o \in Schedules : o # s => tick'.copy[o] = tick.copy[o]
      /\ tick'.todo = tick.todo \ {s}
  BY <1>0, ScannedFacts
<1>2. Fits(file, runs', calls) /\ Fits(tick.read, runs', calls) /\ Fits(tick.copy, runs', calls)
  <2>1. /\ calls \in Nat /\ runs \in Seq(Run) /\ file \in Files
        /\ tick.read \in Files /\ tick.copy \in Files
        /\ Fits(file, runs, calls) /\ Fits(tick.read, runs, calls) /\ Fits(tick.copy, runs, calls)
    BY TypeFacts
  <2>2. calls <= calls
    BY <2>1
  <2>3. QED BY <2>1, <2>2, FitsGrow
<1>3. Fits(tick'.copy, runs', calls)
  BY <1>1, <1>2 DEF Fits
<1>4. Chosen'
  <2>1. \A o \in tick'.todo : o \in tick.todo /\ o \in Schedules /\ o # s
    BY <1>1, DueFacts
  <2>2. \A o \in tick'.todo : tick'.copy[o] # Gone /\ Due(tick'.copy[o], tick'.now)
    BY <1>1, <2>1 DEF TInv, Chosen
  <2>3. QED BY <1>1, <2>2 DEF Chosen
<1>5. cut + unread <= faults'
  BY TypeFacts, Bounds
<1>6. QED BY <1>1, <1>2, <1>3, <1>4, <1>5, TypeTick, TypeFacts

LEMMA TypePostpone == ASSUME TInv, NEW s \in Schedules, Postpone(s) PROVE TInv'
<1>1. PICK noted \in {FALSE, tick.copy[s].postponed} : tick' = Postponed(s, noted)
  BY DEF Postpone
<1>2. s \in tick.todo /\ UNCHANGED <<now, file, runs, clientSide, starts, faults, cut, over, unread>>
  BY DEF Postpone, IsNext
<1> DEFINE item == [tick.copy[s] EXCEPT !.postponed = TRUE]
<1>3. tick.copy[s] \in Schedule
  BY <1>2, DueFacts
<1>4. item \in Schedule /\ item.run = tick.copy[s].run /\ item.edit = tick.copy[s].edit
  BY <1>3, PostponedFacts
<1>5. ItemFits(s, tick.copy[s], runs, calls)
  BY TypeFacts DEF Fits
<1>6. PICK ch \in BOOLEAN : tick' = Scanned(s, item, ch)
  BY <1>1 DEF Postponed
<1> HIDE DEF item
<1>7. ItemFits(s, item, runs', calls)
  BY <1>2, <1>3, <1>4, <1>5, ItemFacts DEF ItemFits
<1>8. file' = file /\ client' = client /\ now' = now /\ calls' = calls /\ faults' = faults
      /\ cut' = cut /\ unread' = unread /\ over' = over /\ runs' = runs
  BY <1>2 DEF clientSide
<1>9. faults' \in 0 .. MaxFaults /\ faults <= faults'
  BY <1>8, TypeFacts
<1>10. QED BY <1>2, <1>4, <1>6, <1>7, <1>8, <1>9, TypeScanned, SameRuns

\* The ways in which an occurrence is over: Dispatch, Skip and DispatchFails.
LEMMA TypeDispatched ==
  ASSUME TInv, NEW s \in tick.todo, NEW run \in Nat, NEW st \in {"accepted", "failed"},
         tick' = Dispatched(s, run, st),
         run = NoRun \/ (run \in DOMAIN runs' /\ runs'[run].by = s),
         file' = file, client' = client, now' = now, calls' = calls,
         faults' \in 0 .. MaxFaults, faults <= faults', cut' = cut, unread' = unread, over' = over,
         runs' \in Seq(Run),
         \A i \in DOMAIN runs : i \in DOMAIN runs' /\ runs'[i].by = runs[i].by,
         \A i \in DOMAIN runs' : runs'[i].edit <= calls
  PROVE  TInv'
<1> DEFINE x == tick.copy[s]
           item == Attempted(x, s, tick.now, run, st)
<1>1. s \in Schedules /\ x \in Schedule /\ x.next \in 1 .. tick.now /\ tick.now \in Nat
  BY DueFacts, Bounds
<1>2. ItemFits(s, x, runs, calls) /\ x # Gone
  BY <1>1, TypeFacts, ItemFacts DEF Fits
<1>3. tick' = Scanned(s, item, TRUE)
  BY DEF Dispatched, Attempted
<1> HIDE DEF x
<1>4. item \in Schedule /\ item.run = run /\ item.edit = x.edit
  BY <1>1, DispatchedFacts
<1> HIDE DEF item
<1>5. ItemFits(s, item, runs', calls)
  BY <1>2, <1>4 DEF ItemFits
<1>6. QED BY <1>3, <1>4, <1>5, TypeScanned

LEMMA TypeAttempts ==
  ASSUME TInv, NEW s \in Schedules, Skip(s) \/ DispatchFails(s)
  PROVE  TInv'
<1>1. s \in tick.todo
  BY DEF Skip, DispatchFails, IsNext, TInv, Chosen
<1>2. /\ faults < MaxFaults /\ faults' = faults + 1 /\ tick' = Dispatched(s, NoRun, "failed")
      /\ file' = file /\ client' = client /\ now' = now /\ calls' = calls
      /\ cut' = cut /\ unread' = unread /\ over' = over /\ runs' = runs
  BY DEF Skip, DispatchFails, clientSide
<1>3. faults' \in 0 .. MaxFaults /\ faults <= faults' /\ NoRun \in Nat
  BY <1>2, TypeFacts, Bounds DEF NoRun
<1>4. QED BY <1>1, <1>2, <1>3, TypeDispatched, SameRuns

\* The row that a dispatch saves.
LEMMA RowFacts ==
  ASSUME TInv, NEW s \in tick.todo, NEW threaded \in BOOLEAN
  PROVE  LET r == NewRun(Flow[s], s, tick.copy[s].next, tick.copy[s].edit, threaded, tick.missed) IN
         r \in Run /\ r.edit <= calls /\ r.by = s /\ s # Person
<1>1. s \in Schedules /\ tick.copy[s] \in Schedule /\ tick.copy[s].next \in 0 .. MaxTime
  BY DueFacts
<1>2. ItemFits(s, tick.copy[s], runs, calls) /\ tick.copy[s] # Gone
  BY <1>1, TypeFacts, ItemFacts DEF Fits
<1>3. tick.copy[s].edit \in 0 .. MaxCalls /\ tick.copy[s].edit <= calls
  BY <1>1, <1>2 DEF ItemFits, Schedule
<1>4. Flow[s] \in Flows
  BY <1>1 DEF Flows
<1>5. s # Person
  BY <1>1, Bounds DEF Person
<1>6. now \in 0 .. MaxTime /\ tick.missed \in SUBSET Nat
  BY TypeFacts DEF Ticks
<1>7. QED BY <1>1, <1>3, <1>4, <1>5, <1>6 DEF NewRun, Run, Statuses

LEMMA TypeDispatch == ASSUME TInv, NEW s \in Schedules, Dispatch(s) PROVE TInv'
<1> DEFINE r == NewRun(Flow[s], s, tick.copy[s].next, tick.copy[s].edit, TRUE, tick.missed)
<1>1. s \in tick.todo /\ runs' = Append(runs, r) /\ tick' = Dispatched(s, Len(runs'), "accepted")
      /\ file' = file /\ client' = client /\ now' = now /\ calls' = calls
      /\ faults' = faults /\ cut' = cut /\ unread' = unread /\ over' = over
  BY DEF Dispatch, TInv, Chosen, clientSide
<1>2. r \in Run /\ r.edit <= calls /\ r.by = s
  BY <1>1, RowFacts
<1> HIDE DEF r
<1>3. /\ runs' \in Seq(Run) /\ Len(runs) \in Nat /\ Len(runs') = Len(runs) + 1
      /\ DOMAIN runs' = 1 .. (Len(runs) + 1)
      /\ \A i \in DOMAIN runs : i \in DOMAIN runs' /\ runs'[i] = runs[i]
      /\ runs'[Len(runs) + 1] = r
      /\ \A i \in DOMAIN runs' : runs'[i].edit <= calls
  BY <1>1, <1>2, Appended DEF TInv
<1>4. Len(runs') \in Nat /\ Len(runs') \in DOMAIN runs' /\ runs'[Len(runs')].by = s
  BY <1>2, <1>3
<1>5. faults' \in 0 .. MaxFaults /\ faults <= faults'
  BY <1>1, TypeFacts
<1>6. QED BY <1>1, <1>3, <1>4, <1>5, TypeDispatched

LEMMA TypeRows ==
  ASSUME TInv, (\E s \in Schedules : DispatchRetries(s)) \/ (\E flow \in Flows : StartRun(flow))
  PROVE  TInv'
<1>1. ASSUME NEW r \in Run, r.edit <= calls, runs' = Append(runs, r),
             file' = file, tick' = tick, client' = client, now' = now, calls' = calls,
             faults' \in 0 .. MaxFaults, faults <= faults', cut' = cut, unread' = unread,
             over' = over
      PROVE  TInv'
  <2>1. /\ runs' \in Seq(Run)
        /\ \A i \in DOMAIN runs : i \in DOMAIN runs' /\ runs'[i] = runs[i]
        /\ \A i \in DOMAIN runs' : runs'[i].edit <= calls
    BY <1>1, Appended DEF TInv
  <2>2. cut + unread <= faults' /\ now \in 0 .. MaxTime
        /\ cut \in Nat /\ unread \in Nat /\ over \in Nat
    BY <1>1, TypeFacts, Bounds
  <2>3. QED BY <1>1, <2>1, <2>2, TypeFrame
<1>2. ASSUME NEW s \in Schedules, DispatchRetries(s) PROVE TInv'
  <2> DEFINE r == NewRun(Flow[s], s, tick.copy[s].next, tick.copy[s].edit, FALSE, tick.missed)
  <2>1. s \in tick.todo /\ runs' = Append(runs, r) /\ faults < MaxFaults /\ faults' = faults + 1
        /\ file' = file /\ tick' = tick /\ client' = client /\ now' = now /\ calls' = calls
        /\ cut' = cut /\ unread' = unread /\ over' = over
    BY <1>2 DEF DispatchRetries, TInv, Chosen, clientSide
  <2>2. r \in Run /\ r.edit <= calls
    BY <2>1, RowFacts
  <2>3. faults' \in 0 .. MaxFaults /\ faults <= faults'
    BY <2>1, TypeFacts, Bounds
  <2> HIDE DEF r
  <2>4. QED BY <1>1, <2>1, <2>2, <2>3
<1>3. ASSUME NEW flow \in Flows, StartRun(flow) PROVE TInv'
  <2> DEFINE r == NewRun(flow, Person, 0, 0, TRUE, {})
  <2>1. runs' = Append(runs, r) /\ faults' = faults
        /\ file' = file /\ tick' = tick /\ client' = client /\ now' = now /\ calls' = calls
        /\ cut' = cut /\ unread' = unread /\ over' = over
    BY <1>3 DEF StartRun, clientSide
  <2>2. r \in Run /\ r.edit <= calls
    BY TypeFacts, Bounds DEF Run, NewRun, Statuses
  <2>3. faults' \in 0 .. MaxFaults /\ faults <= faults'
    BY <2>1, TypeFacts
  <2> HIDE DEF r
  <2>4. QED BY <1>1, <2>1, <2>2, <2>3
<1>4. QED BY <1>2, <1>3

\* A claim, and what it leaves of the tick.
LEMMA ClaimFacts ==
  ASSUME TInv, NEW s \in Schedules, Claim(s) \/ ClaimUnread(s)
  PROVE  /\ s \in tick.todo /\ tick' \in Ticks /\ tick'.at = "dispatch" /\ tick'.item = s
         /\ tick'.now = tick.now /\ tick'.read = tick.read /\ tick'.copy = tick.copy
         /\ tick'.todo = tick.todo /\ tick'.changed = tick.changed
         /\ file' = file /\ client' = client /\ now' = now /\ calls' = calls
         /\ faults' \in 0 .. MaxFaults /\ cut' = cut /\ over' = over /\ runs' = runs
         /\ unread' \in Nat /\ unread <= unread' /\ cut + unread' <= faults'
         /\ tick'.missed \in {tick.missed, Overlooked(Flow[s])}
         /\ unread' = unread => /\ tick'.missed = Overlooked(Flow[s])
                                /\ \E R \in Newest : ~Busy(Flow[s], R)
<1>1. s \in tick.todo
      /\ file' = file /\ client' = client /\ now' = now /\ calls' = calls
      /\ cut' = cut /\ over' = over /\ runs' = runs
  BY DEF Claim, ClaimUnread, IsNext, clientSide
<1>2. \/ /\ faults' = faults /\ unread' = unread /\ \E R \in Newest : ~Busy(Flow[s], R)
         /\ tick' = [tick EXCEPT !.at = "dispatch", !.item = s, !.missed = Overlooked(Flow[s])]
      \/ /\ faults < MaxFaults /\ faults' = faults + 1 /\ unread' = unread + 1
         /\ tick' = [tick EXCEPT !.at = "dispatch", !.item = s]
  BY DEF Claim, ClaimUnread
<1>3. Overlooked(Flow[s]) \in SUBSET Nat
  BY TypeFacts DEF Overlooked
<1>4. \E m \in {tick.missed, Overlooked(Flow[s])} :
        tick' = [tick EXCEPT !.at = "dispatch", !.item = s, !.missed = m]
  <2>1. tick = [tick EXCEPT !.missed = tick.missed]
    BY TypeFacts DEF Ticks
  <2>2. [tick EXCEPT !.at = "dispatch", !.item = s]
          = [tick EXCEPT !.at = "dispatch", !.item = s, !.missed = tick.missed]
    BY TypeFacts DEF Ticks
  <2>3. QED BY <1>2, <2>2
<1>5. /\ tick' \in Ticks /\ tick'.at = "dispatch" /\ tick'.item = s
      /\ tick'.now = tick.now /\ tick'.read = tick.read /\ tick'.copy = tick.copy
      /\ tick'.todo = tick.todo /\ tick'.changed = tick.changed
      /\ tick'.missed \in {tick.missed, Overlooked(Flow[s])}
  BY <1>1, <1>3, <1>4, TypeFacts DEF Ticks
<1>6. faults \in Nat /\ unread \in Nat /\ cut \in Nat /\ cut + unread <= faults /\ MaxFaults \in Nat
      /\ faults \in 0 .. MaxFaults
  BY TypeFacts, Bounds
<1>7. /\ faults' \in 0 .. MaxFaults /\ unread' \in Nat /\ unread <= unread'
      /\ cut + unread' <= faults'
  BY <1>2, <1>6
<1>8. unread' = unread => /\ tick'.missed = Overlooked(Flow[s])
                          /\ \E R \in Newest : ~Busy(Flow[s], R)
  <2>1. CASE unread' = unread + 1
    BY <1>6, <2>1
  <2>2. CASE \/ /\ \E R \in Newest : ~Busy(Flow[s], R)
                /\ tick' = [tick EXCEPT !.at = "dispatch", !.item = s,
                                        !.missed = Overlooked(Flow[s])]
    BY <2>2, TypeFacts DEF Ticks
  <2>3. QED BY <1>2, <2>1, <2>2
<1>9. QED BY <1>1, <1>5, <1>7, <1>8

LEMMA TypeClaim ==
  ASSUME TInv, NEW s \in Schedules, Claim(s) \/ ClaimUnread(s) PROVE TInv'
<1>1. /\ s \in tick.todo /\ tick' \in Ticks /\ tick'.at = "dispatch" /\ tick'.item = s
      /\ tick'.now = tick.now /\ tick'.read = tick.read /\ tick'.copy = tick.copy
      /\ tick'.todo = tick.todo
      /\ file' = file /\ client' = client /\ now' = now /\ calls' = calls
      /\ faults' \in 0 .. MaxFaults /\ cut' = cut /\ over' = over /\ runs' = runs
      /\ unread' \in Nat /\ cut + unread' <= faults'
  BY ClaimFacts
<1>2. Chosen'
  BY <1>1 DEF TInv, Chosen
<1>3. QED BY <1>1, <1>2, TypeFacts, TypeTick, SameRuns

LEMMA AsleepFacts ==
  ASSUME TInv, tick' = Asleep
  PROVE  /\ tick' \in Ticks /\ tick'.at = "asleep" /\ tick'.todo = {}
         /\ tick'.read = Nothing /\ tick'.copy = Nothing /\ tick'.changed = FALSE /\ Chosen'
<1>1. tick' \in Ticks
  BY EmptyFits, Bounds DEF Asleep, Ticks, NoItem
<1>2. /\ tick'.at = "asleep" /\ tick'.todo = {} /\ tick'.read = Nothing /\ tick'.copy = Nothing
      /\ tick'.changed = FALSE
  BY DEF Asleep
<1>3. QED BY <1>1, <1>2 DEF Chosen

LEMMA SaveTickFacts ==
  ASSUME TInv, SaveTick
  PROVE  /\ tick' = Asleep /\ client' = client /\ now' = now /\ calls' = calls
         /\ faults' = faults /\ cut' = cut /\ unread' = unread /\ runs' = runs
         /\ over' \in Nat /\ over <= over'
         /\ \/ tick.changed /\ file' = tick.copy /\ (file # tick.read => over' = over + 1)
            \/ ~tick.changed /\ file' = file
<1>1. CASE tick.changed
  BY <1>1, TypeFacts DEF SaveTick, Save, clientSide
<1>2. CASE ~tick.changed
  BY <1>2, TypeFacts DEF SaveTick, clientSide
<1>3. QED BY <1>1, <1>2

LEMMA TypeSaveTick == ASSUME TInv, SaveTick PROVE TInv'
<1>1. file' \in Files /\ Fits(file', runs, calls)
  BY SaveTickFacts, TypeFacts
<1>2. tick' \in Ticks /\ tick'.read = Nothing /\ tick'.copy = Nothing /\ Chosen'
  BY SaveTickFacts, AsleepFacts
<1>3. QED BY <1>1, <1>2, SaveTickFacts, TypeFacts, TypeTick, SameRuns, EmptyFits

LEMMA TypeCrash == ASSUME TInv, CrashTick PROVE TInv'
<1>1. /\ tick' = Asleep /\ client' = client /\ now' = now /\ calls' = calls /\ file' = file
      /\ faults < MaxFaults /\ faults' = faults + 1 /\ cut' = cut + 1
      /\ unread' = unread /\ runs' = runs /\ over' = over
  BY DEF CrashTick, clientSide
<1>2. tick' \in Ticks /\ tick'.read = Nothing /\ tick'.copy = Nothing /\ Chosen'
  BY <1>1, AsleepFacts
<1>3. faults' \in 0 .. MaxFaults /\ cut' \in Nat /\ cut' + unread <= faults'
  BY SMTT(30), <1>1, TypeFacts, Bounds
<1>4. QED BY <1>1, <1>2, <1>3, TypeFacts, TypeTick, SameRuns, EmptyFits

\* A run that is saved again is the same run.
LEMMA SaveRunFacts ==
  ASSUME TInv, NEW i \in DOMAIN runs, NEW st \in Statuses, SaveRun(i, st)
  PROVE  /\ runs' \in Seq(Run) /\ DOMAIN runs' = DOMAIN runs /\ Len(runs') = Len(runs)
         /\ \A j \in DOMAIN runs :
              /\ runs'[j].flow = runs[j].flow /\ runs'[j].by = runs[j].by
              /\ runs'[j].due = runs[j].due /\ runs'[j].edit = runs[j].edit
              /\ runs'[j].threaded = runs[j].threaded /\ runs'[j].missed = runs[j].missed
              /\ Live(runs'[j]) => Live(runs[j])
         /\ file' = file /\ tick' = tick /\ client' = client /\ now' = now /\ calls' = calls
         /\ faults' = faults /\ cut' = cut /\ unread' = unread /\ over' = over
<1> DEFINE r == [runs[i] EXCEPT !.status = st, !.saved = now]
<1>1. runs' = [runs EXCEPT ![i] = r] /\ Live(runs[i])
  BY DEF SaveRun
<1>2. runs[i] \in Run /\ now \in 0 .. MaxTime
  BY TypeFacts
<1>3. /\ r \in Run /\ r.flow = runs[i].flow /\ r.by = runs[i].by /\ r.due = runs[i].due
      /\ r.edit = runs[i].edit /\ r.threaded = runs[i].threaded /\ r.missed = runs[i].missed
  BY ONLY <1>2, st \in Statuses DEF Run
<1> HIDE DEF r
<1>4. runs \in Seq(Run)
  BY TypeFacts
<1>5. runs' \in Seq(Run) /\ DOMAIN runs' = DOMAIN runs /\ Len(runs') = Len(runs)
  BY <1>1, <1>3, <1>4, ExceptSeq
<1>6. runs'[i] = r /\ \A j \in DOMAIN runs : j # i => runs'[j] = runs[j]
  BY <1>1, <1>4
<1>7. /\ file' = file /\ tick' = tick /\ client' = client /\ now' = now /\ calls' = calls
      /\ faults' = faults /\ cut' = cut /\ unread' = unread /\ over' = over
  BY DEF SaveRun, clientSide
<1>8. QED BY <1>1, <1>3, <1>5, <1>6, <1>7

LEMMA TypeWorld ==
  ASSUME TInv, Pass \/ (\E i \in DOMAIN runs, st \in Statuses : SaveRun(i, st)) PROVE TInv'
<1>1. CASE Pass
  <2>1. /\ now < MaxTime /\ now' = now + 1 /\ file' = file /\ tick' = tick /\ client' = client
        /\ calls' = calls /\ faults' = faults /\ cut' = cut /\ unread' = unread /\ over' = over
        /\ runs' = runs
    BY <1>1 DEF Pass, clientSide
  <2>2. now' \in 0 .. MaxTime
    BY <2>1, TypeFacts, Bounds
  <2>3. QED BY <2>1, <2>2, TypeFrame, TypeFacts, SameRuns
<1>2. ASSUME NEW i \in DOMAIN runs, NEW st \in Statuses, SaveRun(i, st) PROVE TInv'
  <2>1. \A j \in DOMAIN runs' : runs'[j].edit <= calls
    BY <1>2, SaveRunFacts, TypeFacts
  <2>2. QED BY <1>2, <2>1, SaveRunFacts, TypeFrame, TypeFacts
<1>3. QED BY <1>1, <1>2

\* A client reads the file and changes its copy: an entry is kept, or carries the
\* number of this call.
Changed(c, copy) ==
  /\ client' = [client EXCEPT ![c] = [at |-> "save", read |-> file, copy |-> copy]]
  /\ copy \in Files /\ Fits(copy, runs, calls + 1)
  /\ \A s \in Schedules : Later(file[s], copy[s]) \/ copy[s].edit = calls + 1

CallFrame ==
  /\ calls' = calls + 1 /\ calls + 1 \in 0 .. MaxCalls
  /\ file' = file /\ tick' = tick /\ now' = now /\ faults' = faults /\ cut' = cut
  /\ unread' = unread /\ over' = over /\ runs' = runs

LEMMA EntryFits ==
  ASSUME TInv, NEW s \in Schedules, NEW x, Later(file[s], x),
         x # Gone => x.run = file[s].run
  PROVE  ItemFits(s, x, runs, calls + 1)
<1>1. CASE x = Gone
  BY <1>1 DEF ItemFits
<1>2. CASE x # Gone
  <2>1. file[s] # Gone /\ x.edit = file[s].edit /\ x.run = file[s].run
    BY <1>2 DEF Later
  <2>2. file[s] \in Schedule /\ ItemFits(s, file[s], runs, calls)
    BY <2>1, TypeFacts, ItemFacts DEF Fits
  <2>3. file[s].edit \in Nat /\ calls \in Nat
    <3>1. file[s].edit \in 0 .. MaxCalls
      BY <2>2 DEF Schedule
    <3>2. QED BY <3>1, TypeFacts, Bounds
  <2>4. x.edit <= calls + 1
    BY <2>1, <2>2, <2>3 DEF ItemFits
  <2>5. QED BY <2>1, <2>2, <2>4 DEF ItemFits
<1>3. QED BY <1>1, <1>2

LEMMA ListFacts ==
  ASSUME TInv, NEW c \in Clients, List(c)
  PROVE  CallFrame /\ \E copy : Changed(c, copy)
<1> DEFINE copy == [s \in Schedules |-> IF file[s] = Gone THEN Gone ELSE Listed(s, now)]
<1>1. CallFrame /\ client' = [client EXCEPT ![c] = [at |-> "save", read |-> file, copy |-> copy]]
  BY TypeFacts, Bounds DEF List, CallFrame
<1>2. ASSUME NEW s \in Schedules
      PROVE  /\ copy[s] \in Schedule \cup {Gone} /\ Later(file[s], copy[s])
             /\ copy[s] # Gone => copy[s].run = file[s].run
  <2>1. CASE file[s] = Gone
    BY <2>1 DEF Later
  <2>2. CASE file[s] # Gone
    <3>1. copy[s] = Listed(s, now)
      BY <2>2
    <3>2. ItemFits(s, file[s], runs, calls) /\ \A i \in DOMAIN runs : runs[i] \in Run
      BY <2>2, TypeFacts DEF Fits
    <3>3. QED BY <2>2, <3>1, <3>2, ListedFacts, TypeFacts
  <2>3. QED BY <2>1, <2>2
<1>3. copy \in Files
  BY <1>2 DEF Files
<1> HIDE DEF copy
<1>4. Fits(copy, runs, calls + 1)
  BY <1>2, EntryFits DEF Fits
<1>5. Changed(c, copy)
  BY <1>1, <1>2, <1>3, <1>4 DEF Changed
<1>6. QED BY <1>1, <1>5

\* One entry of the file is replaced.
LEMMA OneChanged ==
  ASSUME TInv, NEW c \in Clients, NEW s \in Schedules, NEW x \in Schedule \cup {Gone},
         ItemFits(s, x, runs, calls + 1), Later(file[s], x) \/ x.edit = calls + 1,
         client' = [client EXCEPT ![c] =
           [at |-> "save", read |-> file, copy |-> [file EXCEPT ![s] = x]]]
  PROVE  \E copy : Changed(c, copy)
<1> DEFINE copy == [file EXCEPT ![s] = x]
<1>1. file \in [Schedules -> Schedule \cup {Gone}]
  BY TypeFacts DEF Files
<1>2. copy \in Files /\ copy[s] = x /\ \A o \in Schedules : o # s => copy[o] = file[o]
  BY <1>1 DEF Files
<1>3. client' = [client EXCEPT ![c] = [at |-> "save", read |-> file, copy |-> copy]]
  OBVIOUS
<1> HIDE DEF copy
<1>4. ASSUME NEW o \in Schedules
      PROVE  ItemFits(o, copy[o], runs, calls + 1)
             /\ (Later(file[o], copy[o]) \/ copy[o].edit = calls + 1)
  <2>1. CASE o = s
    BY <1>2, <2>1
  <2>2. CASE o # s
    <3>1. copy[o] = file[o] /\ (file[o] = Gone \/ file[o] \in Schedule)
      BY <1>2, <2>2, TypeFacts, ItemFacts
    <3>2. Later(file[o], copy[o])
      BY <3>1, LaterSame DEF Later
    <3>3. QED BY <3>1, <3>2, EntryFits
  <2>3. QED BY <2>1, <2>2
<1>5. Changed(c, copy)
  BY <1>2, <1>3, <1>4 DEF Changed, Fits
<1>6. QED BY <1>5

LEMMA SetDeleteFacts ==
  ASSUME TInv, NEW c \in Clients, NEW s \in Schedules, Set(c, s) \/ Delete(c, s)
  PROVE  CallFrame /\ \E copy : Changed(c, copy)
<1>0. file \in [Schedules -> Schedule \cup {Gone}] /\ now \in Nat /\ calls \in Nat
  BY TypeFacts DEF Files
<1>1. CASE Delete(c, s)
  <2>1. CallFrame
    BY <1>1, TypeFacts, Bounds DEF Delete, CallFrame
  <2>2. client' = [client EXCEPT ![c] =
          [at |-> "save", read |-> file, copy |-> [file EXCEPT ![s] = Gone]]]
    BY <1>1 DEF Delete
  <2>3. ItemFits(s, Gone, runs, calls + 1) /\ Later(file[s], Gone)
    BY DEF ItemFits, Later
  <2>4. QED BY <2>1, <2>2, <2>3, OneChanged
<1>2. CASE Set(c, s)
  <2>1. PICK on \in BOOLEAN : client' = [client EXCEPT ![c] =
          [at |-> "save", read |-> file,
           copy |-> [file EXCEPT ![s] = SetAt(s, @, on, now, calls')]]]
    BY <1>2 DEF Set
  <2>2. CallFrame
    BY <1>2, TypeFacts, Bounds DEF Set, CallFrame
  <2> DEFINE x == SetAt(s, file[s], on, now, calls + 1)
  <2>3. client' = [client EXCEPT ![c] =
          [at |-> "save", read |-> file, copy |-> [file EXCEPT ![s] = x]]]
    BY <1>0, <2>1, <2>2 DEF CallFrame
  <2>4. file[s] \in Schedule \cup {Gone} /\ calls + 1 \in 0 .. MaxCalls
    BY <1>0, <2>2 DEF CallFrame
  <2>5. x \in Schedule /\ x.edit = calls + 1 /\ (x.run = NoRun \/ (file[s] # Gone /\ x.run = file[s].run))
    BY <1>0, <2>4, SetFacts
  <2> HIDE DEF x
  <2>6. ItemFits(s, x, runs, calls + 1)
    <3>1. ItemFits(s, file[s], runs, calls)
      BY TypeFacts DEF Fits
    <3>2. QED BY <1>0, <2>5, <3>1 DEF ItemFits
  <2>7. QED BY <2>2, <2>3, <2>5, <2>6, OneChanged
<1>3. QED BY <1>1, <1>2

LEMMA TypeChanged ==
  ASSUME TInv, NEW c \in Clients, NEW copy, CallFrame, Changed(c, copy)
  PROVE  TInv'
<1> DEFINE cl == [at |-> "save", read |-> file, copy |-> copy]
<1>1. cl \in Copies /\ cl.read = file /\ cl.copy = copy /\ client' = [client EXCEPT ![c] = cl]
  BY TypeFacts DEF Changed, Copies
<1> HIDE DEF cl
<1>2. /\ calls' = calls + 1 /\ calls' \in 0 .. MaxCalls /\ calls <= calls'
      /\ file' = file /\ tick' = tick /\ now' = now /\ faults' = faults /\ cut' = cut
      /\ unread' = unread /\ over' = over /\ runs' = runs
  BY TypeFacts DEF CallFrame
<1>3. Fits(file, runs, calls') /\ Fits(copy, runs, calls')
  <2>1. calls' \in Nat /\ \A i \in DOMAIN runs : i \in DOMAIN runs /\ runs[i].by = runs[i].by
    BY <1>2, TypeFacts
  <2>2. Fits(file, runs, calls')
    BY <1>2, <2>1, TypeFacts, FitsGrow
  <2>3. QED BY <1>2, <2>2 DEF Changed
<1>4. QED BY <1>1, <1>2, <1>3, TypeFacts, TypeClient

LEMMA SaveFacts ==
  ASSUME TInv, NEW c \in Clients, SaveClient(c)
  PROVE  /\ client' = [client EXCEPT ![c] = Idle] /\ file' = client[c].copy
         /\ over' \in Nat /\ over <= over' /\ (file # client[c].read => over' = over + 1)
         /\ tick' = tick /\ calls' = calls /\ now' = now /\ faults' = faults /\ cut' = cut
         /\ unread' = unread /\ runs' = runs
         /\ Idle \in Copies /\ Idle.read = Nothing /\ Idle.copy = Nothing
<1>1. Idle \in Copies /\ Idle.read = Nothing /\ Idle.copy = Nothing
  BY EmptyFits DEF Idle, Copies
<1>2. QED BY <1>1, TypeFacts DEF SaveClient, Save

LEMMA TypeSaveClient == ASSUME TInv, NEW c \in Clients, SaveClient(c) PROVE TInv'
<1>1. file' \in Files /\ Fits(file', runs, calls) /\ calls <= calls
  BY SaveFacts, TypeFacts
<1>2. QED BY <1>1, SaveFacts, TypeFacts, EmptyFits, TypeClient

LEMMA TypeInit == Init => TInv
<1> SUFFICES ASSUME Init PROVE TInv
  OBVIOUS
<1>1. PICK unset \in SUBSET Schedules :
        file = [s \in Schedules |-> IF s \in unset
                                    THEN [SetAt(s, Gone, TRUE, 0, 0) EXCEPT !.next = Unset]
                                    ELSE SetAt(s, Gone, TRUE, 0, 0)]
  BY DEF Init
<1>2. ASSUME NEW s \in Schedules
      PROVE  file[s] \in Schedule /\ ItemFits(s, file[s], runs, calls)
  <2> DEFINE x == SetAt(s, Gone, TRUE, 0, 0)
             y == [x EXCEPT !.next = Unset]
  <2>1. x \in Schedule /\ x.edit = 0 /\ x.run = NoRun
    <3>1. Gone \in Schedule \cup {Gone} /\ 0 \in 0 .. MaxCalls /\ 0 \in Nat /\ TRUE \in BOOLEAN
      BY Bounds
    <3> HIDE DEF x
    <3>2. x \in Schedule /\ x.edit = 0 /\ (x.run = NoRun \/ (Gone # Gone /\ x.run = Gone.run))
      BY ZenonT(40), <3>1, SetFacts DEF x
    <3>3. QED BY <3>2
  <2>2. y \in Schedule /\ y.edit = 0 /\ y.run = NoRun
    <3> HIDE DEF x
    <3>1. QED BY <2>1 DEF Schedule, Unset
  <2>3. file[s] = x \/ file[s] = y
    BY <1>1
  <2> HIDE DEF x, y
  <2>4. calls = 0
    BY DEF Init
  <2>5. QED BY <2>1, <2>2, <2>3, <2>4 DEF ItemFits
<1>3. file \in Files
  <2>1. file = [s \in Schedules |-> file[s]]
    BY <1>1
  <2>2. QED BY <1>2, <2>1 DEF Files
<1>4. tick \in Ticks /\ tick.read = Nothing /\ tick.copy = Nothing
      /\ tick.todo = {} /\ tick.at = "asleep"
  BY EmptyFits, Bounds DEF Init, Asleep, Ticks, NoItem
<1>5. Idle \in Copies /\ Idle.read = Nothing /\ Idle.copy = Nothing
  BY EmptyFits DEF Idle, Copies
<1>6. client \in [Clients -> Copies]
      /\ \A c \in Clients : client[c].read = Nothing /\ client[c].copy = Nothing
  BY <1>5 DEF Init
<1>7. runs \in Seq(Run) /\ DOMAIN runs = {}
  BY EmptySeq DEF Init
<1>8. Types
  BY <1>3, <1>4, <1>6, <1>7, Bounds DEF Init, Types
<1>9. Known
  BY <1>2, <1>4, <1>6, <1>7, EmptyFits DEF Known, Fits
<1>10. Chosen
  BY <1>4 DEF Chosen
<1>11. QED BY <1>8, <1>9, <1>10 DEF TInv

LEMMA TypeStep == TInv /\ [Next]_vars => TInv'
<1> SUFFICES ASSUME TInv, [Next]_vars PROVE TInv'
  OBVIOUS
<1>1. CASE UNCHANGED vars
  <2>1. /\ file' = file /\ tick' = tick /\ client' = client /\ now' = now /\ calls' = calls
        /\ faults' = faults /\ cut' = cut /\ unread' = unread /\ over' = over /\ runs' = runs
    BY <1>1 DEF vars, clientSide
  <2>2. QED BY <2>1, TypeFrame, TypeFacts, SameRuns
<1>2. CASE Wake \/ SaveTick \/ CrashTick
  BY <1>2, TypeWake, TypeSaveTick, TypeCrash
<1>3. ASSUME NEW s \in Schedules,
             Postpone(s) \/ Claim(s) \/ ClaimUnread(s) \/ Dispatch(s) \/ Skip(s)
             \/ DispatchFails(s) \/ DispatchRetries(s)
      PROVE  TInv'
  BY <1>3, TypePostpone, TypeClaim, TypeDispatch, TypeAttempts, TypeRows
<1>4. ASSUME NEW c \in Clients, List(c) \/ SaveClient(c) PROVE TInv'
  BY <1>4, ListFacts, TypeChanged, TypeSaveClient
<1>5. ASSUME NEW c \in Clients, NEW s \in Schedules, Set(c, s) \/ Delete(c, s) PROVE TInv'
  BY <1>5, SetDeleteFacts, TypeChanged
<1>6. CASE (\E flow \in Flows : StartRun(flow)) \/ (\E i \in DOMAIN runs, st \in Statuses : SaveRun(i, st)) \/ Pass
  BY <1>6, TypeRows, TypeWorld
<1>7. QED BY <1>1, <1>2, <1>3, <1>4, <1>5, <1>6 DEF Next

LEMMA Typed == Spec => []TInv
BY TypeInit, TypeStep, PTL DEF Spec

\* Every copy of the file is a file, only what is due is dispatched, and a
\* schedule names a run that it started itself (run_due, list, set, delete),
\* whatever is overwritten, retried or cut off.
THEOREM TypeCorrect == Spec => []TypeOK
<1>1. ASSUME TInv PROVE TypeOK
  <2>1. ASSUME NEW s \in Present(file)
        PROVE  file[s].run = NoRun \/ (file[s].run \in DOMAIN runs /\ runs[file[s].run].by = s)
    BY TypeFacts, <1>1 DEF Present, Fits, ItemFits
  <2>2. tick.at = "dispatch" => tick.item \in tick.todo /\ Due(tick.copy[tick.item], tick.now)
    BY <1>1 DEF TInv, Chosen
  <2>3. /\ tick.at \in {"asleep", "scan", "dispatch"} /\ \A s \in tick.todo : s \in Schedules
        /\ \A c \in Clients : client[c].at \in {"idle", "save"} /\ client[c].copy \in Files
    BY <1>1, TypeFacts DEF Ticks, Copies
  <2>4. cut \in 0 .. MaxFaults /\ unread \in 0 .. MaxFaults
    BY <1>1, TypeFacts, Bounds
  <2>5. \A i \in DOMAIN runs : runs[i] \in Run
    BY <1>1, TypeFacts
  <2>6. QED BY <1>1, <2>1, <2>2, <2>3, <2>4, <2>5, TypeFacts DEF TypeOK, Run
<1>2. QED BY <1>1, Typed, PTL

-----------------------------------------------------------------------------
(* Runs of one workflow that execute together are far apart.               *)

\* What the search does not show it need not have read: as many others were saved
\* no earlier.
LEMMA Missed ==
  ASSUME TInv, NEW flow, NEW R \in Newest, ~Busy(flow, R),
         NEW i \in DOMAIN runs, runs[i].flow = flow, Live(runs[i])
  PROVE  i \in Overlooked(flow)
<1> DEFINE D == DOMAIN runs \ {i}
           K == {k \in D : runs[k].saved >= runs[i].saved}
<1>1. /\ Len(runs) \in Nat /\ DOMAIN runs = 1 .. Len(runs) /\ Recent \in Nat
      /\ \A k \in DOMAIN runs : runs[k].saved \in Nat
  BY TypeFacts, Bounds DEF Run
<1>2. IsFiniteSet(DOMAIN runs) /\ Cardinality(DOMAIN runs) = Len(runs)
  <2>1. 1 \in Int /\ Len(runs) \in Int
    BY <1>1
  <2>2. /\ IsFiniteSet(1 .. Len(runs))
        /\ Cardinality(1 .. Len(runs)) = IF 1 > Len(runs) THEN 0 ELSE Len(runs) - 1 + 1
    BY <2>1, FS_Interval
  <2>3. QED BY <1>1, <2>2
<1>3. IsFiniteSet(D) /\ Cardinality(D) = Len(runs) - 1
  BY <1>2, FS_RemoveElement
<1>4. i \notin R /\ R \subseteq D
  BY DEF Busy, Newest
<1>5. Cardinality(R) <= Cardinality(D) /\ Cardinality(R) \in Nat
  BY <1>3, <1>4, FS_Subset, FS_CardinalityType
<1>6. Cardinality(R) = Recent
  <2>1. Cardinality(R) = IF Len(runs) < Recent THEN Len(runs) ELSE Recent
    BY DEF Newest
  <2>2. QED BY <1>1, <1>3, <1>5, <2>1
<1>7. R \subseteq K
  <2> SUFFICES ASSUME NEW k \in R PROVE k \in K
    OBVIOUS
  <2>1. runs[i].saved <= runs[k].saved
    BY <1>4 DEF Newest
  <2>2. k \in D /\ runs[i].saved \in Nat /\ runs[k].saved \in Nat
    BY <1>1, <1>4
  <2>3. QED BY <2>1, <2>2
<1>8. IsFiniteSet(K)
  BY <1>3, FS_Subset
<1>9. Cardinality(R) <= Cardinality(K) /\ Cardinality(K) \in Nat
  BY <1>7, <1>8, FS_Subset, FS_CardinalityType
<1>10. Cardinality(K) >= Recent
  BY <1>1, <1>5, <1>6, <1>9
<1>11. QED BY <1>10 DEF Overlooked

\* Nothing is overlooked in a ledger that the search reads as a whole.
LEMMA MissedInWide ==
  ASSUME TInv, NEW flow, Overlooked(flow) # {}
  PROVE  Recent < Len(runs)
<1>1. PICK i \in DOMAIN runs :
        Cardinality({k \in DOMAIN runs \ {i} : runs[k].saved >= runs[i].saved}) >= Recent
  BY DEF Overlooked
<1> DEFINE D == DOMAIN runs \ {i}
           K == {k \in D : runs[k].saved >= runs[i].saved}
<1>2. Len(runs) \in Nat /\ DOMAIN runs = 1 .. Len(runs) /\ Recent \in Nat
  BY TypeFacts, Bounds
<1>3. IsFiniteSet(DOMAIN runs) /\ Cardinality(DOMAIN runs) = Len(runs)
  <2>1. 1 \in Int /\ Len(runs) \in Int
    BY <1>2
  <2>2. /\ IsFiniteSet(1 .. Len(runs))
        /\ Cardinality(1 .. Len(runs)) = IF 1 > Len(runs) THEN 0 ELSE Len(runs) - 1 + 1
    BY <2>1, FS_Interval
  <2>3. QED BY <1>2, <2>2
<1>4. IsFiniteSet(D) /\ Cardinality(D) = Len(runs) - 1
  BY <1>3, FS_RemoveElement
<1>5. K \subseteq D
  OBVIOUS
<1>6. Cardinality(K) <= Cardinality(D) /\ Cardinality(K) \in Nat
  BY <1>4, <1>5, FS_Subset, FS_CardinalityType
<1>7. Cardinality(K) >= Recent
  BY <1>1
<1> HIDE DEF K, D
<1>8. QED BY <1>2, <1>4, <1>6, <1>7

\* What an action that neither starts a run nor clears a dispatch has to show.
LEMMA ApartFrame ==
  ASSUME WInv, unread' \in Nat, unread <= unread',
         /\ tick'.at = "dispatch" => tick.at = "dispatch" /\ tick'.item = tick.item
                                     /\ tick'.missed = tick.missed
         /\ tick'.missed \in {tick.missed, {}},
         Len(runs) <= Len(runs'), Len(runs') \in Nat,
         \A i \in DOMAIN runs' :
           runs'[i].missed # {} => Recent < Len(runs),
         \A i \in DOMAIN runs' :
           Live(runs'[i]) /\ runs'[i].threaded /\ runs'[i].by # Person =>
             /\ i \in DOMAIN runs /\ Rival(runs[i], runs'[i].flow)
             /\ runs[i].flow = runs'[i].flow /\ runs'[i].missed = runs[i].missed
  PROVE  Apart' /\ Clear' /\ Wide'
<1>0. TInv /\ unread \in Nat /\ Len(runs) \in Nat /\ Recent \in Nat
  BY TypeFacts, Bounds DEF WInv
<1>1. unread' = 0 => unread = 0
  BY <1>0
<1>2. \A flow : \A i \in DOMAIN runs' : Rival(runs'[i], flow) => i \in DOMAIN runs /\ Rival(runs[i], flow)
  BY DEF Rival
<1>3. Apart'
  <2> SUFFICES ASSUME unread' = 0, NEW i \in DOMAIN runs', NEW j \in DOMAIN runs', i < j,
                      Rival(runs'[i], runs'[j].flow), Rival(runs'[j], runs'[j].flow)
               PROVE  i \in runs'[j].missed
    BY DEF Apart
  <2>1. /\ i \in DOMAIN runs /\ j \in DOMAIN runs /\ runs[j].flow = runs'[j].flow
        /\ runs'[j].missed = runs[j].missed
    BY <1>2 DEF Rival
  <2>2. Rival(runs[i], runs[j].flow) /\ Rival(runs[j], runs[j].flow)
    BY <1>2, <2>1
  <2>3. QED BY <1>1, <2>1, <2>2 DEF WInv, Apart
<1>4. Clear'
  <2> SUFFICES ASSUME unread' = 0, tick'.at = "dispatch", NEW i \in DOMAIN runs',
                      Rival(runs'[i], Flow[tick'.item])
               PROVE  i \in tick'.missed
    BY DEF Clear
  <2>1. i \in DOMAIN runs /\ Rival(runs[i], Flow[tick.item]) /\ tick.at = "dispatch"
        /\ tick'.missed = tick.missed
    BY <1>2
  <2>2. QED BY <1>1, <2>1 DEF WInv, Clear
<1>5. Wide'
  BY <1>0 DEF WInv, Wide
<1>6. QED BY <1>3, <1>4, <1>5

\* ... when the ledger is left alone.
LEMMA ApartSameRuns ==
  ASSUME WInv, unread' = unread, runs' = runs,
         \/ tick' = tick
         \/ tick'.at # "dispatch" /\ tick'.missed = {}
  PROVE  Apart' /\ Clear' /\ Wide'
<1>1. TInv
  BY DEF WInv
<1>2. unread' \in Nat /\ unread <= unread' /\ Len(runs) <= Len(runs') /\ Len(runs') \in Nat
  BY <1>1, TypeFacts
<1>3. \A i \in DOMAIN runs' :
        Live(runs'[i]) /\ runs'[i].threaded /\ runs'[i].by # Person =>
          /\ i \in DOMAIN runs /\ Rival(runs[i], runs'[i].flow)
          /\ runs[i].flow = runs'[i].flow /\ runs'[i].missed = runs[i].missed
  BY DEF Rival
<1>4. \A i \in DOMAIN runs' : runs'[i].missed # {} => Recent < Len(runs)
  BY DEF WInv, Wide
<1>5. QED BY <1>2, <1>3, <1>4, ApartFrame

LEMMA ApartRow ==
  ASSUME WInv, NEW r \in Run, r.edit <= calls, ~r.threaded \/ r.by = Person,
         r.missed \in {tick.missed, {}},
         runs' = Append(runs, r), unread' = unread, tick' = tick
  PROVE  Apart' /\ Clear' /\ Wide'
<1>1. TInv /\ Types /\ Known
  BY DEF WInv, TInv
<1>2. /\ Len(runs) \in Nat /\ Len(runs') = Len(runs) + 1 /\ DOMAIN runs' = 1 .. (Len(runs) + 1)
      /\ \A i \in DOMAIN runs : i \in DOMAIN runs' /\ runs'[i] = runs[i]
      /\ runs'[Len(runs) + 1] = r
      /\ \A i \in DOMAIN runs' : i \in DOMAIN runs \/ i = Len(runs) + 1
  BY <1>1, Appended
<1>3. unread' \in Nat /\ unread <= unread' /\ Len(runs) <= Len(runs') /\ Len(runs') \in Nat
  BY <1>1, <1>2, TypeFacts
<1>4. \A i \in DOMAIN runs' :
        Live(runs'[i]) /\ runs'[i].threaded /\ runs'[i].by # Person =>
          /\ i \in DOMAIN runs /\ Rival(runs[i], runs'[i].flow)
          /\ runs[i].flow = runs'[i].flow /\ runs'[i].missed = runs[i].missed
  BY <1>2 DEF Rival
<1>5. \A i \in DOMAIN runs' : runs'[i].missed # {} => Recent < Len(runs)
  BY <1>2 DEF WInv, Wide
<1>6. QED BY <1>3, <1>4, <1>5, ApartFrame

LEMMA ApartDispatch ==
  ASSUME WInv, NEW s \in Schedules, Dispatch(s) PROVE Apart' /\ Clear' /\ Wide'
<1>1. TInv /\ Types /\ Known
  BY DEF WInv, TInv
<1> DEFINE r == NewRun(Flow[s], s, tick.copy[s].next, tick.copy[s].edit, TRUE, tick.missed)
           n == Len(runs) + 1
<1>2. tick.at = "dispatch" /\ s = tick.item /\ s \in tick.todo /\ runs' = Append(runs, r)
      /\ unread' = unread
  BY <1>1 DEF Dispatch, TInv, Chosen
<1>3. r \in Run /\ r.edit <= calls /\ r.flow = Flow[s] /\ r.missed = tick.missed
  BY <1>1, <1>2, RowFacts DEF NewRun
<1> HIDE DEF r
<1>4. /\ Len(runs) \in Nat /\ Len(runs') = n /\ DOMAIN runs' = 1 .. n
      /\ \A i \in DOMAIN runs : i \in DOMAIN runs' /\ runs'[i] = runs[i]
      /\ runs'[n] = r
      /\ \A i \in DOMAIN runs' : i \in DOMAIN runs \/ i = n
  BY <1>1, <1>2, <1>3, Appended
<1>5. tick'.at = "scan" /\ tick'.missed = {}
  BY <1>1, TypeFacts DEF Dispatch, Dispatched, Scanned, Ticks
<1>6. Clear'
  BY <1>5 DEF Clear
<1>7. Apart'
  <2> SUFFICES ASSUME unread' = 0, NEW i \in DOMAIN runs', NEW j \in DOMAIN runs', i < j,
                      Rival(runs'[i], runs'[j].flow), Rival(runs'[j], runs'[j].flow)
               PROVE  i \in runs'[j].missed
    BY DEF Apart
  <2>1. i # n
    BY <1>4
  <2>2. i \in DOMAIN runs /\ runs'[i] = runs[i]
    BY <1>4, <2>1
  <2>3. CASE j = n
    <3>1. Rival(runs[i], Flow[tick.item])
      BY <1>2, <1>3, <1>4, <2>2, <2>3
    <3>2. i \in tick.missed
      BY <1>2, <2>2, <3>1 DEF WInv, Clear
    <3>3. QED BY <1>3, <1>4, <2>3, <3>2
  <2>4. CASE j # n
    <3>1. j \in DOMAIN runs /\ runs'[j] = runs[j]
      BY <1>4, <2>4
    <3>2. QED BY <1>2, <2>2, <3>1 DEF WInv, Apart
  <2>5. QED BY <2>3, <2>4
<1>8. Wide'
  <2>1. \A j \in DOMAIN runs' : runs'[j].missed # {} => Recent < Len(runs)
    BY <1>3, <1>4 DEF WInv, Wide
  <2>2. Recent < Len(runs) => Recent < Len(runs')
    BY <1>4, Bounds
  <2>3. QED BY <1>5, <2>1, <2>2 DEF Wide
<1>9. QED BY <1>6, <1>7, <1>8

\* A dispatch is cleared: nothing that the busy check sees is in its way.
LEMMA ApartClaim ==
  ASSUME WInv, NEW s \in Schedules, Claim(s) \/ ClaimUnread(s) PROVE Apart' /\ Clear' /\ Wide'
<1>1. TInv
  BY DEF WInv
<1>2. /\ tick'.item = s /\ runs' = runs /\ unread' \in Nat /\ unread <= unread'
      /\ tick'.missed \in {tick.missed, Overlooked(Flow[s])}
      /\ unread' = unread => /\ tick'.missed = Overlooked(Flow[s])
                             /\ \E R \in Newest : ~Busy(Flow[s], R)
  BY <1>1, ClaimFacts
<1>3. unread \in Nat
  BY <1>1, TypeFacts
<1>4. unread' = 0 => unread' = unread
  BY <1>2, <1>3
<1>5. Apart'
  BY <1>2, <1>4 DEF WInv, Apart
<1>6. ASSUME unread' = 0, NEW i \in DOMAIN runs, Rival(runs[i], Flow[s])
      PROVE  i \in tick'.missed
  <2>1. PICK R \in Newest : ~Busy(Flow[s], R)
    BY <1>2, <1>4, <1>6
  <2>2. i \in Overlooked(Flow[s])
    BY <1>1, <1>6, <2>1, Missed DEF Rival
  <2>3. QED BY <1>2, <1>4, <1>6, <2>2
<1>7. Clear'
  BY <1>2, <1>6 DEF Clear
<1>8. Wide'
  BY <1>1, <1>2, MissedInWide DEF WInv, Wide
<1>9. QED BY <1>5, <1>7, <1>8

LEMMA ApartSave ==
  ASSUME WInv, NEW i \in DOMAIN runs, NEW st \in Statuses, SaveRun(i, st)
  PROVE  Apart' /\ Clear' /\ Wide'
<1>1. TInv
  BY DEF WInv
<1>2. unread' \in Nat /\ unread <= unread' /\ Len(runs) <= Len(runs') /\ Len(runs') \in Nat
      /\ tick' = tick
  BY <1>1, TypeFacts, SaveRunFacts
<1>3. \A j \in DOMAIN runs' :
        Live(runs'[j]) /\ runs'[j].threaded /\ runs'[j].by # Person =>
          /\ j \in DOMAIN runs /\ Rival(runs[j], runs'[j].flow)
          /\ runs[j].flow = runs'[j].flow /\ runs'[j].missed = runs[j].missed
  BY <1>1, SaveRunFacts DEF Rival
<1>4. \A j \in DOMAIN runs' : runs'[j].missed # {} => Recent < Len(runs)
  BY <1>1, SaveRunFacts DEF WInv, Wide
<1>5. QED BY <1>2, <1>3, <1>4, ApartFrame

LEMMA ApartStep == WInv /\ [Next]_vars => WInv'
<1> SUFFICES ASSUME WInv, [Next]_vars PROVE Apart' /\ Clear' /\ Wide'
  BY TypeStep DEF WInv
<1>0. TInv
  BY DEF WInv
<1>1. CASE UNCHANGED vars
  BY <1>1, ApartSameRuns DEF vars
<1>2. CASE Wake \/ SaveTick \/ CrashTick
  <2>1. tick'.at # "dispatch" /\ tick'.missed = {} /\ unread' = unread /\ runs' = runs
    BY <1>2 DEF Wake, SaveTick, CrashTick, Asleep
  <2>2. QED BY <2>1, ApartSameRuns
<1>3. ASSUME NEW s \in Schedules, Postpone(s) \/ Skip(s) \/ DispatchFails(s)
      PROVE  Apart' /\ Clear' /\ Wide'
  <2>1. tick'.at # "dispatch" /\ tick'.missed = {}
    <3>1. PICK item, ch : tick' = Scanned(s, item, ch)
      BY <1>3 DEF Postpone, Skip, DispatchFails, Postponed, Dispatched
    <3>2. tick'.at = "scan" /\ tick'.missed = {}
      BY <1>0, <3>1, TypeFacts DEF Scanned, Ticks
    <3>3. QED BY <3>2
  <2>2. unread' = unread /\ runs' = runs
    BY <1>3 DEF Postpone, Skip, DispatchFails
  <2>3. QED BY <2>1, <2>2, ApartSameRuns
<1>4. ASSUME NEW s \in Schedules, Claim(s) \/ ClaimUnread(s) \/ Dispatch(s)
      PROVE  Apart' /\ Clear' /\ Wide'
  BY <1>4, ApartClaim, ApartDispatch
<1>5. ASSUME NEW s \in Schedules, DispatchRetries(s) PROVE Apart' /\ Clear' /\ Wide'
  <2> DEFINE r == NewRun(Flow[s], s, tick.copy[s].next, tick.copy[s].edit, FALSE, tick.missed)
  <2>1. s \in tick.todo /\ runs' = Append(runs, r) /\ unread' = unread /\ tick' = tick
    BY <1>0, <1>5 DEF DispatchRetries, TInv, Chosen
  <2>2. r \in Run /\ r.edit <= calls /\ ~r.threaded /\ r.missed = tick.missed
    BY <1>0, <2>1, RowFacts DEF NewRun
  <2> HIDE DEF r
  <2>3. QED BY <2>1, <2>2, ApartRow
<1>6. ASSUME NEW flow \in Flows, StartRun(flow) PROVE Apart' /\ Clear' /\ Wide'
  <2> DEFINE r == NewRun(flow, Person, 0, 0, TRUE, {})
  <2>1. runs' = Append(runs, r) /\ unread' = unread /\ tick' = tick
    BY <1>6 DEF StartRun
  <2>2. r \in Run /\ r.edit <= calls /\ r.by = Person /\ r.missed = {}
    BY <1>0, TypeFacts, Bounds DEF Run, NewRun, Statuses
  <2> HIDE DEF r
  <2>3. QED BY <2>1, <2>2, ApartRow
<1>7. ASSUME NEW i \in DOMAIN runs, NEW st \in Statuses, SaveRun(i, st)
      PROVE  Apart' /\ Clear' /\ Wide'
  BY <1>7, ApartSave
<1>8. CASE Pass \/ (\E c \in Clients : List(c) \/ SaveClient(c))
           \/ (\E c \in Clients, s \in Schedules : Set(c, s) \/ Delete(c, s))
  <2>1. tick' = tick /\ unread' = unread /\ runs' = runs
    BY <1>8 DEF Pass, List, SaveClient, Set, Delete
  <2>2. QED BY <2>1, ApartSameRuns
<1>9. QED BY <1>1, <1>2, <1>3, <1>4, <1>5, <1>6, <1>7, <1>8 DEF Next

LEMMA ApartInit == Init => WInv
<1>1. Init => Apart /\ Clear /\ Wide
  BY EmptySeq DEF Init, Apart, Clear, Wide, Asleep
<1>2. QED BY <1>1, TypeInit DEF WInv

\* Of two scheduled runs of one workflow that execute together, the search before
\* the dispatch of the younger one did not have to read the older one, since as
\* many others as it reads were saved no earlier, as long as the ledger answered
\* every search (busy_run_in, list_runs), whatever is overwritten, retried or cut
\* off, for any ledger and any number of runs that the search reads.
THEOREM OnlyOverlookedOverlap == Spec => []NoOverlap
<1>1. WInv => NoOverlap
  BY DEF WInv, Apart, NoOverlap, Rival
<1>2. QED BY <1>1, ApartInit, ApartStep, PTL DEF Spec

\* So no two of them execute together while the search reads the whole ledger
\* (run_due).
THEOREM NoOverlapInSight ==
  Spec => [](unread = 0 /\ Len(runs) <= Recent =>
               \A i, j \in DOMAIN runs :
                 Rival(runs[i], runs[j].flow) /\ Rival(runs[j], runs[j].flow) => i = j)
<1>1. ASSUME WInv, unread = 0, Len(runs) <= Recent,
             NEW i \in DOMAIN runs, NEW j \in DOMAIN runs,
             Rival(runs[i], runs[j].flow), Rival(runs[j], runs[j].flow)
      PROVE  i = j
  <2>1. TInv
    BY <1>1 DEF WInv
  <2>2. i \in Nat /\ j \in Nat /\ Len(runs) \in Nat /\ Recent \in Nat
    BY <2>1, TypeFacts, Bounds
  <2>3. \A k \in DOMAIN runs : runs[k].missed = {}
    BY <1>1, <2>2 DEF WInv, Wide
  <2>4. ~(i < j) /\ ~(j < i)
    BY <1>1, <2>3 DEF WInv, Apart, Rival
  <2>5. QED BY <2>2, <2>4
<1>2. WInv => (unread = 0 /\ Len(runs) <= Recent =>
                 \A i, j \in DOMAIN runs :
                   Rival(runs[i], runs[j].flow) /\ Rival(runs[j], runs[j].flow) => i = j)
  BY <1>1
<1>3. QED BY <1>2, ApartInit, ApartStep, PTL DEF Spec

-----------------------------------------------------------------------------
(* Further executions of an occurrence are paid by losses.                 *)

\* Who is open after a change was open before it.
LEMMA OpenBefore ==
  ASSUME NEW x, NEW y \in Schedule \cup {Gone}, x = Gone \/ x \in Schedule, Later(x, y),
         NEW d \in Nat, NEW e, Open(y, d, e)
  PROVE  Open(x, d, e)
<1>1. y # Gone /\ x # Gone /\ y.edit = x.edit /\ y.edit = e
      /\ (x.next = Unset \/ (y.next # Unset /\ x.next <= y.next))
      /\ (y.next = Unset \/ y.next <= d)
  BY DEF Open, Later
<1>2. x \in Schedule /\ y \in Schedule
  BY <1>1
<1>3. x.next \in Nat /\ y.next \in Nat
  BY <1>2 DEF Schedule
<1>4. QED BY <1>1, <1>3 DEF Open

LEMMA ExecutionsFinite ==
  ASSUME TInv, NEW s, NEW d, NEW e
  PROVE  /\ IsFiniteSet(Executions(s, d, e)) /\ Cardinality(Executions(s, d, e)) \in Nat
         /\ \A n, m \in Nat : n <= m /\ Within(s, d, e, n) => Within(s, d, e, m)
<1>1. IsFiniteSet(1 .. Len(runs)) /\ Executions(s, d, e) \subseteq 1 .. Len(runs)
  BY TypeFacts, FS_Interval DEF Executions
<1>2. IsFiniteSet(Executions(s, d, e)) /\ Cardinality(Executions(s, d, e)) \in Nat
  BY <1>1, FS_Subset, FS_CardinalityType
<1>3. QED BY <1>2 DEF Within

LEMMA PaidFacts ==
  ASSUME OInv
  PROVE  /\ TInv /\ Losses \in Nat /\ 1 + Losses \in Nat
         /\ \A d \in 0 .. MaxTime : d \in Nat
         /\ \A s \in Schedules : /\ file[s] \in Schedule \cup {Gone}
                                 /\ tick.read[s] \in Schedule \cup {Gone}
                                 /\ tick.copy[s] \in Schedule \cup {Gone}
<1>1. TInv
  BY DEF OInv
<1>2. cut \in Nat /\ over \in Nat
  BY <1>1, TypeFacts
<1>3. QED BY <1>1, <1>2, TypeFacts, Bounds, ItemFacts DEF Losses

\* What an action that executes nothing has to show of the occurrences: what is
\* owed was owed, or there is a new loss, or it was never executed.
LEMMA PaidFrame ==
  ASSUME OInv, Losses' \in Nat, Losses <= Losses',
         \A s \in Schedules, d \in 0 .. MaxTime, e \in 0 .. MaxCalls :
           Executions(s, d, e)' = Executions(s, d, e),
         \A s \in Schedules, d \in 0 .. MaxTime, e \in 0 .. MaxCalls :
           Owed(s, d, e)' => \/ Owed(s, d, e) \/ Losses < Losses'
                             \/ Executions(s, d, e) = {}
  PROVE  Paid'
<1> SUFFICES ASSUME NEW s \in Schedules, NEW d \in 0 .. MaxTime, NEW e \in 0 .. MaxCalls
             PROVE  Within(s, d, e, 1 + Losses)' /\ (Owed(s, d, e)' => Within(s, d, e, Losses)')
  BY DEF Paid
<1> DEFINE n == Cardinality(Executions(s, d, e))
<1>1. TInv /\ Losses \in Nat
  BY PaidFacts
<1>2. n \in Nat
  BY <1>1, ExecutionsFinite
<1>3. n <= 1 + Losses /\ (Owed(s, d, e) => n <= Losses)
  BY DEF OInv, Paid, Within
<1>4. Cardinality(Executions(s, d, e))' = n
  <2>1. Executions(s, d, e)' = Executions(s, d, e)
    OBVIOUS
  <2>2. QED BY <2>1
<1>5. Executions(s, d, e) = {} => n = 0
  BY FS_EmptySet
<1>6. Owed(s, d, e)' => Owed(s, d, e) \/ Losses < Losses' \/ n = 0
  BY <1>5
<1> HIDE DEF n
<1>7. Losses' \in Nat /\ Losses <= Losses'
  OBVIOUS
<1>8. n <= 1 + Losses'
  <2>1. n \in Nat /\ Losses \in Nat /\ Losses' \in Nat /\ n <= 1 + Losses /\ Losses <= Losses'
    BY ONLY <1>1, <1>2, <1>3, <1>7
  <2>2. \A k, l, m \in Nat : k <= 1 + l /\ l <= m => k <= 1 + m
    OBVIOUS
  <2>3. QED BY ONLY <2>1, <2>2, Zenon
<1>9. Owed(s, d, e)' => n <= Losses'
  BY ONLY <1>1, <1>2, <1>3, <1>6, <1>7
<1>10. QED BY <1>4, <1>8, <1>9 DEF Within

\* The rows of an action that executes nothing.
LEMMA SameExecutions ==
  ASSUME TInv, NEW r \in Run, r.edit <= calls, ~r.threaded \/ r.by = Person,
         runs' = Append(runs, r)
  PROVE  \A d, e : \A s \in Schedules : Executions(s, d, e)' = Executions(s, d, e)
<1>1. /\ \A i \in DOMAIN runs : i \in DOMAIN runs' /\ runs'[i] = runs[i]
      /\ runs'[Len(runs) + 1] = r
      /\ \A i \in DOMAIN runs' : i \in DOMAIN runs \/ i = Len(runs) + 1
  BY Appended DEF TInv
<1>2. \A s \in Schedules : s # Person
  BY Bounds DEF Person
<1>3. QED BY <1>1, <1>2 DEF Executions

\* The tick is done with s; what is owed was owed.
LEMMA OwedScanned ==
  ASSUME OInv, NEW s \in tick.todo, NEW item \in Schedule, NEW ch \in BOOLEAN,
         tick' = Scanned(s, item, ch), Later(tick.copy[s], item), file' = file,
         NEW o \in Schedules, NEW d \in 0 .. MaxTime, NEW e, Owed(o, d, e)'
  PROVE  Owed(o, d, e)
<1>1. TInv /\ Types /\ s \in Schedules /\ d \in Nat
  BY PaidFacts, DueFacts DEF TInv
<1>2. /\ tick'.read = tick.read /\ tick'.copy[s] = item
      /\ \A p \in Schedules : p # s => tick'.copy[p] = tick.copy[p]
  BY <1>1, ScannedFacts
<1>3. tick.copy[s] \in Schedule
  BY <1>1, DueFacts
<1>4. Open(tick'.copy[o], d, e) => Open(tick.copy[o], d, e)
  <2>1. CASE o = s
    <3>1. tick'.copy[o] = item /\ tick.copy[o] = tick.copy[s]
      BY <1>2, <2>1
    <3>2. QED BY <1>1, <1>3, <3>1, OpenBefore
  <2>2. CASE o # s
    BY <1>2, <2>2
  <2>3. QED BY <2>1, <2>2
<1>5. QED BY <1>2, <1>4 DEF Owed

\* ... and the copy is still ahead of the file it was read from.
LEMMA AdvancesScanned ==
  ASSUME OInv, NEW s \in tick.todo, NEW item \in Schedule, NEW ch \in BOOLEAN,
         tick' = Scanned(s, item, ch), Later(tick.copy[s], item),
         ch \/ item = tick.copy[s]
  PROVE  Advances'
<1>1. TInv /\ Types /\ s \in Schedules /\ Advances
  BY DueFacts DEF OInv, TInv
<1>2. /\ tick'.at = "scan" /\ tick'.read = tick.read
      /\ tick'.copy = [tick.copy EXCEPT ![s] = item] /\ tick'.copy[s] = item
      /\ \A p \in Schedules : p # s => tick'.copy[p] = tick.copy[p]
      /\ tick'.changed = (tick.changed \/ ch)
  BY <1>1, ScannedFacts
<1>3. tick'.changed \/ tick'.copy = tick'.read
  <2>1. CASE ch \/ tick.changed
    BY <1>2, <2>1
  <2>2. CASE ~ch /\ ~tick.changed
    <3>1. item = tick.copy[s] /\ tick.copy = tick.read
      BY <1>1, <2>2 DEF Advances
    <3>2. [tick.copy EXCEPT ![s] = item] = tick.copy
      BY <1>1, <3>1, TypeFacts DEF Files
    <3>3. QED BY <1>2, <3>1, <3>2
  <2>3. QED BY <2>1, <2>2
<1>4. ASSUME NEW o \in Schedules PROVE Later(tick.read[o], tick'.copy[o])
  <2>1. Later(tick.read[o], tick.copy[o])
    BY <1>1 DEF Advances
  <2>2. CASE o = s
    <3> DEFINE x == tick.read[s]
               y == tick.copy[s]
    <3>1. y \in Schedule /\ Later(x, y) /\ (x = Gone \/ x \in Schedule)
      BY <1>1, <2>1, <2>2, DueFacts, PaidFacts
    <3>2. Later(y, item)
      OBVIOUS
    <3> HIDE DEF x, y
    <3>3. y # Gone /\ x # Gone /\ y.edit = x.edit /\ x \in Schedule
          /\ (x.next = Unset \/ (y.next # Unset /\ x.next <= y.next))
      BY <3>1, ItemFacts DEF Later
    <3>4. item # Gone /\ item.edit = y.edit
          /\ (y.next = Unset \/ (item.next # Unset /\ y.next <= item.next))
      BY <3>2, ItemFacts DEF Later
    <3>5. x.next \in Nat /\ y.next \in Nat /\ item.next \in Nat
      BY <3>1, <3>3 DEF Schedule
    <3>6. Later(x, item)
      BY <3>3, <3>4, <3>5 DEF Later
    <3>7. QED BY <1>2, <2>2, <3>6 DEF x
  <2>3. CASE o # s
    BY <1>2, <2>1, <2>3
  <2>4. QED BY <2>2, <2>3
<1>5. QED BY <1>2, <1>3, <1>4 DEF Advances

\* Edits that nobody but one client has heard of stay so when the clients do
\* nothing and nobody hears of another edit.
LEMMA EditedFrame ==
  ASSUME OInv, client' = client,
         \A e : \A s \in Schedules : Heard(s, e)' => Heard(s, e)
  PROVE  Edited'
<1> SUFFICES ASSUME NEW c \in Clients, NEW s \in Schedules
             PROVE  \/ Later(client[c].read[s], client[c].copy[s])
                    \/ /\ ~Heard(s, client[c].copy[s].edit)'
                       /\ Private(c, s, client[c].copy[s].edit)'
  BY DEF Edited
<1> DEFINE e == client[c].copy[s].edit
<1>1. CASE Later(client[c].read[s], client[c].copy[s])
  BY <1>1
<1>2. CASE ~Heard(s, e) /\ Private(c, s, e)
  <2>1. ~Heard(s, e)'
    BY <1>2
  <2>2. Private(c, s, e)'
    BY <1>2 DEF Private
  <2>3. QED BY <2>1, <2>2
<1>3. QED BY <1>1, <1>2 DEF OInv, Edited

\* The tick's own entries are edits it has read.
LEMMA HeardScanned ==
  ASSUME OInv, NEW s \in tick.todo, NEW item \in Schedule, NEW ch \in BOOLEAN,
         tick' = Scanned(s, item, ch), item.edit = tick.copy[s].edit, file' = file,
         \A e : \A o \in Schedules :
           (\E i \in DOMAIN runs' : runs'[i].by = o /\ runs'[i].edit = e)
             => Heard(o, e)
  PROVE  \A e : \A o \in Schedules : Heard(o, e)' => Heard(o, e)
<1>1. TInv /\ Types /\ s \in Schedules
  BY PaidFacts, DueFacts DEF TInv
<1>2. /\ tick'.read = tick.read /\ tick'.copy[s] = item
      /\ \A p \in Schedules : p # s => tick'.copy[p] = tick.copy[p]
  BY <1>1, ScannedFacts
<1>3. tick.copy[s] # Gone
  BY <1>1 DEF TInv, Chosen
<1>4. ASSUME NEW o \in Schedules, NEW e, Heard(o, e)' PROVE Heard(o, e)
  <2>1. CASE Has(tick'.copy, o, e)
    <3>1. Has(tick.copy, o, e)
      BY <1>2, <1>3, <2>1 DEF Has
    <3>2. QED BY <3>1 DEF Heard
  <2>2. CASE Has(file, o, e) \/ Has(tick.read, o, e)
    BY <2>2 DEF Heard
  <2>3. CASE \E i \in DOMAIN runs' : runs'[i].by = o /\ runs'[i].edit = e
    BY <2>3
  <2>4. QED BY <1>2, <1>4, <2>1, <2>2, <2>3 DEF Heard
<1>5. QED BY <1>4

\* A scan that executes nothing.
LEMMA PaidScanned ==
  ASSUME OInv, NEW s \in tick.todo, NEW item \in Schedule, NEW ch \in BOOLEAN,
         tick' = Scanned(s, item, ch), Later(tick.copy[s], item),
         ch \/ item = tick.copy[s],
         file' = file, client' = client, runs' = runs, cut' = cut, over' = over
  PROVE  Advances' /\ Edited' /\ Paid'
<1>1. Advances'
  BY AdvancesScanned
<1>2. item.edit = tick.copy[s].edit
  BY ItemFacts DEF Later
<1>3. Edited'
  <2>1. \A e : \A o \in Schedules :
          (\E i \in DOMAIN runs' : runs'[i].by = o /\ runs'[i].edit = e) => Heard(o, e)
    BY DEF Heard
  <2>2. \A e : \A o \in Schedules : Heard(o, e)' => Heard(o, e)
    BY <1>2, <2>1, HeardScanned
  <2>3. QED BY <2>2, EditedFrame
<1>4. Paid'
  <2>1. \A o \in Schedules, d \in 0 .. MaxTime, e \in 0 .. MaxCalls :
          Owed(o, d, e)' => Owed(o, d, e)
    BY OwedScanned
  <2>2. Losses' \in Nat /\ Losses <= Losses'
    <3>1. Losses' = Losses /\ Losses \in Nat
      BY PaidFacts DEF Losses
    <3>2. QED BY <3>1
  <2>3. \A o \in Schedules, d \in 0 .. MaxTime, e \in 0 .. MaxCalls :
          Executions(o, d, e)' = Executions(o, d, e)
    BY DEF Executions
  <2>4. QED BY <2>1, <2>2, <2>3, PaidFrame
<1>5. QED BY <1>1, <1>3, <1>4

LEMMA PaidPostpone ==
  ASSUME OInv, NEW s \in Schedules, Postpone(s) PROVE Advances' /\ Edited' /\ Paid'
<1>0. TInv
  BY DEF OInv
<1>1. PICK noted \in {FALSE, tick.copy[s].postponed} : tick' = Postponed(s, noted)
  BY DEF Postpone
<1>2. /\ s \in tick.todo /\ file' = file /\ client' = client /\ runs' = runs
      /\ cut' = cut /\ over' = over
  BY DEF Postpone, IsNext, clientSide
<1> DEFINE x == tick.copy[s]
           item == [x EXCEPT !.postponed = TRUE]
<1>3. x \in Schedule
  BY <1>0, <1>2, DueFacts
<1>4. item \in Schedule /\ Later(x, item) /\ (x.postponed => item = x)
  BY <1>3, PostponedFacts
<1>5. PICK ch \in BOOLEAN : tick' = Scanned(s, item, ch) /\ (ch \/ x.postponed)
  <2>1. CASE noted = FALSE
    BY <1>1, <2>1 DEF Postponed
  <2>2. CASE noted = x.postponed /\ x.postponed = TRUE
    BY <1>1, <2>2 DEF Postponed
  <2>3. x.postponed \in BOOLEAN
    BY <1>3 DEF Schedule
  <2>4. QED BY <2>1, <2>2, <2>3
<1> HIDE DEF item
<1>6. QED BY <1>2, <1>4, <1>5, PaidScanned

LEMMA PaidAttempts ==
  ASSUME OInv, NEW s \in Schedules, Skip(s) \/ DispatchFails(s)
  PROVE  Advances' /\ Edited' /\ Paid'
<1>0. TInv
  BY DEF OInv
<1>1. s \in tick.todo
  BY <1>0 DEF Skip, DispatchFails, IsNext, TInv, Chosen
<1> DEFINE x == tick.copy[s]
           item == Attempted(x, s, tick.now, NoRun, "failed")
<1>2. /\ tick' = Scanned(s, item, TRUE) /\ file' = file /\ client' = client /\ runs' = runs
      /\ cut' = cut /\ over' = over
  BY DEF Skip, DispatchFails, Dispatched, Attempted, clientSide
<1>3. x \in Schedule /\ x.next \in 1 .. tick.now /\ tick.now \in Nat /\ NoRun \in Nat
  BY <1>0, <1>1, DueFacts, Bounds DEF NoRun
<1> HIDE DEF x
<1>4. item \in Schedule /\ Later(x, item)
  BY <1>3, DispatchedFacts
<1> HIDE DEF item
<1>5. QED BY <1>1, <1>2, <1>4, PaidScanned DEF x

\* A dispatch executes an occurrence that was owed, and the tick owes it no more.
LEMMA PaidDispatch ==
  ASSUME OInv, NEW s \in Schedules, Dispatch(s) PROVE Advances' /\ Edited' /\ Paid'
<1>0. TInv /\ Types /\ Known
  BY DEF OInv, TInv
<1> DEFINE x == tick.copy[s]
           r == NewRun(Flow[s], s, x.next, x.edit, TRUE, tick.missed)
           n == Len(runs) + 1
           item == Attempted(x, s, tick.now, n, "accepted")
<1>1. s \in tick.todo /\ runs' = Append(runs, r) /\ tick' = Dispatched(s, Len(runs'), "accepted")
      /\ file' = file /\ client' = client /\ cut' = cut /\ over' = over
  BY <1>0 DEF Dispatch, TInv, Chosen, clientSide
<1>2. x \in Schedule /\ x.next \in 1 .. tick.now /\ tick.now \in Nat
  BY <1>0, <1>1, DueFacts, Bounds
<1>3. /\ r \in Run /\ r.edit <= calls /\ r.by = s /\ r.threaded
      /\ r.due = x.next /\ r.edit = x.edit
  BY <1>0, <1>1, RowFacts DEF NewRun
<1> HIDE DEF x, r
<1>4. /\ Len(runs) \in Nat /\ Len(runs') = n /\ n \in Nat /\ DOMAIN runs = 1 .. Len(runs)
      /\ \A i \in DOMAIN runs : i \in DOMAIN runs' /\ runs'[i] = runs[i]
      /\ n \in DOMAIN runs' /\ runs'[n] = r
      /\ \A i \in DOMAIN runs' : i \in DOMAIN runs \/ i = n
  BY <1>0, <1>1, <1>3, Appended
<1>5. tick' = Scanned(s, item, TRUE)
  BY <1>1, <1>4 DEF Dispatched, Attempted, x
<1>6. /\ item \in Schedule /\ item.edit = x.edit /\ item.next \in Nat /\ item.next > tick.now
      /\ item.next # Unset /\ Later(x, item)
  BY <1>2, <1>4, DispatchedFacts
<1> HIDE DEF item
<1>7. x = tick.copy[s]
  BY DEF x
<1>8. Advances'
  BY <1>1, <1>5, <1>6, <1>7, AdvancesScanned
<1>9. Edited'
  <2>1. ASSUME NEW o \in Schedules, NEW e, NEW i \in DOMAIN runs',
               runs'[i].by = o, runs'[i].edit = e
        PROVE  Heard(o, e)
    <3>1. CASE i \in DOMAIN runs
      BY <1>4, <2>1, <3>1 DEF Heard
    <3>2. CASE i = n
      <4>1. o = s /\ e = x.edit /\ x # Gone
        BY <1>2, <1>3, <1>4, <2>1, <3>2, ItemFacts
      <4>2. QED BY <1>7, <4>1 DEF Heard, Has
    <3>3. QED BY <1>4, <3>1, <3>2
  <2>2. \A e : \A o \in Schedules : Heard(o, e)' => Heard(o, e)
    BY <1>1, <1>5, <1>6, <1>7, <2>1, HeardScanned
  <2>3. QED BY <1>1, <2>2, EditedFrame
<1>10. /\ tick'.read = tick.read /\ tick'.copy[s] = item
       /\ \A p \in Schedules : p # s => tick'.copy[p] = tick.copy[p]
  BY <1>0, <1>5, <1>6, ScannedFacts
<1>11. ASSUME NEW o \in Schedules, NEW d \in 0 .. MaxTime, NEW e \in 0 .. MaxCalls
       PROVE  Within(o, d, e, 1 + Losses)' /\ (Owed(o, d, e)' => Within(o, d, e, Losses)')
  <2> DEFINE E == Executions(o, d, e)
             N == Cardinality(E)
  <2>1. Losses' = Losses /\ Losses \in Nat
    BY <1>1, PaidFacts DEF Losses
  <2>2. IsFiniteSet(E) /\ N \in Nat
    BY <1>0, ExecutionsFinite
  <2>3. N <= 1 + Losses /\ (Owed(o, d, e) => N <= Losses)
    BY DEF OInv, Paid, Within
  <2>4. CASE ~(o = s /\ d = x.next /\ e = x.edit)
    <3>1. Executions(o, d, e)' = E
      BY <1>3, <1>4, <2>4 DEF Executions
    <3>2. Owed(o, d, e)' => Owed(o, d, e)
      BY <1>1, <1>5, <1>6, <1>7, OwedScanned
    <3>3. QED BY <2>1, <2>3, <3>1, <3>2 DEF Within
  <2>5. CASE o = s /\ d = x.next /\ e = x.edit
    <3>1. Executions(o, d, e)' = E \cup {n}
      BY <1>3, <1>4, <2>5 DEF Executions
    <3>2. n \notin E
      BY <1>4 DEF Executions
    <3>3. Cardinality(Executions(o, d, e)') = N + 1
      BY <2>2, <3>1, <3>2, FS_AddElement
    <3>4. Open(x, d, e)
      <4>1. x.next <= d /\ x # Gone
        BY <1>2, <2>5, ItemFacts
      <4>2. QED BY <2>5, <4>1 DEF Open
    <3>5. N <= Losses
      BY <1>7, <2>3, <2>5, <3>4 DEF Owed
    <3>6. ~Open(item, d, e)
      <4>1. ~(item.next <= d) /\ item.next # Unset
        BY <1>2, <1>6, <2>5
      <4>2. QED BY <4>1 DEF Open
    <3>7. Open(tick.read[s], d, e)
      <4>1. Later(tick.read[s], x)
        BY <1>7 DEF OInv, Advances
      <4>2. tick.read[s] = Gone \/ tick.read[s] \in Schedule
        BY PaidFacts
      <4>3. d \in Nat
        BY PaidFacts
      <4>4. QED BY <1>2, <3>4, <4>1, <4>2, <4>3, OpenBefore
    <3>8. ~Owed(o, d, e)'
      BY <1>10, <2>5, <3>6, <3>7 DEF Owed
    <3>9. N + 1 <= 1 + Losses
      <4> HIDE DEF N
      <4>1. QED BY <2>1, <2>2, <3>5
    <3>10. QED BY <2>1, <3>3, <3>8, <3>9 DEF Within
  <2>6. QED BY <2>4, <2>5
<1>12. Paid'
  BY <1>11 DEF Paid
<1>13. QED BY <1>8, <1>9, <1>12

\* What leaves the file, the copies and the entries of the ledger alone.
LEMMA PaidStill ==
  ASSUME OInv, file' = file, tick'.at # "asleep" \/ tick' = tick, tick'.read = tick.read,
         tick'.copy = tick.copy,
         tick'.changed = tick.changed, client' = client, cut' = cut, over' = over,
         \A d, e : \A s \in Schedules : Executions(s, d, e)' = Executions(s, d, e),
         \A e : \A s \in Schedules :
           (\E i \in DOMAIN runs' : runs'[i].by = s /\ runs'[i].edit = e) => Heard(s, e)
  PROVE  Advances' /\ Edited' /\ Paid'
<1>1. Advances'
  BY DEF OInv, Advances
<1>2. \A e : \A s \in Schedules : Heard(s, e)' => Heard(s, e)
  BY DEF Heard
<1>3. Edited'
  BY <1>2, EditedFrame
<1>4. Losses' \in Nat /\ Losses <= Losses'
  <2>1. Losses' = Losses /\ Losses \in Nat
    BY PaidFacts DEF Losses
  <2>2. QED BY <2>1
<1>5. \A s \in Schedules, d \in 0 .. MaxTime, e \in 0 .. MaxCalls :
        Owed(s, d, e)' => Owed(s, d, e)
  BY DEF Owed
<1>6. Paid'
  BY <1>4, <1>5, PaidFrame
<1>7. QED BY <1>1, <1>3, <1>6

LEMMA PaidRow ==
  ASSUME OInv, NEW r \in Run, r.edit <= calls, ~r.threaded \/ r.by = Person,
         r.by = Person \/ Heard(r.by, r.edit),
         runs' = Append(runs, r), file' = file, tick' = tick, client' = client,
         cut' = cut, over' = over
  PROVE  Advances' /\ Edited' /\ Paid'
<1>1. TInv /\ Types /\ Known
  BY DEF OInv, TInv
<1>2. \A d, e : \A s \in Schedules : Executions(s, d, e)' = Executions(s, d, e)
  BY <1>1, SameExecutions
<1>3. /\ \A i \in DOMAIN runs : runs'[i] = runs[i]
      /\ runs'[Len(runs) + 1] = r
      /\ \A i \in DOMAIN runs' : i \in DOMAIN runs \/ i = Len(runs) + 1
  BY <1>1, Appended
<1>4. \A s \in Schedules : s # Person
  BY Bounds DEF Person
<1>5. ASSUME NEW s \in Schedules, NEW e, NEW i \in DOMAIN runs',
             runs'[i].by = s, runs'[i].edit = e
      PROVE  Heard(s, e)
  <2>1. CASE i \in DOMAIN runs
    BY <1>3, <1>5, <2>1 DEF Heard
  <2>2. CASE i = Len(runs) + 1
    BY <1>3, <1>4, <1>5, <2>2
  <2>3. QED BY <1>3, <2>1, <2>2
<1>6. QED BY <1>2, <1>5, PaidStill

\* Claims, the end of a run, rows that nobody executes, and the clock.
LEMMA PaidQuiet ==
  ASSUME OInv,
         \/ \E s \in Schedules : Claim(s) \/ ClaimUnread(s) \/ DispatchRetries(s)
         \/ \E flow \in Flows : StartRun(flow)
         \/ \E i \in DOMAIN runs, st \in Statuses : SaveRun(i, st)
         \/ Pass \/ UNCHANGED vars
  PROVE  Advances' /\ Edited' /\ Paid'
<1>0. TInv
  BY DEF OInv
<1>1. ASSUME NEW s \in Schedules, Claim(s) \/ ClaimUnread(s) PROVE Advances' /\ Edited' /\ Paid'
  <2>1. /\ tick'.at # "asleep" /\ tick'.read = tick.read /\ tick'.copy = tick.copy
        /\ tick'.changed = tick.changed /\ file' = file /\ client' = client
        /\ cut' = cut /\ over' = over /\ runs' = runs
    BY <1>0, <1>1, ClaimFacts
  <2>2. \A d, e : \A o \in Schedules : Executions(o, d, e)' = Executions(o, d, e)
    BY <2>1 DEF Executions
  <2>3. \A e : \A o \in Schedules :
          (\E i \in DOMAIN runs' : runs'[i].by = o /\ runs'[i].edit = e) => Heard(o, e)
    BY <2>1 DEF Heard
  <2>4. QED BY <2>1, <2>2, <2>3, PaidStill
<1>2. ASSUME NEW s \in Schedules, DispatchRetries(s) PROVE Advances' /\ Edited' /\ Paid'
  <2> DEFINE r == NewRun(Flow[s], s, tick.copy[s].next, tick.copy[s].edit, FALSE, tick.missed)
  <2>1. /\ s \in tick.todo /\ runs' = Append(runs, r) /\ file' = file /\ tick' = tick
        /\ client' = client /\ cut' = cut /\ over' = over
    BY <1>0, <1>2 DEF DispatchRetries, TInv, Chosen, clientSide
  <2>2. r \in Run /\ r.edit <= calls /\ ~r.threaded /\ r.by = s /\ r.edit = tick.copy[s].edit
    BY <1>0, <2>1, RowFacts DEF NewRun
  <2>3. Heard(r.by, r.edit)
    BY <1>0, <2>1, <2>2 DEF TInv, Chosen, Heard, Has
  <2> HIDE DEF r
  <2>4. QED BY <2>1, <2>2, <2>3, PaidRow
<1>3. ASSUME NEW flow \in Flows, StartRun(flow) PROVE Advances' /\ Edited' /\ Paid'
  <2> DEFINE r == NewRun(flow, Person, 0, 0, TRUE, {})
  <2>1. /\ runs' = Append(runs, r) /\ file' = file /\ tick' = tick
        /\ client' = client /\ cut' = cut /\ over' = over
    BY <1>3 DEF StartRun, clientSide
  <2>2. r \in Run /\ r.edit <= calls /\ r.by = Person
    BY <1>0, TypeFacts, Bounds DEF Run, NewRun, Statuses
  <2> HIDE DEF r
  <2>3. QED BY <2>1, <2>2, PaidRow
<1>4. ASSUME NEW i \in DOMAIN runs, NEW st \in Statuses, SaveRun(i, st) PROVE Advances' /\ Edited' /\ Paid'
  <2>1. /\ DOMAIN runs' = DOMAIN runs
        /\ \A j \in DOMAIN runs : /\ runs'[j].by = runs[j].by /\ runs'[j].due = runs[j].due
                                  /\ runs'[j].edit = runs[j].edit
                                  /\ runs'[j].threaded = runs[j].threaded
        /\ file' = file /\ tick' = tick /\ client' = client /\ cut' = cut /\ over' = over
    BY <1>0, <1>4, SaveRunFacts
  <2>2. \A d, e : \A o \in Schedules : Executions(o, d, e)' = Executions(o, d, e)
    BY <2>1 DEF Executions
  <2>3. \A e : \A o \in Schedules :
          (\E j \in DOMAIN runs' : runs'[j].by = o /\ runs'[j].edit = e) => Heard(o, e)
    BY <2>1 DEF Heard
  <2>4. QED BY <2>1, <2>2, <2>3, PaidStill
<1>5. CASE Pass \/ UNCHANGED vars
  <2>1. /\ file' = file /\ tick' = tick /\ client' = client /\ cut' = cut /\ over' = over
        /\ runs' = runs
    BY <1>5 DEF Pass, vars, clientSide
  <2>2. \A d, e : \A o \in Schedules : Executions(o, d, e)' = Executions(o, d, e)
    BY <2>1 DEF Executions
  <2>3. \A e : \A o \in Schedules :
          (\E j \in DOMAIN runs' : runs'[j].by = o /\ runs'[j].edit = e) => Heard(o, e)
    BY <2>1 DEF Heard
  <2>4. QED BY <2>1, <2>2, <2>3, PaidStill
<1>6. QED BY <1>1, <1>2, <1>3, <1>4, <1>5

-----------------------------------------------------------------------------
(* The tick begins and ends; the clients.                                  *)

LEMMA NothingFacts ==
  \A s \in Schedules : /\ Nothing[s] = Gone /\ Later(Nothing[s], Nothing[s])
                       /\ \A d, e : ~Open(Nothing[s], d, e) /\ ~Has(Nothing, s, e)
BY DEF Nothing, Later, Open, Has

LEMMA PaidWake == ASSUME OInv, Wake PROVE Advances' /\ Edited' /\ Paid'
<1>0. TInv
  BY DEF OInv
<1> DEFINE copy == [s \in Schedules |-> Completed(s, now)]
           due  == {s \in Present(file) : Due(file[s], now)}
<1>1. /\ tick' = [at |-> "scan", now |-> now, read |-> file, copy |-> copy,
                  todo |-> due, item |-> NoItem, changed |-> copy # file, missed |-> {}]
      /\ tick.at = "asleep"
      /\ file' = file /\ client' = client /\ runs' = runs /\ cut' = cut /\ over' = over
  BY DEF Wake, clientSide
<1>2. \A s \in Schedules : copy[s] \in Schedule \cup {Gone} /\ Later(file[s], copy[s])
  BY <1>0, TypeFacts, CompletedFacts
<1> HIDE DEF copy, due
<1>3. /\ tick'.at = "scan" /\ tick'.read = file /\ tick'.copy = copy
      /\ tick'.changed = (copy # file)
  BY <1>1
<1>4. tick.read = Nothing
  BY <1>1 DEF OInv, Advances
<1>5. Advances'
  BY <1>1, <1>2, <1>3 DEF Advances
<1>6. Edited'
  <2>1. ASSUME NEW s \in Schedules, NEW e, Heard(s, e)' PROVE Heard(s, e)
    <3>1. Has(copy, s, e) => Has(file, s, e)
      BY <1>2 DEF Has, Later
    <3>2. QED BY <1>1, <1>3, <2>1, <3>1 DEF Heard
  <2>2. QED BY <1>1, <2>1, EditedFrame
<1>7. Paid'
  <2>1. ASSUME NEW s \in Schedules, NEW d \in 0 .. MaxTime, NEW e \in 0 .. MaxCalls,
               Owed(s, d, e)'
        PROVE  Owed(s, d, e)
    <3>1. file[s] = Gone \/ file[s] \in Schedule
      BY PaidFacts
    <3>2. Open(copy[s], d, e) => Open(file[s], d, e)
      BY <1>2, <3>1, PaidFacts, OpenBefore
    <3>3. Open(file[s], d, e)
      BY <1>1, <1>3, <2>1, <3>2 DEF Owed
    <3>4. ~Open(tick.read[s], d, e)
      BY <1>4, NothingFacts
    <3>5. QED BY <3>3, <3>4 DEF Owed
  <2>2. Losses' \in Nat /\ Losses <= Losses'
    <3>1. Losses' = Losses /\ Losses \in Nat
      BY <1>1, PaidFacts DEF Losses
    <3>2. QED BY <3>1
  <2>3. \A s \in Schedules, d \in 0 .. MaxTime, e \in 0 .. MaxCalls :
          Executions(s, d, e)' = Executions(s, d, e)
    BY <1>1 DEF Executions
  <2>4. QED BY <2>1, <2>2, <2>3, PaidFrame
<1>8. QED BY <1>5, <1>6, <1>7

LEMMA AdvancesAsleep == ASSUME TInv, tick' = Asleep PROVE Advances'
<1>1. tick'.read = Nothing /\ tick'.copy = Nothing
  BY AsleepFacts
<1>2. QED BY <1>1, NothingFacts DEF Advances

LEMMA PaidSaveTick == ASSUME OInv, SaveTick PROVE Advances' /\ Edited' /\ Paid'
<1>0. TInv
  BY DEF OInv
<1>1. /\ tick' = Asleep /\ client' = client /\ cut' = cut /\ runs' = runs
      /\ over' \in Nat /\ over <= over'
      /\ (tick.changed /\ file' = tick.copy) \/ (~tick.changed /\ file' = file)
  BY <1>0, SaveTickFacts
<1>2. tick'.read = Nothing /\ tick'.copy = Nothing
  BY <1>0, <1>1, AsleepFacts
<1>3. Advances'
  BY <1>0, <1>1, AdvancesAsleep
<1>4. Edited'
  <2>1. \A e : \A s \in Schedules : Heard(s, e)' => Heard(s, e)
    BY <1>1, <1>2, NothingFacts DEF Heard
  <2>2. QED BY <1>1, <2>1, EditedFrame
<1>5. Paid'
  <2>1. ASSUME NEW s \in Schedules, NEW d \in 0 .. MaxTime, NEW e \in 0 .. MaxCalls,
               Owed(s, d, e)'
        PROVE  Owed(s, d, e)
    <3>1. Open(file'[s], d, e)
      BY <1>2, <2>1, NothingFacts DEF Owed
    <3>2. CASE tick.changed
      BY <1>1, <3>1, <3>2 DEF Owed
    <3>3. CASE ~tick.changed
      BY <1>1, <3>1, <3>3 DEF OInv, Advances, Owed
    <3>4. QED BY <3>2, <3>3
  <2>2. Losses' \in Nat /\ Losses <= Losses'
    <3>1. cut \in Nat /\ over \in Nat
      BY <1>0, TypeFacts
    <3>2. \A k, m, n \in Nat : m <= n => k + n \in Nat /\ k + m <= k + n
      OBVIOUS
    <3>3. Losses = cut + over /\ Losses' = cut + over'
      BY <1>1 DEF Losses
    <3>4. QED BY <1>1, <3>1, <3>2, <3>3
  <2>3. \A s \in Schedules, d \in 0 .. MaxTime, e \in 0 .. MaxCalls :
          Executions(s, d, e)' = Executions(s, d, e)
    BY <1>1 DEF Executions
  <2>4. QED BY <2>1, <2>2, <2>3, PaidFrame
<1>6. QED BY <1>3, <1>4, <1>5

\* A crash is a loss, and pays for whatever the file still has open.
LEMMA PaidCrash == ASSUME OInv, CrashTick PROVE Advances' /\ Edited' /\ Paid'
<1>0. TInv
  BY DEF OInv
<1>1. /\ tick' = Asleep /\ client' = client /\ cut' = cut + 1 /\ runs' = runs
      /\ over' = over /\ file' = file
  BY DEF CrashTick, clientSide
<1>2. tick'.read = Nothing /\ tick'.copy = Nothing
  BY <1>0, <1>1, AsleepFacts
<1>3. Advances'
  BY <1>0, <1>1, AdvancesAsleep
<1>4. Edited'
  <2>1. \A e : \A s \in Schedules : Heard(s, e)' => Heard(s, e)
    BY <1>1, <1>2, NothingFacts DEF Heard
  <2>2. QED BY <1>1, <2>1, EditedFrame
<1>5. Paid'
  <2>1. Losses' \in Nat /\ Losses <= Losses' /\ Losses < Losses'
    <3>1. cut \in Nat /\ over \in Nat
      BY <1>0, TypeFacts
    <3>2. \A m, n \in Nat : (m + 1) + n \in Nat /\ m + n <= (m + 1) + n /\ m + n < (m + 1) + n
      OBVIOUS
    <3>3. Losses = cut + over /\ Losses' = (cut + 1) + over
      BY <1>1 DEF Losses
    <3>4. QED BY <3>1, <3>2, <3>3
  <2>2. \A s \in Schedules, d \in 0 .. MaxTime, e \in 0 .. MaxCalls :
          Executions(s, d, e)' = Executions(s, d, e)
    BY <1>1 DEF Executions
  <2>3. QED BY <2>1, <2>2, PaidFrame
<1>6. QED BY <1>3, <1>4, <1>5

\* An edit that is known carries the number of an earlier call.
LEMMA KnownEdits ==
  ASSUME TInv, NEW s \in Schedules
  PROVE  /\ ~Heard(s, calls + 1)
         /\ \A c \in Clients : /\ ~Has(client[c].read, s, calls + 1)
                               /\ ~Has(client[c].copy, s, calls + 1)
<1>1. calls \in Nat /\ ~(calls + 1 <= calls)
  BY TypeFacts
<1>2. \A f : Fits(f, runs, calls) => ~Has(f, s, calls + 1)
  BY <1>1 DEF Fits, ItemFits, Has
<1>3. \A i \in DOMAIN runs : runs[i].edit # calls + 1
  BY <1>1, TypeFacts
<1>4. QED BY <1>2, <1>3, TypeFacts DEF Heard

LEMMA PaidChanged ==
  ASSUME OInv, NEW c \in Clients, NEW copy, CallFrame, Changed(c, copy)
  PROVE  Advances' /\ Edited' /\ Paid'
<1>0. TInv
  BY DEF OInv
<1> DEFINE cl == [at |-> "save", read |-> file, copy |-> copy]
<1>1. cl.read = file /\ cl.copy = copy /\ client' = [client EXCEPT ![c] = cl]
  BY DEF Changed
<1> HIDE DEF cl
<1>2. client'[c] = cl /\ \A d \in Clients : d # c => client'[d] = client[d]
  BY <1>0, <1>1, TypeFacts
<1>3. /\ file' = file /\ tick' = tick /\ cut' = cut /\ over' = over /\ runs' = runs
      /\ \A s \in Schedules : Later(file[s], copy[s]) \/ copy[s].edit = calls + 1
  BY DEF CallFrame, Changed
<1> PICK k : k = calls + 1
  OBVIOUS
<1>4. Advances'
  BY <1>3 DEF OInv, Advances
<1>5. \A e : \A s \in Schedules : Heard(s, e)' <=> Heard(s, e)
  BY <1>3 DEF Heard
<1>6. Edited'
  <2> SUFFICES ASSUME NEW d \in Clients, NEW s \in Schedules
               PROVE  \/ Later(client'[d].read[s], client'[d].copy[s])
                      \/ \E e : /\ e = client'[d].copy[s].edit
                                /\ ~Heard(s, e)' /\ Private(d, s, e)'
    BY DEF Edited
  <2>1. CASE d = c
    <3>1. client'[d].read = file /\ client'[d].copy = copy
      BY <1>1, <1>2, <2>1
    <3>2. CASE copy[s].edit = k
      <4>1. ~Heard(s, k)'
        BY <1>0, <1>5, KnownEdits
      <4>2. ~Has(file, s, k)
        BY <1>0, KnownEdits DEF Heard
      <4>3. ASSUME NEW o \in Clients
            PROVE  ~Has(client'[o].read, s, k)
                   /\ (o # d => ~Has(client'[o].copy, s, k))
        BY <1>0, <1>2, <2>1, <3>1, <4>2, KnownEdits
      <4>4. Private(d, s, k)'
        BY <4>3 DEF Private
      <4>5. QED BY <3>1, <3>2, <4>1, <4>4
    <3>3. CASE Later(file[s], copy[s])
      BY <3>1, <3>3
    <3>4. QED BY <1>3, <3>2, <3>3
  <2>2. CASE d # c
    <3> PICK e : e = client[d].copy[s].edit
      OBVIOUS
    <3>1. client'[d] = client[d]
      BY <1>2, <2>2
    <3>2. CASE Later(client[d].read[s], client[d].copy[s])
      BY <3>1, <3>2
    <3>3. CASE client[d].copy[s] = Gone
      BY <3>1, <3>3 DEF Later
    <3>4. CASE /\ client[d].copy[s] # Gone
               /\ ~Heard(s, e) /\ Private(d, s, e)
      <4>1. e # k
        BY <1>0, <3>4, KnownEdits DEF Has
      <4>2. ~Has(file, s, e)
        BY <3>4 DEF Heard
      <4>3. ~Has(copy, s, e)
        BY <1>3, <4>1, <4>2 DEF Has, Later
      <4>4. ASSUME NEW o \in Clients
            PROVE  ~Has(client'[o].read, s, e) /\ (o # d => ~Has(client'[o].copy, s, e))
        <5>1. CASE o = c
          BY <1>1, <1>2, <4>2, <4>3, <5>1
        <5>2. CASE o # c
          BY <1>2, <3>4, <5>2 DEF Private
        <5>3. QED BY <5>1, <5>2
      <4>5. Private(d, s, e)'
        BY <3>1, <4>4 DEF Private
      <4>6. ~Heard(s, e)'
        BY <1>5, <3>4
      <4>7. QED BY <3>1, <4>5, <4>6
    <3>5. QED BY <3>2, <3>3, <3>4 DEF OInv, Edited
  <2>3. QED BY <2>1, <2>2
<1>7. Paid'
  <2>1. Losses' \in Nat /\ Losses <= Losses'
    <3>1. Losses' = Losses /\ Losses \in Nat
      BY <1>3, PaidFacts DEF Losses
    <3>2. QED BY <3>1
  <2>2. \A s \in Schedules, d \in 0 .. MaxTime, e \in 0 .. MaxCalls :
          Executions(s, d, e)' = Executions(s, d, e)
    BY <1>3 DEF Executions
  <2>3. \A s \in Schedules, d \in 0 .. MaxTime, e \in 0 .. MaxCalls :
          Owed(s, d, e)' => Owed(s, d, e)
    BY <1>3 DEF Owed
  <2>4. QED BY <2>1, <2>2, <2>3, PaidFrame
<1>8. QED BY <1>4, <1>6, <1>7

\* A client saves: over a newer file, which is a loss, or over the file it read.
LEMMA PaidSaveClient ==
  ASSUME OInv, NEW c \in Clients, SaveClient(c) PROVE Advances' /\ Edited' /\ Paid'
<1>0. TInv
  BY DEF OInv
<1>1. /\ client' = [client EXCEPT ![c] = Idle] /\ file' = client[c].copy
      /\ over' \in Nat /\ over <= over' /\ (file # client[c].read => over' = over + 1)
      /\ tick' = tick /\ cut' = cut /\ runs' = runs
      /\ Idle.read = Nothing /\ Idle.copy = Nothing
  BY <1>0, SaveFacts
<1>2. client'[c] = Idle /\ \A d \in Clients : d # c => client'[d] = client[d]
  BY <1>0, <1>1, TypeFacts
<1>3. Advances'
  BY <1>1 DEF OInv, Advances
<1>4. Edited'
  <2> SUFFICES ASSUME NEW d \in Clients, NEW s \in Schedules
               PROVE  \/ Later(client'[d].read[s], client'[d].copy[s])
                      \/ \E e : /\ e = client'[d].copy[s].edit
                                /\ ~Heard(s, e)' /\ Private(d, s, e)'
    BY DEF Edited
  <2>1. CASE d = c
    BY <1>1, <1>2, <2>1, NothingFacts
  <2>2. CASE d # c
    <3> PICK e : e = client[d].copy[s].edit
      OBVIOUS
    <3>1. client'[d] = client[d]
      BY <1>2, <2>2
    <3>2. CASE Later(client[d].read[s], client[d].copy[s])
      BY <3>1, <3>2
    <3>3. CASE ~Heard(s, e) /\ Private(d, s, e)
      <4>1. ~Has(client[c].copy, s, e)
        BY <2>2, <3>3 DEF Private
      <4>2. ~Heard(s, e)'
        BY <1>1, <3>3, <4>1 DEF Heard
      <4>3. ASSUME NEW o \in Clients
            PROVE  ~Has(client'[o].read, s, e) /\ (o # d => ~Has(client'[o].copy, s, e))
        <5>1. CASE o = c
          BY <1>1, <1>2, <5>1, NothingFacts
        <5>2. CASE o # c
          BY <1>2, <3>3, <5>2 DEF Private
        <5>3. QED BY <5>1, <5>2
      <4>4. Private(d, s, e)'
        BY <4>3 DEF Private
      <4>5. QED BY <3>1, <4>2, <4>4
    <3>4. QED BY <3>2, <3>3 DEF OInv, Edited
  <2>3. QED BY <2>1, <2>2
<1>5. Paid'
  <2>1. cut \in Nat /\ over \in Nat /\ Losses = cut + over /\ Losses' = cut + over'
    BY <1>0, <1>1, TypeFacts DEF Losses
  <2>2. Losses' \in Nat /\ Losses <= Losses'
    <3>1. \A k, m, n \in Nat : m <= n => k + n \in Nat /\ k + m <= k + n
      OBVIOUS
    <3>2. QED BY <1>1, <2>1, <3>1
  <2>3. file # client[c].read => Losses < Losses'
    <3>1. \A m, n \in Nat : m + n < m + (n + 1)
      OBVIOUS
    <3>2. QED BY <1>1, <2>1, <3>1
  <2>4. \A s \in Schedules, d \in 0 .. MaxTime, e \in 0 .. MaxCalls :
          Executions(s, d, e)' = Executions(s, d, e)
    BY <1>1 DEF Executions
  <2>5. ASSUME NEW s \in Schedules, NEW d \in 0 .. MaxTime, NEW e \in 0 .. MaxCalls,
               Owed(s, d, e)', file = client[c].read
        PROVE  Owed(s, d, e) \/ Executions(s, d, e) = {}
    <3> DEFINE y == client[c].copy[s]
    <3>1. CASE Open(tick.copy[s], d, e)
      BY <3>1 DEF Owed
    <3>2. CASE Open(y, d, e) /\ (Open(tick.read[s], d, e) => Open(tick.copy[s], d, e))
      <4>1. CASE Later(file[s], y)
        <5>1. /\ y \in Schedule \cup {Gone} /\ d \in Nat
              /\ file[s] = Gone \/ file[s] \in Schedule
          BY <1>0, TypeFacts, PaidFacts, ItemFacts
        <5>2. Open(file[s], d, e)
          <6> HIDE DEF y
          <6>1. QED BY <3>2, <4>1, <5>1, OpenBefore
        <5>3. QED BY <3>2, <5>2 DEF Owed
      <4>2. CASE ~Heard(s, y.edit)
        BY <3>2, <4>2 DEF Open, Heard, Executions
      <4>3. QED BY <2>5, <4>1, <4>2 DEF OInv, Edited
    <3>3. QED BY <1>1, <2>5, <3>1, <3>2 DEF Owed
  <2>6. \A s \in Schedules, d \in 0 .. MaxTime, e \in 0 .. MaxCalls :
          Owed(s, d, e)' => Owed(s, d, e) \/ Losses < Losses' \/ Executions(s, d, e) = {}
    BY <2>3, <2>5
  <2>7. QED BY <2>2, <2>4, <2>6, PaidFrame
<1>6. QED BY <1>3, <1>4, <1>5

LEMMA PaidStep == OInv /\ [Next]_vars => OInv'
<1> SUFFICES ASSUME OInv, [Next]_vars PROVE Advances' /\ Edited' /\ Paid'
  BY TypeStep DEF OInv
<1>0. TInv
  BY DEF OInv
<1>1. CASE Wake \/ SaveTick \/ CrashTick
  BY <1>1, PaidWake, PaidSaveTick, PaidCrash
<1>2. ASSUME NEW s \in Schedules, Postpone(s) \/ Dispatch(s) \/ Skip(s) \/ DispatchFails(s)
      PROVE  Advances' /\ Edited' /\ Paid'
  BY <1>2, PaidPostpone, PaidDispatch, PaidAttempts
<1>3. ASSUME NEW c \in Clients, List(c) \/ SaveClient(c) PROVE Advances' /\ Edited' /\ Paid'
  BY <1>0, <1>3, ListFacts, PaidChanged, PaidSaveClient
<1>4. ASSUME NEW c \in Clients, NEW s \in Schedules, Set(c, s) \/ Delete(c, s)
      PROVE  Advances' /\ Edited' /\ Paid'
  BY <1>0, <1>4, SetDeleteFacts, PaidChanged
<1>5. CASE \/ \E s \in Schedules : Claim(s) \/ ClaimUnread(s) \/ DispatchRetries(s)
           \/ \E flow \in Flows : StartRun(flow)
           \/ \E i \in DOMAIN runs, st \in Statuses : SaveRun(i, st)
           \/ Pass \/ UNCHANGED vars
  BY <1>5, PaidQuiet
<1>6. QED BY <1>1, <1>2, <1>3, <1>4, <1>5 DEF Next

LEMMA PaidInit == Init => OInv
<1> SUFFICES ASSUME Init PROVE OInv
  OBVIOUS
<1>1. TInv
  BY TypeInit
<1>2. /\ tick.read = Nothing /\ tick.copy = Nothing
      /\ \A c \in Clients : client[c].read = Nothing /\ client[c].copy = Nothing
  BY DEF Init, Asleep, Idle
<1>3. Advances /\ Edited
  BY <1>2, NothingFacts DEF Advances, Edited
<1>4. \A d, e : \A s \in Schedules : Executions(s, d, e) = {}
  BY EmptySeq DEF Init, Executions
<1>5. Losses = 0
  BY DEF Init, Losses
<1>6. Paid
  BY <1>4, <1>5, FS_EmptySet DEF Paid, Within
<1>7. QED BY <1>1, <1>3, <1>6 DEF OInv

\* One occurrence of a schedule starts one execution, and each further one is
\* paid by a tick cut off by a crash or a save over a newer file, however ticks,
\* clients, failures and retries interleave (run_due, set, list, delete, save).
THEOREM OnceUnlessLost == Spec => []OncePerDue
<1>1. ASSUME OInv PROVE OncePerDue
  <2> SUFFICES ASSUME NEW i \in DOMAIN runs, runs[i].by # Person
               PROVE  Cardinality(Executions(runs[i].by, runs[i].due, runs[i].edit))
                        <= 1 + cut + over
    BY DEF OncePerDue, Executions
  <2>1. TInv /\ runs[i] \in Run
    BY <1>1, TypeFacts DEF OInv
  <2>2. runs[i].by \in Schedules /\ runs[i].due \in 0 .. MaxTime /\ runs[i].edit \in 0 .. MaxCalls
    BY <2>1 DEF Run
  <2>3. Within(runs[i].by, runs[i].due, runs[i].edit, 1 + Losses)
    BY <1>1, <2>2 DEF OInv, Paid
  <2>4. 1 + Losses = 1 + cut + over
    BY <2>1, TypeFacts DEF Losses
  <2>5. QED BY <2>3, <2>4 DEF Within
<1>2. QED BY <1>1, PaidInit, PaidStep, PTL DEF Spec

=============================================================================
