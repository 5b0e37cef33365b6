------------------------ MODULE ApprovalBridge_proofs ------------------------
(***************************************************************************)
(* The composition of bridge, manager and windows keeps the promise of     *)
(* ApprovalDecision, for every set of processes, runs and surfaces.  The   *)
(* steps of the bridge are steps of the manager, so that the invariants    *)
(* proved of the manager alone hold of the composition.                    *)
(***************************************************************************)
EXTENDS ApprovalBridge, FiniteSetTheorems, TLAPS

\* The manager, with what is proved of it.
P == INSTANCE Approvals_proofs WITH
       wanted <- [c \in Callers |-> Waiting(IdOf[c])],
       Stable <- Callers, Timed <- {}, Fickle <- Callers,
       Interrupts <- Cancelers # {}

USE BridgeAssumption

\* The coordinators are threads of the desktop, which runs once at a time, and
\* its popup watchers are the only ones.
OneDesktop == (\A c \in Callers : Home[c] \in Single) /\ Listers \subseteq Single

\* The queue has a place for every coordinator.
EnoughPlaces == IsFiniteSet(Callers) /\ Cardinality(Callers) <= MaxPending

\* A rule may approve a step but does not deny it.
NoDenial == \A c \in Callers : "deny" \notin Modes[c]

\* No fact has to leave the file for the next one.
Room == Len(facts) < MaxFacts

-----------------------------------------------------------------------------
(* The steps of the bridge are steps of the manager.                       *)

LEMMA ManagerAssumption ==
  /\ {} \subseteq Callers \ Callers /\ Callers \subseteq Callers
  /\ (Cancelers # {}) \in BOOLEAN
OBVIOUS

LEMMA SameStatus ==
  \A id : P!Latest(id) = M!Latest(id) /\ P!StatusOf(id) = M!StatusOf(id)
<1>1. ASSUME NEW id PROVE P!Latest(id) = M!Latest(id)
  BY DEF P!Latest, M!Latest, P!SelectLastInSeq, M!SelectLastInSeq, M!Max, P!Max
<1>2. ASSUME NEW id PROVE P!StatusOf(id) = M!StatusOf(id)
  BY <1>1 DEF P!StatusOf, M!StatusOf
<1>3. QED BY <1>1, <1>2

\* The manager counts as everybody does.
LEMMA SameCardinality ==
  \A S : M!Cardinality(S) = Cardinality(S) /\ P!Cardinality(S) = Cardinality(S)
BY Zenon DEF M!Cardinality, P!Cardinality, Cardinality

LEMMA SameResolve ==
  ASSUME NEW id, NEW st, M!Resolve(id, st)
  PROVE  P!Resolve(id, st)
BY SameStatus DEF M!Resolve, P!Resolve

LEMMA SameCaller ==
  ASSUME NEW c \in Callers
  PROVE  /\ M!Ask(c) => P!Ask(c)
         /\ M!CallerStep(c) => P!CallerStep(c)
         /\ M!Again(c) => P!Again(c)
<1> USE SameStatus, SameResolve, SameCardinality
    DEF M!Goto, P!Goto, M!Return, P!Return, M!Up, P!Up, M!Unqueue, P!Unqueue
<1>1. M!Ask(c) => P!Ask(c)
  BY DEF M!Ask, P!Ask, M!Orphan, P!Orphan
<1>2. M!Again(c) => P!Again(c)
  BY DEF M!Again, P!Again
<1>3. M!Revive(c) => P!Revive(c)
  BY DEF M!Revive, P!Revive
<1>4. M!Publish(c) => P!Publish(c)
  BY DEF M!Publish, P!Publish, M!AppendFact, P!AppendFact
<1>5. M!Enqueue(c) => P!Enqueue(c)
  BY DEF M!Enqueue, P!Enqueue, M!Closed, P!Closed, M!Stale, P!Stale
<1>6. M!Refuse(c) => P!Refuse(c)
  BY DEF M!Refuse, P!Refuse
<1>7. M!GiveUp(c) => P!GiveUp(c)
  BY DEF M!GiveUp, P!GiveUp
<1>8. M!Receive(c) => P!Receive(c)
  BY DEF M!Receive, P!Receive
<1>9. M!Poll(c) => P!Poll(c)
  BY DEF M!Poll, P!Poll, M!FactStatus, P!FactStatus
<1>10. M!Settle(c) => P!Settle(c)
  BY DEF M!Settle, P!Settle
<1>11. M!Watch(c) => P!Watch(c)
  BY DEF M!Watch, P!Watch, M!FactStatus, P!FactStatus
<1>12. QED BY <1>1, <1>2, <1>3, <1>4, <1>5, <1>6, <1>7, <1>8, <1>9, <1>10, <1>11
             DEF M!CallerStep, P!CallerStep

LEMMA SameSurface ==
  ASSUME NEW s \in Surfaces
  PROVE  /\ M!Send(s) => P!Send(s)
         /\ \A r : M!Interrupt(s, r) => P!Interrupt(s, r)
         /\ \A r, w : M!Respond(s, r, w) => P!Respond(s, r, w)
<1> USE SameStatus, SameResolve DEF M!Up, P!Up
<1>1. M!Send(s) => P!Send(s)
  BY DEF M!Send, P!Send
<1>2. ASSUME NEW r, M!Interrupt(s, r) PROVE P!Interrupt(s, r)
  BY <1>2 DEF M!Interrupt, P!Interrupt, M!callerVars, P!callerVars
<1>3. ASSUME NEW r, NEW w, M!Respond(s, r, w) PROVE P!Respond(s, r, w)
  BY <1>3 DEF M!Respond, P!Respond, M!callerVars, P!callerVars
<1>4. QED BY <1>1, <1>2, <1>3

LEMMA SameProcess ==
  ASSUME NEW p \in Procs
  PROVE  /\ M!Look(p) => P!Look(p)
         /\ M!Dispose(p) => P!Dispose(p)
         /\ M!Start(p) => P!Start(p)
         /\ M!Crash(p) => P!Crash(p)
<1> USE SameStatus, SameResolve
    DEF M!Up, P!Up, M!Orphan, P!Orphan, M!callerVars, P!callerVars
<1>1. M!Look(p) => P!Look(p)
  BY DEF M!Look, P!Look, M!Over, P!Over, M!ToSet, P!ToSet
<1>2. M!Dispose(p) => P!Dispose(p)
  BY DEF M!Dispose, P!Dispose
<1>3. M!Start(p) => P!Start(p)
  BY DEF M!Start, P!Start
<1>4. M!Crash(p) => P!Crash(p)
  BY DEF M!Crash, P!Crash
<1>5. QED BY <1>1, <1>2, <1>3, <1>4

\* A step of the bridge's own changes what the callers find of their runs.
LEMMA OwnStep ==
  ASSUME UNCHANGED managerVars
  PROVE  [P!Next]_P!vars
<1> DEFINE w == [c \in Callers |-> Waiting(IdOf[c])]
<1>1. CASE UNCHANGED w
  BY <1>1 DEF managerVars, P!vars, P!callerVars
<1>2. CASE ~(UNCHANGED w)
  <2>1. w' \in [Callers -> BOOLEAN]
    BY DEF Waiting
  <2>2. P!Reconsider
    BY <1>2, <2>1 DEF managerVars, P!Reconsider, P!callerVars
  <2>3. QED BY <2>2 DEF P!Next
<1>3. QED BY <1>1, <1>2

\* What the bridge keeps of its own.
Tasks ==
  {NoTask} \cup [do : {"refused", "fallback"}, run : Runs, word : {"yes", "no"}]
           \cup [do : {"cancel"}, run : Runs, waited : BOOLEAN]
           \cup [do : {"interrupt"}, run : Runs]

BTypes ==
  /\ run \in [Runs -> {"waiting", "queued", "canceled"}]
  /\ applying \in [Callers -> {"nothing", "loaded", "applied"}]
  /\ task \in [Surfaces -> Tasks]
  /\ told \in [Runs -> SUBSET {"approved", "rejected", "canceled"}] /\ overruled \subseteq Runs

LEMMA TaskFacts ==
  ASSUME BTypes, NEW s \in Surfaces
  PROVE  /\ task[s].do \in {"refused", "fallback"} =>
              /\ task[s] \in [do : {"refused", "fallback"}, run : Runs, word : {"yes", "no"}]
              /\ task[s].run \in Runs /\ task[s].word \in {"yes", "no"}
         /\ task[s].do = "cancel" => task[s].run \in Runs
         /\ task[s].do = "interrupt" => task[s].run \in Runs
<1>1. task[s] \in Tasks
  BY DEF BTypes
<1>2. QED BY <1>1 DEF Tasks, NoTask

LEMMA StepOfManager ==
  ASSUME BTypes, [Next]_vars,
         ~\E s \in Surfaces, r \in Runs, w \in {"yes", "no"} : Refused(s, r, w)
  PROVE  [P!Next]_P!vars
<1>0. P!Ids = Runs
  BY DEF P!Ids, Runs
<1>1. CASE UNCHANGED managerVars
  BY <1>1, OwnStep
<1>2. ASSUME NEW c \in Callers, CoordinatorStep(c) PROVE UNCHANGED managerVars \/ P!Next
  BY <1>2, SameCaller DEF CoordinatorStep, Scan, Load, Apply, Finish, P!Next
<1>3. ASSUME NEW s \in Surfaces,
             \/ M!Send(s) \/ FallBack(s) \/ FallBackSave(s) \/ CancelSave(s)
             \/ \E r \in Runs : Cancel(s, r)
      PROVE  UNCHANGED managerVars \/ P!Next
  BY <1>3, SameSurface DEF FallBack, FallBackSave, CancelSave, Cancel, P!Next
<1>4. ASSUME NEW s \in Surfaces, CancelInterrupt(s) PROVE P!Next
  <2>1. PICK r \in Runs : r = task[s].run
    BY <1>4, TaskFacts DEF CancelInterrupt
  <2>2. P!Interrupt(s, r)
    BY <1>4, <2>1, SameSurface DEF CancelInterrupt
  <2>3. QED BY <1>0, <2>2 DEF P!Next
<1>5. ASSUME NEW s \in Surfaces, NEW r \in Runs, NEW w \in {"yes", "no"}, Answer(s, r, w)
      PROVE  P!Next
  <2>1. P!Respond(s, r, w)
    BY <1>5, SameSurface DEF Answer
  <2>2. QED BY <1>0, <2>1 DEF P!Next
<1>6. ASSUME NEW p \in Procs, M!Look(p) \/ M!Dispose(p) \/ M!Start(p) \/ Crash(p) PROVE P!Next
  BY <1>6, SameProcess DEF Crash, P!Next
<1>7. CASE UNCHANGED vars
  BY <1>1, <1>7 DEF vars
<1>8. QED BY <1>1, <1>2, <1>3, <1>4, <1>5, <1>6, <1>7 DEF Next

\* What is proved of the manager, of the composition.
MInv == P!RInv /\ P!VInv

LEMMA ManagerLife == OneDesktop => P!OneLife
BY DEF OneDesktop, P!OneLife

\* The parts of it that are used below.
LEMMA ManagerFacts ==
  ASSUME MInv
  PROVE  /\ facts \in Seq(P!Facts) /\ P!Typed(facts)
         /\ proc \in [Procs -> {"new", "up", "dead"}]
         /\ pending \in [Procs -> SUBSET Callers]
         /\ \A p \in Procs : \A c \in pending[p] : pc[c] = "waiting" /\ Home[c] = p
         /\ doomed \in [Procs -> SUBSET [id : Runs, to : {"expired", "interrupted"}]]
         /\ pc \in [Callers -> P!Pcs] /\ chan \in [Callers -> P!Chans]
         /\ result \in [Callers -> P!Results] /\ late = {}
         /\ say \in [Surfaces -> {<<>>} \cup (Runs \X {"yes", "no"})] /\ yes \subseteq Runs
<1>1. P!TInv /\ P!Ids = Runs
  BY DEF MInv, P!RInv, P!Ids, Runs
<1>2. QED BY <1>1 DEF P!TInv, P!TypeOK, P!QueueHoldsWaiters, P!AtHome, P!Typed, P!Pcs, P!Chans, P!Results

LEMMA RefusedManager ==
  ASSUME P!RInv, NEW s \in Surfaces, NEW r \in Runs, NEW w \in {"yes", "no"}, Refused(s, r, w)
  PROVE  P!RInv' /\ (P!VInv => P!VInv')
<1>1. /\ words' \in 0 .. MaxWords /\ run' = run
      /\ UNCHANGED <<facts, proc, pending, doomed, pc, chan, result, late, say, yes>>
  <2>1. words \in 0 .. MaxWords
    BY DEF P!RInv, P!TInv, P!TypeOK
  <2>2. QED BY <2>1 DEF Refused
<1>2. P!TInv'
  BY <1>1 DEF P!RInv, P!TInv, P!TypeOK, P!QueueHoldsWaiters, P!AtHome, Waiting
<1>3. (\A id : P!StatusOf(id)' = P!StatusOf(id)) /\ P!Genuine' /\ P!ApprovalIsReal'
  BY <1>1, ManagerAssumption, P!StatusNow DEF P!RInv, P!Genuine, P!ApprovalIsReal
<1>4. P!VInv => P!Lives' /\ P!PublishedOnce' /\ P!Recovered' /\ P!Vacant'
  BY <1>1, <1>3 DEF P!VInv, P!Lives, P!PublishedOnce, P!Recovered, P!Vacant, P!Busy, P!Up, P!Orphan
<1>5. QED BY <1>2, <1>3, <1>4 DEF P!RInv, P!VInv

\* This part needs no assumption about the desktop.
LEMMA RealStep ==
  ASSUME P!RInv, BTypes, [Next]_vars
  PROVE  P!RInv'
<1>1. CASE \E s \in Surfaces, r \in Runs, w \in {"yes", "no"} : Refused(s, r, w)
  BY <1>1, RefusedManager
<1>2. CASE ~\E s \in Surfaces, r \in Runs, w \in {"yes", "no"} : Refused(s, r, w)
  <2>1. [P!Next]_P!vars /\ P!TInv
    BY <1>2, StepOfManager DEF P!RInv
  <2>2. P!TInv'
    BY <2>1, ManagerAssumption, P!TypeStep
  <2>3. QED BY <2>1, <2>2, ManagerAssumption, P!GenuineStep DEF P!RInv
<1>3. QED BY <1>1, <1>2

LEMMA ManagerStep ==
  ASSUME OneDesktop, MInv, BTypes, [Next]_vars
  PROVE  MInv'
<1>0. P!RInv' /\ P!TInv'
  BY RealStep DEF MInv, P!RInv
<1>1. CASE \E s \in Surfaces, r \in Runs, w \in {"yes", "no"} : Refused(s, r, w)
  BY <1>1, RefusedManager DEF MInv
<1>2. CASE ~\E s \in Surfaces, r \in Runs, w \in {"yes", "no"} : Refused(s, r, w)
  <2>1. [P!Next]_P!vars /\ P!TInv /\ P!OneLife
    BY <1>2, StepOfManager, ManagerLife DEF MInv, P!RInv
  <2>2. P!Lives'
    BY <2>1, ManagerAssumption, P!LivesStep DEF MInv, P!VInv
  <2>3. P!PublishedOnce'
    BY <2>1, ManagerAssumption, P!PublishedStep DEF MInv, P!VInv
  <2>4. P!Recovered'
    BY <2>1, ManagerAssumption, P!RecoveredStep DEF MInv, P!VInv
  <2>5. P!Vacant'
    BY <2>1, ManagerAssumption, P!VacantStep DEF MInv, P!VInv
  <2>6. QED BY <1>0, <2>2, <2>3, <2>4, <2>5 DEF MInv, P!VInv
<1>3. QED BY <1>1, <1>2

-----------------------------------------------------------------------------
(* The invariant.  StatusOf is the manager's: the latest fact of a run.    *)

Status(r) == P!StatusOf(r)

\* Nothing but a person or a rule ends a request while its coordinator lives: no
\* request is orphaned or refused.
Quiet ==
  /\ \A c \in Callers :
       /\ pc[c] \notin {"refusing", "expiring", "broken", "reviving"} /\ chan[c] # "closed"
       /\ pc[c] \notin {"idle", "dead"} => P!Up(Home[c])
  /\ \A p \in Procs : doomed[p] = {}
  /\ \A r \in Runs : Status(r) # "expired"

\* An accepted verdict is in the file, unless a console overruled it, and a
\* rejection in the file is an accepted verdict.
Verdicts ==
  \A r \in Runs :
    /\ r \notin overruled =>
         /\ "approved" \in Accepted(r) => Status(r) = "approved"
         /\ "rejected" \in told[r] => Status(r) = "rejected"
    /\ Status(r) = "rejected" => "rejected" \in told[r]

Negative(r) == "rejected" \in told[r] \/ "canceled" \in told[r]

\* Every no on its way to a run comes from a person who rejected it or canceled.
Answers ==
  /\ \A c \in Callers :
       /\ chan[c] = "no" \/ result[c] = "no" => Negative(IdOf[c])
       /\ pc[c] \in {"queueing", "waiting", "watching"} /\ Status(IdOf[c]) = "interrupted" =>
            "canceled" \in told[IdOf[c]]
  /\ \A s \in Surfaces :
       /\ say[s] # <<>> /\ say[s][2] = "no" => Negative(say[s][1])
       /\ task[s].do \in {"cancel", "interrupt"} => "canceled" \in told[task[s].run]

\* While a coordinator is about to save its decision the run still waits, or was
\* canceled, or overruled.
Decisions ==
  \A c \in Callers :
    /\ applying[c] # "nothing" => pc[c] = "done"
    /\ applying[c] = "loaded" =>
         /\ result[c] \in {"yes", "no"}
         /\ run[IdOf[c]] \in {"waiting", "canceled"} \/ IdOf[c] \in overruled

BInv == MInv /\ BTypes /\ Quiet /\ Verdicts /\ Answers /\ Decisions

\* What the theorem assumes of the constants.
Setting == OneDesktop /\ EnoughPlaces /\ NoDenial

LEMMA StatusThen == (facts' = facts) => \A r : Status(r)' = Status(r)
<1>1. ASSUME facts' = facts, NEW r PROVE Status(r)' = Status(r)
  BY <1>1, ManagerAssumption, P!StatusNow DEF Status
<1>2. QED BY <1>1

LEMMA StatusOfManager == \A r : Status(r) = M!StatusOf(r)
BY SameStatus DEF Status

\* Two coordinators of one run are never both at work or done.
LEMMA OneCoordinator ==
  ASSUME OneDesktop, BInv, NEW c \in Callers, NEW d \in Callers, IdOf[c] = IdOf[d],
         pc[c] \notin {"idle", "dead"}, pc[d] \notin {"idle", "dead"}
  PROVE  c = d
<1>1. P!Up(Home[c]) /\ P!Up(Home[d]) /\ Home[c] \in Single /\ Home[d] \in Single
  BY DEF OneDesktop, BInv, Quiet
<1>2. Home[c] = Home[d]
  BY <1>1 DEF BInv, MInv, P!VInv, P!Lives
<1>3. QED BY <1>2

\* No fact is an orphan as long as the desktop runs.
LEMMA NoOrphans ==
  ASSUME OneDesktop, BInv, NEW p \in Single, P!Up(p), NEW i \in DOMAIN facts
  PROVE  ~P!Orphan(facts[i])
<1>1. facts[i].by \in Callers
  <2>1. facts \in Seq(P!Facts)
    BY ManagerFacts DEF BInv
  <2>2. facts[i] \in P!Facts
    BY <2>1, ManagerAssumption, P!Positions
  <2>3. QED BY <2>2 DEF P!Facts
<1>2. QED BY <1>1 DEF OneDesktop, BInv, MInv, P!VInv, P!Recovered

-----------------------------------------------------------------------------
(* What a step leaves alone.                                               *)

LEMMA QuietSame ==
  ASSUME BInv, UNCHANGED <<pc, chan, doomed, proc>>, \A r \in Runs : Status(r)' # "expired"
  PROVE  Quiet'
BY DEF BInv, Quiet, P!Up

LEMMA VerdictsSame ==
  ASSUME BInv, UNCHANGED <<overruled, yes>>, \A r \in Runs : Status(r)' = Status(r),
         \A r \in Runs : told'[r] = told[r] \/ told'[r] = told[r] \cup {"canceled"}
  PROVE  Verdicts'
<1>1. ASSUME NEW r \in Runs
      PROVE  /\ "approved" \in Accepted(r)' <=> "approved" \in Accepted(r)
             /\ "rejected" \in told'[r] <=> "rejected" \in told[r]
  BY DEF Accepted
<1>2. QED BY <1>1 DEF BInv, Verdicts

LEMMA AnswersSame ==
  ASSUME BInv, UNCHANGED <<chan, say, result, pc, task>>,
         \A r \in Runs : Status(r)' = Status(r), \A r \in Runs : told[r] \subseteq told'[r]
  PROVE  Answers'
<1>1. \A c \in Callers : IdOf[c] \in Runs
  BY DEF Runs
<1>2. \A s \in Surfaces : say[s] # <<>> => say[s][1] \in Runs
  BY ManagerFacts DEF BInv
<1>3. \A s \in Surfaces : task[s].do \in {"cancel", "interrupt"} => task[s].run \in Runs
  BY TaskFacts DEF BInv
<1>4. QED BY <1>1, <1>2, <1>3 DEF BInv, Answers, Negative

LEMMA DecisionsSame ==
  ASSUME BInv, UNCHANGED <<applying, result, run, overruled>>,
         \A c \in Callers : pc[c] = "done" => pc'[c] = "done"
  PROVE  Decisions'
BY DEF BInv, Decisions

-----------------------------------------------------------------------------
(* Types.                                                                  *)

LEMMA RunTypes ==
  ASSUME BTypes, NEW r \in Runs, NEW st \in {"waiting", "queued", "canceled"}, Save(r, st)
  PROVE  /\ run' \in [Runs -> {"waiting", "queued", "canceled"}]
         /\ run'[r] = (IF Saves(r, st) THEN st ELSE run[r])
         /\ \A o \in Runs \ {r} : run'[o] = run[o]
BY DEF BTypes, Save

LEMMA TypesStep ==
  ASSUME BTypes, [Next]_vars
  PROVE  BTypes'
<1>0. BTypes /\ \A c \in Callers : IdOf[c] \in Runs
  BY DEF Runs
<1>1. CASE UNCHANGED bridgeVars
  BY <1>0, <1>1 DEF BTypes, bridgeVars
<1>2. ASSUME NEW c \in Callers, Load(c) \/ Finish(c) PROVE BTypes'
  BY <1>0, <1>2 DEF BTypes, Load, Finish
<1>3. ASSUME NEW c \in Callers, Apply(c) PROVE BTypes'
  <2>1. PICK st \in {"queued", "canceled"} : Save(IdOf[c], st)
    BY <1>3 DEF Apply, Decided
  <2>2. run' \in [Runs -> {"waiting", "queued", "canceled"}]
    BY <1>0, <2>1, RunTypes
  <2>3. QED BY <1>0, <1>3, <2>2 DEF BTypes, Apply
<1>4. ASSUME NEW s \in Surfaces, NEW t \in Tasks, task' = [task EXCEPT ![s] = t]
      PROVE  task' \in [Surfaces -> Tasks]
  BY <1>0, <1>4 DEF BTypes
<1>5. NoTask \in Tasks
  BY DEF Tasks
<1>6. ASSUME NEW s \in Surfaces, FallBack(s) PROVE BTypes'
  <2>1. task[s] \in [do : {"refused", "fallback"}, run : Runs, word : {"yes", "no"}]
    BY <1>0, <1>6, TaskFacts DEF FallBack
  <2>2. [task[s] EXCEPT !.do = "fallback"] \in Tasks
    BY <2>1 DEF Tasks
  <2>3. task' \in [Surfaces -> Tasks]
    BY <1>4, <1>5, <1>6, <2>2 DEF FallBack
  <2>4. QED BY <1>0, <1>6, <2>3 DEF BTypes, FallBack
<1>7. ASSUME NEW s \in Surfaces, FallBackSave(s) PROVE BTypes'
  <2>1. PICK r \in Runs, w \in {"yes", "no"} : r = task[s].run /\ w = task[s].word
    BY <1>0, <1>7, TaskFacts DEF FallBackSave
  <2>2. PICK st \in {"queued", "canceled"} : st = Decided(w)
    BY DEF Decided
  <2>3. Save(r, st)
    BY <1>7, <2>1, <2>2 DEF FallBackSave
  <2>4. run' \in [Runs -> {"waiting", "queued", "canceled"}]
    BY <1>0, <2>3, RunTypes
  <2>5. told' = told \/ told' = [told EXCEPT ![r] = told[r] \cup {Verdict(w)}]
    BY <1>7, <2>1 DEF FallBackSave
  <2>6. told' \in [Runs -> SUBSET {"approved", "rejected", "canceled"}]
    BY <1>0, <2>5 DEF BTypes, Verdict
  <2>7. task' \in [Surfaces -> Tasks]
    BY <1>4, <1>5, <1>7 DEF FallBackSave
  <2>8. overruled' \subseteq Runs
    BY <1>0, <1>7, <2>1 DEF FallBackSave, BTypes
  <2>9. QED BY <1>0, <1>7, <2>4, <2>6, <2>7, <2>8 DEF BTypes, FallBackSave
<1>8. ASSUME NEW s \in Surfaces, CancelSave(s) PROVE BTypes'
  <2>1. PICK r \in Runs : r = task[s].run
    BY <1>0, <1>8, TaskFacts DEF CancelSave
  <2>2. run' \in [Runs -> {"waiting", "queued", "canceled"}]
    BY <1>0, <1>8, <2>1, RunTypes DEF CancelSave
  <2>3. [do |-> "interrupt", run |-> r] \in Tasks
    BY DEF Tasks
  <2>4. PICK t \in {[do |-> "interrupt", run |-> r], NoTask} : task' = [task EXCEPT ![s] = t]
    BY <1>8, <2>1 DEF CancelSave
  <2>5. task' \in [Surfaces -> Tasks]
    BY <1>4, <1>5, <2>3, <2>4
  <2>6. QED BY <1>0, <1>8, <2>2, <2>5 DEF BTypes, CancelSave
<1>9. ASSUME NEW s \in Surfaces, CancelInterrupt(s) PROVE BTypes'
  <2>1. task' \in [Surfaces -> Tasks]
    BY <1>4, <1>5, <1>9 DEF CancelInterrupt
  <2>2. QED BY <1>0, <1>9, <2>1 DEF BTypes, CancelInterrupt
<1>10. ASSUME NEW s \in Surfaces, NEW r \in Runs, Cancel(s, r) PROVE BTypes'
  <2>1. [do |-> "cancel", run |-> r, waited |-> Waiting(r)] \in Tasks
    BY DEF Tasks, Waiting
  <2>2. task' \in [Surfaces -> Tasks]
    BY <1>4, <1>10, <2>1 DEF Cancel
  <2>3. QED BY <1>0, <1>10, <2>2 DEF BTypes, Cancel
<1>11. ASSUME NEW s \in Surfaces, NEW r \in Runs, NEW w \in {"yes", "no"}, Answer(s, r, w)
       PROVE  BTypes'
  BY <1>0, <1>11 DEF BTypes, Answer, Verdict
<1>12. ASSUME NEW s \in Surfaces, NEW r \in Runs, NEW w \in {"yes", "no"}, Refused(s, r, w)
       PROVE  BTypes'
  <2>1. [do |-> "refused", run |-> r, word |-> w] \in Tasks
    BY DEF Tasks
  <2>2. task' \in [Surfaces -> Tasks]
    BY <1>4, <1>12, <2>1 DEF Refused
  <2>3. QED BY <1>0, <1>12, <2>2 DEF BTypes, Refused
<1>13. ASSUME NEW p \in Procs, Crash(p) PROVE BTypes'
  <2>1. task' \in [Surfaces -> Tasks]
    BY <1>0, <1>5, <1>13 DEF BTypes, Crash
  <2>2. applying' \in [Callers -> {"nothing", "loaded", "applied"}]
    BY <1>0, <1>13 DEF BTypes, Crash
  <2>3. QED BY <1>0, <1>13, <2>1, <2>2 DEF BTypes, Crash
<1>14. CASE UNCHANGED vars
  BY <1>1, <1>14 DEF vars, bridgeVars
<1>15. ASSUME NEW c \in Callers, Scan(c) PROVE UNCHANGED bridgeVars
  BY <1>15 DEF Scan
<1>16. QED BY <1>1, <1>2, <1>3, <1>6, <1>7, <1>8, <1>9, <1>10, <1>11, <1>12, <1>13, <1>14, <1>15
             DEF Next, CoordinatorStep

-----------------------------------------------------------------------------
(* What the operations on the file do to the status of each run.           *)

LEMMA RunIds == P!Ids = Runs /\ \A c \in Callers : IdOf[c] \in Runs
BY DEF P!Ids, Runs

LEMMA ResolveStatus ==
  ASSUME MInv, NEW r, NEW st \in P!FactStatus, P!Resolve(r, st)
  PROVE  \A o : Status(o)' = IF o = r /\ Status(o) = "pending" THEN st ELSE Status(o)
<1>1. P!Typed(facts)
  BY ManagerFacts
<1>2. QED BY <1>1, ManagerAssumption, P!ResolveFacts DEF Status

LEMMA AppendStatus ==
  ASSUME MInv, Room, NEW c \in Callers, NEW st \in P!FactStatus, P!AppendFact(c, st)
  PROVE  Status(IdOf[c])' = st /\ \A o : o # IdOf[c] => Status(o)' = Status(o)
<1>1. P!Typed(facts)
  BY ManagerFacts
<1>2. P!StatusOf(IdOf[c])' = st
  BY <1>1, ManagerAssumption, P!AppendFacts
<1>3. ASSUME NEW o, o # IdOf[c] PROVE P!StatusOf(o)' = P!StatusOf(o)
  BY <1>1, <1>3, ManagerAssumption, P!AppendWithRoom DEF Room
<1>4. QED BY <1>2, <1>3 DEF Status

LEMMA VerdictsInterrupted ==
  ASSUME BInv, UNCHANGED <<overruled, yes, told>>, NEW r,
         \A o : Status(o)' = IF o = r /\ Status(o) = "pending" THEN "interrupted" ELSE Status(o)
  PROVE  Verdicts'
<1>1. ASSUME NEW o \in Runs PROVE Accepted(o)' = Accepted(o) /\ told'[o] = told[o]
  BY DEF Accepted
<1>2. QED BY <1>1 DEF BInv, Verdicts

-----------------------------------------------------------------------------
(* The coordinators.                                                       *)

AtWork == {"queueing", "waiting", "watching"}

\* A coordinator moves on, and its request with it.
LEMMA CoordinatorMoves ==
  ASSUME OneDesktop, BInv, UNCHANGED <<bridgeVars, doomed, proc, say>>, NEW c \in Callers, NEW l,
         pc[c] \notin {"done", "dead"}, pc' = [pc EXCEPT ![c] = l], P!Up(Home[c]),
         l \notin {"refusing", "expiring", "broken", "reviving", "dead", "idle"},
         \A d \in Callers : chan'[d] \in {chan[d], "empty"} /\ (d # c => result'[d] = result[d]),
         result'[c] = "no" => Negative(IdOf[c]),
         \A r \in Runs : r # IdOf[c] => Status(r)' = Status(r),
         Status(IdOf[c])' # "expired",
         Status(IdOf[c])' = "interrupted" =>
           /\ l \in AtWork => "canceled" \in told[IdOf[c]]
           /\ Status(IdOf[c]) = "interrupted" \/ pc[c] # "idle"
  PROVE  Quiet' /\ Answers' /\ Decisions'
<1>1. /\ pc' \in [Callers -> P!Pcs \cup {l}] /\ pc'[c] = l /\ \A d \in Callers : d # c => pc'[d] = pc[d]
      /\ UNCHANGED <<run, applying, task, told, overruled>>
  BY ManagerFacts DEF BInv, bridgeVars
<1>2. Quiet'
  <2>1. \A r \in Runs : Status(r)' # "expired"
    BY DEF BInv, Quiet
  <2>2. QED BY <1>1, <2>1 DEF BInv, Quiet, P!Up
<1>3. Decisions'
  BY <1>1 DEF BInv, Decisions
<1>4. ASSUME NEW d \in Callers
      PROVE  /\ chan'[d] = "no" \/ result'[d] = "no" => Negative(IdOf[d])
             /\ pc'[d] \in AtWork /\ Status(IdOf[d])' = "interrupted" => "canceled" \in told[IdOf[d]]
  <2>1. chan[d] = "no" \/ result[d] = "no" => Negative(IdOf[d])
    BY DEF BInv, Answers
  <2>2. chan'[d] = "no" \/ result'[d] = "no" => Negative(IdOf[d])
    BY <2>1
  <2>3. CASE d = c
    BY <1>1, <2>2, <2>3
  <2>4. CASE d # c /\ pc'[d] \in AtWork /\ Status(IdOf[d])' = "interrupted"
    <3>1. pc[d] \in AtWork
      BY <1>1, <2>4
    <3>2. Status(IdOf[d]) = "interrupted"
      <4>1. CASE IdOf[d] = IdOf[c]
        BY <2>4, <3>1, <4>1, OneCoordinator DEF AtWork
      <4>2. CASE IdOf[d] # IdOf[c]
        BY <2>4, <4>2, RunIds
      <4>3. QED BY <4>1, <4>2
    <3>3. QED BY <2>2, <3>1, <3>2 DEF BInv, Answers, AtWork
  <2>5. QED BY <2>2, <2>3, <2>4
<1>5. Answers'
  BY <1>1, <1>4 DEF BInv, Answers, Negative, AtWork
<1>6. QED BY <1>2, <1>3, <1>5

\* The coordinator looks for the latest fact of its run, or publishes a request.
LEMMA ScanStep ==
  ASSUME OneDesktop, BInv, MInv', NEW c \in Callers, Scan(c)
  PROVE  Quiet' /\ Verdicts' /\ Answers' /\ Decisions'
<1>1. /\ P!Ask(c) /\ UNCHANGED bridgeVars /\ \A r : Status(r)' = Status(r)
      /\ pc \in [Callers -> P!Pcs] /\ result \in [Callers -> P!Results] /\ IdOf[c] \in Runs
  <2>1. P!Ask(c) /\ UNCHANGED bridgeVars
    BY SameCaller DEF Scan
  <2>2. facts' = facts
    BY <2>1 DEF P!Ask
  <2>3. QED BY <2>1, <2>2, StatusThen, ManagerFacts, RunIds DEF BInv
<1>2. pc'[c] # "reviving"
  BY DEF MInv, P!VInv, P!Recovered
<1>3. PICK l \in {"done", "watching", "asking"} :
        /\ pc' = [pc EXCEPT ![c] = l]
        /\ l = "done" => result'[c] = "yes" \/ (result'[c] = "no" /\ Status(IdOf[c]) = "rejected")
        /\ l = "watching" => Status(IdOf[c]) = "pending"
        /\ l # "done" => result' = result
  BY <1>1, <1>2 DEF P!Ask, P!Return, P!Goto, Status
<1>4. /\ pc[c] = "idle" /\ P!Up(Home[c]) /\ UNCHANGED <<doomed, proc, say, chan, yes>>
      /\ \A d \in Callers : d # c => result'[d] = result[d]
  BY <1>1 DEF P!Ask, P!Return
<1>5. result'[c] = "no" => Negative(IdOf[c])
  <2>1. CASE result'[c] = result[c]
    BY <2>1 DEF BInv, Answers
  <2>2. CASE result'[c] = "no" /\ Status(IdOf[c]) = "rejected"
    BY <1>1, <2>2 DEF BInv, Verdicts, Negative
  <2>3. QED BY <1>3, <2>1, <2>2
<1>6. Quiet' /\ Answers' /\ Decisions'
  <2>1. Status(IdOf[c])' # "expired"
    BY <1>1 DEF BInv, Quiet
  <2>2. l \in AtWork => Status(IdOf[c])' # "interrupted"
    BY <1>1, <1>3 DEF AtWork
  <2>3. \A d \in Callers : chan'[d] \in {chan[d], "empty"} /\ (d # c => result'[d] = result[d])
    BY <1>4
  <2>4. l \notin {"refusing", "expiring", "broken", "reviving", "dead", "idle"}
    OBVIOUS
  <2>5. QED BY <1>1, <1>3, <1>4, <1>5, <2>1, <2>2, <2>3, <2>4, CoordinatorMoves
<1>7. Verdicts'
  BY <1>1, <1>4, VerdictsSame DEF bridgeVars
<1>8. QED BY <1>6, <1>7

LEMMA VerdictsPublished ==
  ASSUME BInv, UNCHANGED <<overruled, told>>, NEW c \in Callers, pc[c] = "asking",
         \A o : o # IdOf[c] => Status(o)' = Status(o),
         \/ Status(IdOf[c])' = "approved" /\ yes' = yes \cup {IdOf[c]}
         \/ Status(IdOf[c])' = "pending" /\ yes' = yes
  PROVE  Verdicts'
<1>1. Status(IdOf[c]) \in {"none", "expired", "interrupted"}
  BY DEF BInv, MInv, P!VInv, P!Vacant, Status
<1>2. \A r \in Runs \ {IdOf[c]} : Accepted(r)' = Accepted(r) /\ told'[r] = told[r]
  BY DEF Accepted
<1>3. IdOf[c] \notin overruled => "approved" \notin Accepted(IdOf[c]) /\ "rejected" \notin told[IdOf[c]]
  BY <1>1, RunIds DEF BInv, Verdicts
<1>4. /\ Status(IdOf[c])' # "rejected"
      /\ Status(IdOf[c])' = "pending" => Accepted(IdOf[c])' = Accepted(IdOf[c])
  BY DEF Accepted
<1>5. QED BY <1>2, <1>3, <1>4 DEF BInv, Verdicts

LEMMA PublishStep ==
  ASSUME OneDesktop, NoDenial, Room, BInv, NEW c \in Callers, UNCHANGED bridgeVars, P!Publish(c)
  PROVE  Quiet' /\ Verdicts' /\ Answers' /\ Decisions'
<1>0. /\ pc[c] = "asking" /\ MInv /\ UNCHANGED <<doomed, proc, say, chan>> /\ IdOf[c] \in Runs
      /\ pc \in [Callers -> P!Pcs] /\ result \in [Callers -> P!Results]
      /\ UNCHANGED <<overruled, told>>
  BY ManagerFacts, RunIds DEF BInv, P!Publish, bridgeVars
<1>1. P!Up(Home[c])
  BY <1>0 DEF BInv, Quiet
<1>2. PICK l \in {"done", "queueing"} :
        /\ pc' = [pc EXCEPT ![c] = l]
        /\ \/ UNCHANGED <<facts, yes>>
           \/ P!AppendFact(c, "approved") /\ yes' = yes \cup {IdOf[c]}
           \/ P!AppendFact(c, "pending") /\ yes' = yes
        /\ l = "queueing" => P!AppendFact(c, "pending")
        /\ result' = result \/ result' = [result EXCEPT ![c] = "canceled"]
           \/ result' = [result EXCEPT ![c] = "yes"]
  BY <1>0 DEF P!Publish, P!Return, P!Goto, NoDenial
<1>3. \A st : st \in {"approved", "pending"} /\ P!AppendFact(c, st) =>
        Status(IdOf[c])' = st /\ \A o : o # IdOf[c] => Status(o)' = Status(o)
  BY <1>0, AppendStatus DEF P!FactStatus
<1>4. /\ \A o : o # IdOf[c] => Status(o)' = Status(o)
      /\ \/ UNCHANGED yes /\ Status(IdOf[c])' = Status(IdOf[c])
         \/ Status(IdOf[c])' = "approved" /\ yes' = yes \cup {IdOf[c]}
         \/ Status(IdOf[c])' = "pending" /\ yes' = yes
      /\ l = "queueing" => Status(IdOf[c])' = "pending"
  BY <1>2, <1>3, StatusThen
<1>5. Verdicts'
  <2>1. CASE UNCHANGED yes /\ Status(IdOf[c])' = Status(IdOf[c])
    BY <1>0, <1>4, <2>1, VerdictsSame
  <2>2. CASE \/ Status(IdOf[c])' = "approved" /\ yes' = yes \cup {IdOf[c]}
             \/ Status(IdOf[c])' = "pending" /\ yes' = yes
    BY <1>0, <1>4, <2>2, VerdictsPublished
  <2>3. QED BY <1>4, <2>1, <2>2
<1>6. Quiet' /\ Answers' /\ Decisions'
  <2>1. \A d \in Callers : chan'[d] \in {chan[d], "empty"} /\ (d # c => result'[d] = result[d])
    BY <1>0, <1>2
  <2>2. result'[c] = "no" => Negative(IdOf[c])
    BY <1>0, <1>2 DEF BInv, Answers
  <2>3. /\ Status(IdOf[c])' # "expired"
        /\ Status(IdOf[c])' = "interrupted" => l \notin AtWork
    BY <1>0, <1>2, <1>4 DEF BInv, Quiet, AtWork
  <2>4. l \notin {"refusing", "expiring", "broken", "reviving", "dead", "idle"} /\ pc[c] # "idle"
    BY <1>0
  <2>5. QED BY <1>0, <1>1, <1>2, <1>4, <2>1, <2>2, <2>3, <2>4, CoordinatorMoves
<1>7. QED BY <1>5, <1>6

\* There is a place in the queue: it holds other coordinators.
LEMMA PlaceInQueue ==
  ASSUME EnoughPlaces, BInv, NEW c \in Callers, pc[c] = "queueing"
  PROVE  ~(Cardinality(pending[Home[c]] \ late) >= MaxPending)
<1> DEFINE others == Callers \ {c}
           live == pending[Home[c]] \ late
<1>1. live \subseteq others
  BY ManagerFacts DEF BInv
<1>2. IsFiniteSet(others) /\ Cardinality(others) = Cardinality(Callers) - 1
  BY FS_RemoveElement DEF EnoughPlaces
<1>3. Cardinality(live) <= Cardinality(others)
  <2> HIDE DEF others, live
  <2>1. QED BY <1>1, <1>2, FS_Subset
<1>4. IsFiniteSet(live)
  <2> HIDE DEF others, live
  <2>1. QED BY <1>1, <1>2, FS_Subset
<1>5. Cardinality(Callers) \in Nat /\ Cardinality(live) \in Nat /\ Cardinality(Callers) <= MaxPending
  <2> HIDE DEF live
  <2>1. QED BY <1>4, FS_CardinalityType DEF EnoughPlaces
<1>6. QED
  <2> HIDE DEF others, live
  <2>1. MaxPending \in Nat
    OBVIOUS
  <2>2. ~(Cardinality(live) >= MaxPending)
    BY ONLY <1>2, <1>3, <1>5, <2>1
  <2>3. QED BY <2>2 DEF live

LEMMA EnqueueStep ==
  ASSUME OneDesktop, EnoughPlaces, BInv, NEW c \in Callers, UNCHANGED bridgeVars, P!Enqueue(c)
  PROVE  Quiet' /\ Verdicts' /\ Answers' /\ Decisions'
<1>0. /\ pc[c] = "queueing" /\ MInv /\ UNCHANGED <<doomed, proc, say, facts, result, yes, overruled, told>>
      /\ pc \in [Callers -> P!Pcs] /\ chan \in [Callers -> P!Chans] /\ late = {}
  BY ManagerFacts DEF BInv, P!Enqueue, bridgeVars
<1>1. P!Up(Home[c]) /\ \A r : Status(r)' = Status(r)
  BY <1>0, StatusThen DEF BInv, Quiet
<1>2. pc' = [pc EXCEPT ![c] = "waiting"]
  <2>1. ~(Cardinality(pending[Home[c]] \ late) >= MaxPending)
    BY <1>0, PlaceInQueue
  <2>2. ~(P!Cardinality(pending[Home[c]] \ late) >= MaxPending)
    BY <2>1, SameCardinality
  <2>3. QED BY <2>2 DEF P!Enqueue, P!Goto
<1>3. \A d \in Callers : chan'[d] \in {chan[d], "empty"}
  <2>1. P!Closed(Home[c]) = [d \in Callers |-> chan[d]]
    BY <1>0 DEF P!Closed, P!Stale
  <2>2. chan' = [[d \in Callers |-> chan[d]] EXCEPT ![c] = "empty"]
    BY <2>1 DEF P!Enqueue
  <2>3. QED BY <2>2
<1>4. Verdicts'
  BY <1>0, <1>1, VerdictsSame
<1>5. Quiet' /\ Answers' /\ Decisions'
  <2>1. /\ result'[c] = "no" => Negative(IdOf[c])
        /\ Status(IdOf[c])' # "expired"
        /\ Status(IdOf[c])' = "interrupted" => "canceled" \in told[IdOf[c]]
    BY <1>0, <1>1, RunIds DEF BInv, Answers, Quiet
  <2>2. QED BY <1>0, <1>1, <1>2, <1>3, <2>1, CoordinatorMoves
<1>6. QED BY <1>4, <1>5

\* The coordinator leaves the queue, or stops to watch, with an answer or without.
LEMMA AnswerStep ==
  ASSUME OneDesktop, BInv, NEW c \in Callers, UNCHANGED bridgeVars,
         P!GiveUp(c) \/ P!Receive(c) \/ P!Poll(c) \/ P!Watch(c)
  PROVE  Quiet' /\ Verdicts' /\ Answers' /\ Decisions'
<1>0. /\ pc[c] \in {"waiting", "watching"} /\ MInv
      /\ UNCHANGED <<doomed, proc, say, facts, chan, yes, overruled, told>>
      /\ pc \in [Callers -> P!Pcs] /\ chan \in [Callers -> P!Chans] /\ late = {}
      /\ result \in [Callers -> P!Results] /\ IdOf[c] \in Runs
  BY ManagerFacts, RunIds DEF BInv, P!GiveUp, P!Receive, P!Poll, P!Watch, bridgeVars
<1>1. P!Up(Home[c]) /\ \A r : Status(r)' = Status(r)
  BY <1>0, StatusThen DEF BInv, Quiet
<1>2. Status(IdOf[c]) \in P!FactStatus \ {"pending", "approved"} => Negative(IdOf[c])
  BY <1>0 DEF BInv, Quiet, Verdicts, Answers, Negative, P!FactStatus
<1>3. PICK l \in {"withdrawing", "done"}, a \in P!Results :
        /\ pc' = [pc EXCEPT ![c] = l]
        /\ result' = result \/ result' = [result EXCEPT ![c] = a]
        /\ a = "no" => Negative(IdOf[c])
  <2>1. CASE P!GiveUp(c)
    BY <1>0, <2>1 DEF P!GiveUp, P!Goto, P!Results
  <2>2. CASE P!Receive(c)
    <3>1. chan[c] \in {"yes", "no"} /\ (chan[c] = "no" => Negative(IdOf[c]))
      BY <1>0, <2>2 DEF P!Receive, P!Chans, BInv, Quiet, Answers
    <3>2. QED BY <2>2, <3>1 DEF P!Receive, P!Return, P!Goto, P!Results
  <2>3. CASE P!Poll(c)
    <3>1. PICK a \in {"yes", "no"} :
            /\ a = (IF Status(IdOf[c]) = "approved" THEN "yes" ELSE "no")
            /\ P!Return(c, a) /\ Status(IdOf[c]) \in P!FactStatus \ {"pending"}
      BY <2>3 DEF P!Poll, Status
    <3>2. QED BY <1>2, <3>1 DEF P!Return, P!Goto, P!Results
  <2>4. CASE P!Watch(c) /\ P!Return(c, "canceled")
    BY <2>4 DEF P!Return, P!Goto, P!Results
  <2>5. CASE P!Watch(c) /\ ~P!Return(c, "canceled")
    <3>1. PICK a \in {"yes", "no"} :
            /\ a = (IF Status(IdOf[c]) = "approved" THEN "yes" ELSE "no")
            /\ P!Return(c, a) /\ Status(IdOf[c]) \in P!FactStatus \ {"pending"}
      BY <2>5 DEF P!Watch, Status
    <3>2. QED BY <1>2, <3>1 DEF P!Return, P!Goto, P!Results
  <2>6. QED BY <2>1, <2>2, <2>3, <2>4, <2>5
<1>4. Verdicts'
  BY <1>0, <1>1, VerdictsSame
<1>5. Quiet' /\ Answers' /\ Decisions'
  <2>1. result'[c] = "no" => Negative(IdOf[c])
    <3>1. result[c] = "no" => Negative(IdOf[c])
      BY DEF BInv, Answers
    <3>2. QED BY <1>0, <1>3, <3>1
  <2>2. \A d \in Callers : chan'[d] \in {chan[d], "empty"} /\ (d # c => result'[d] = result[d])
    BY <1>0, <1>3
  <2>3. Status(IdOf[c])' # "expired" /\ l \notin AtWork
    BY <1>0, <1>1 DEF BInv, Quiet, AtWork
  <2>4. QED BY <1>0, <1>1, <1>3, <2>1, <2>2, <2>3, CoordinatorMoves
<1>6. QED BY <1>4, <1>5

\* The coordinator of a run that no longer waits interrupts its request.
LEMMA WithdrawStep ==
  ASSUME OneDesktop, BInv, NEW c \in Callers, UNCHANGED bridgeVars, P!Settle(c)
  PROVE  Quiet' /\ Verdicts' /\ Answers' /\ Decisions'
<1>0. /\ MInv /\ UNCHANGED <<doomed, proc, say, chan, yes, overruled, told>>
      /\ pc \in [Callers -> P!Pcs] /\ result \in [Callers -> P!Results] /\ IdOf[c] \in Runs
  BY ManagerFacts, RunIds DEF BInv, P!Settle, bridgeVars
<1>1. /\ pc[c] = "withdrawing" /\ P!Resolve(IdOf[c], "interrupted")
      /\ pc' = [pc EXCEPT ![c] = "done"] /\ result' = [result EXCEPT ![c] = "canceled"]
      /\ P!Up(Home[c])
  BY DEF BInv, Quiet, P!Settle, P!Return, P!Goto
<1>2. \A o : Status(o)' = IF o = IdOf[c] /\ Status(o) = "pending" THEN "interrupted" ELSE Status(o)
  BY <1>0, <1>1, ResolveStatus DEF P!FactStatus
<1>3. Verdicts'
  BY <1>0, <1>2, VerdictsInterrupted
<1>4. Quiet' /\ Answers' /\ Decisions'
  <2>1. \A d \in Callers : chan'[d] \in {chan[d], "empty"} /\ (d # c => result'[d] = result[d])
    BY <1>0, <1>1
  <2>2. result'[c] = "no" => Negative(IdOf[c])
    BY <1>0, <1>1
  <2>3. Status(IdOf[c])' # "expired" /\ "done" \notin AtWork
    BY <1>0, <1>2 DEF BInv, Quiet, AtWork
  <2>4. QED BY <1>0, <1>1, <1>2, <2>1, <2>2, <2>3, CoordinatorMoves
<1>5. QED BY <1>3, <1>4

LEMMA CallerSteps ==
  ASSUME Setting, Room, BInv, NEW c \in Callers, UNCHANGED bridgeVars, M!CallerStep(c)
  PROVE  Quiet' /\ Verdicts' /\ Answers' /\ Decisions'
<1>1. P!CallerStep(c)
  BY SameCaller
<1>2. ~P!Revive(c) /\ ~P!Refuse(c)
  BY DEF BInv, Quiet, P!Revive, P!Refuse
<1>3. QED BY <1>1, <1>2, PublishStep, EnqueueStep, AnswerStep, WithdrawStep DEF P!CallerStep, Setting

\* A coordinator loads its run and saves its decision.
LEMMA LoadStep ==
  ASSUME BInv, NEW c \in Callers, Load(c)
  PROVE  Quiet' /\ Verdicts' /\ Answers' /\ Decisions'
<1>0. /\ UNCHANGED <<facts, pc, chan, doomed, proc, say, result, yes, run, task, told, overruled>>
      /\ pc[c] = "done" /\ BTypes /\ IdOf[c] \in Runs
  BY RunIds DEF Load, managerVars, BInv
<1>1. \A r : Status(r)' = Status(r)
  BY <1>0, StatusThen
<1>2. Quiet'
  BY <1>0, <1>1, QuietSame DEF BInv, Quiet
<1>3. Verdicts' /\ Answers'
  BY <1>0, <1>1, VerdictsSame, AnswersSame
<1>4. Decisions'
  <2>1. /\ \A d \in Callers : d # c => applying'[d] = applying[d]
        /\ applying'[c] = "loaded" => result[c] \in {"yes", "no"} /\ run[IdOf[c]] = "waiting"
    BY <1>0 DEF Load, BTypes, Waiting
  <2>2. QED BY <1>0, <2>1 DEF BInv, Decisions
<1>5. QED BY <1>2, <1>3, <1>4

LEMMA ApplyStep ==
  ASSUME OneDesktop, BInv, NEW c \in Callers, Apply(c)
  PROVE  Quiet' /\ Verdicts' /\ Answers' /\ Decisions'
<1>0. /\ UNCHANGED <<facts, pc, chan, doomed, proc, say, result, yes, task, told, overruled>>
      /\ applying[c] = "loaded" /\ pc[c] = "done" /\ BTypes /\ IdOf[c] \in Runs
  BY RunIds DEF Apply, managerVars, BInv, Decisions
<1>1. \A r : Status(r)' = Status(r)
  BY <1>0, StatusThen
<1>2. Quiet'
  BY <1>0, <1>1, QuietSame DEF BInv, Quiet
<1>3. Verdicts' /\ Answers'
  BY <1>0, <1>1, VerdictsSame, AnswersSame
<1>4. \A d \in Callers : d # c => applying'[d] = applying[d]
  BY <1>0 DEF Apply, BTypes
<1>5. applying'[c] = "applied"
  BY <1>0 DEF Apply, BTypes
<1>6. \A r \in Runs : r # IdOf[c] => run'[r] = run[r]
  BY <1>0 DEF Apply, BTypes, Save
<1>7. ASSUME NEW d \in Callers, d # c, applying[d] # "nothing" PROVE IdOf[d] # IdOf[c]
  BY <1>0, <1>7, OneCoordinator DEF BInv, Decisions
<1>8. Decisions'
  BY <1>0, <1>4, <1>5, <1>6, <1>7, RunIds DEF BInv, Decisions
<1>9. QED BY <1>2, <1>3, <1>8

LEMMA FinishStep ==
  ASSUME BInv, NEW c \in Callers, Finish(c)
  PROVE  Quiet' /\ Verdicts' /\ Answers' /\ Decisions'
<1>0. /\ UNCHANGED <<facts, doomed, proc, say, yes, run, task, told, overruled>>
      /\ pc' = [pc EXCEPT ![c] = "idle"] /\ result' = [result EXCEPT ![c] = "none"]
      /\ chan' = [chan EXCEPT ![c] = "empty"] /\ applying' = [applying EXCEPT ![c] = "nothing"]
  BY SameCaller DEF Finish, P!Again, P!Goto
<1>1. \A r : Status(r)' = Status(r)
  BY <1>0, StatusThen
<1>2. /\ pc'[c] = "idle" /\ result'[c] = "none" /\ chan'[c] = "empty" /\ applying'[c] = "nothing"
      /\ \A d \in Callers : d # c => /\ pc'[d] = pc[d] /\ result'[d] = result[d]
                                     /\ chan'[d] = chan[d] /\ applying'[d] = applying[d]
  BY <1>0, ManagerFacts DEF BInv, BTypes
<1>3. Quiet'
  BY <1>0, <1>1, <1>2 DEF BInv, Quiet, P!Up
<1>4. Verdicts'
  BY <1>0, <1>1, VerdictsSame
<1>5. Answers'
  <2>1. ASSUME NEW d \in Callers
        PROVE  /\ chan'[d] = "no" \/ result'[d] = "no" => Negative(IdOf[d])
               /\ pc'[d] \in AtWork => pc[d] \in AtWork
    BY <1>2 DEF BInv, Answers, AtWork
  <2>2. QED BY <1>0, <1>1, <2>1, RunIds DEF BInv, Answers, Negative, AtWork
<1>6. Decisions'
  BY <1>0, <1>2 DEF BInv, Decisions
<1>7. QED BY <1>3, <1>4, <1>5, <1>6

-----------------------------------------------------------------------------
(* The surfaces.                                                           *)

LEMMA AnswersOfSurface ==
  ASSUME BInv, UNCHANGED <<pc, result>>, NEW s \in Surfaces,
         \A r \in Runs : told[r] \subseteq told'[r],
         \A c \in Callers : chan'[c] = "no" => Negative(IdOf[c]),
         \A r \in Runs : Status(r)' = "interrupted" =>
           Status(r) = "interrupted" \/ "canceled" \in told'[r],
         \A o \in Surfaces : o # s => say'[o] = say[o] /\ task'[o] = task[o],
         say'[s] # <<>> /\ say'[s][2] = "no" =>
           "rejected" \in told'[say'[s][1]] \/ "canceled" \in told'[say'[s][1]],
         task'[s].do \in {"cancel", "interrupt"} => "canceled" \in told'[task'[s].run]
  PROVE  Answers'
<1>1. ASSUME NEW c \in Callers
      PROVE  /\ chan'[c] = "no" \/ result'[c] = "no" =>
                  "rejected" \in told'[IdOf[c]] \/ "canceled" \in told'[IdOf[c]]
             /\ pc'[c] \in AtWork /\ Status(IdOf[c])' = "interrupted" => "canceled" \in told'[IdOf[c]]
  <2>1. IdOf[c] \in Runs /\ told[IdOf[c]] \subseteq told'[IdOf[c]]
    BY RunIds
  <2>2. chan'[c] = "no" \/ result'[c] = "no" => Negative(IdOf[c])
    BY DEF BInv, Answers
  <2>3. pc[c] \in AtWork /\ Status(IdOf[c]) = "interrupted" => "canceled" \in told[IdOf[c]]
    BY DEF BInv, Answers, AtWork
  <2>4. QED BY <2>1, <2>2, <2>3 DEF Negative
<1>2. ASSUME NEW o \in Surfaces, o # s
      PROVE  /\ say'[o] # <<>> /\ say'[o][2] = "no" =>
                  "rejected" \in told'[say'[o][1]] \/ "canceled" \in told'[say'[o][1]]
             /\ task'[o].do \in {"cancel", "interrupt"} => "canceled" \in told'[task'[o].run]
  <2>1. say'[o] = say[o] /\ task'[o] = task[o]
    BY <1>2
  <2>2. say[o] # <<>> => say[o][1] \in Runs
    BY ManagerFacts DEF BInv
  <2>3. task[o].do \in {"cancel", "interrupt"} => task[o].run \in Runs
    BY TaskFacts DEF BInv
  <2>4. QED BY <2>1, <2>2, <2>3 DEF BInv, Answers, Negative
<1>3. QED BY <1>1, <1>2 DEF Answers, Negative, AtWork

\* The answer reaches the coordinator through its channel.
LEMMA SendStep ==
  ASSUME BInv, NEW s \in Surfaces, UNCHANGED bridgeVars, P!Send(s)
  PROVE  Quiet' /\ Verdicts' /\ Answers' /\ Decisions'
<1>0. /\ UNCHANGED <<facts, pc, doomed, proc, result, yes, run, applying, task, told, overruled>>
      /\ say[s] # <<>> /\ say[s] \in Runs \X {"yes", "no"}
      /\ say' = [say EXCEPT ![s] = <<>>] /\ say \in [Surfaces -> {<<>>} \cup (Runs \X {"yes", "no"})]
  BY ManagerFacts DEF P!Send, bridgeVars, BInv
<1>1. \A r : Status(r)' = Status(r)
  BY <1>0, StatusThen
<1>2. PICK id \in Runs, w \in {"yes", "no"} : id = say[s][1] /\ w = say[s][2]
  BY <1>0
<1>3. w = "no" => Negative(id)
  BY <1>0, <1>2 DEF BInv, Answers
<1>4. \A c \in Callers : chan'[c] = chan[c] \/ (chan'[c] = w /\ IdOf[c] = id)
  BY <1>2 DEF P!Send
<1>5. Quiet'
  BY <1>0, <1>1, <1>4 DEF BInv, Quiet, P!Up
<1>6. Verdicts' /\ Decisions'
  BY <1>0, <1>1, VerdictsSame, DecisionsSame
<1>7. Answers'
  <2>1. ASSUME NEW c \in Callers PROVE chan'[c] = "no" => Negative(IdOf[c])
    BY <1>3, <1>4 DEF BInv, Answers
  <2>2. say'[s] = <<>> /\ \A o \in Surfaces : o # s => say'[o] = say[o]
    BY <1>0
  <2>3. task'[s].do \in {"cancel", "interrupt"} => "canceled" \in told'[task'[s].run]
    BY <1>0 DEF BInv, Answers
  <2>4. QED BY <1>0, <1>1, <2>1, <2>2, <2>3, AnswersOfSurface
<1>8. QED BY <1>5, <1>6, <1>7

\* A surface begins or ends a task, without touching the manager.
LEMMA TaskStep ==
  ASSUME BInv, NEW s \in Surfaces,
         UNCHANGED <<facts, pc, chan, doomed, proc, say, result, yes, applying, overruled>>,
         \A o \in Surfaces : o # s => task'[o] = task[o],
         task'[s].do \in {"cancel", "interrupt"} => "canceled" \in told'[task'[s].run],
         \A r \in Runs : told'[r] = told[r] \/ told'[r] = told[r] \cup {"canceled"},
         \A r \in Runs : run'[r] = run[r] \/ run'[r] = "canceled"
  PROVE  Quiet' /\ Verdicts' /\ Answers' /\ Decisions'
<1>1. \A r : Status(r)' = Status(r)
  BY StatusThen
<1>2. Quiet'
  BY <1>1, QuietSame DEF BInv, Quiet
<1>3. Verdicts'
  BY <1>1, VerdictsSame
<1>4. Decisions'
  BY RunIds DEF BInv, Decisions
<1>5. Answers'
  <2>1. \A c \in Callers : chan'[c] = "no" => Negative(IdOf[c])
    BY DEF BInv, Answers
  <2>2. /\ \A r \in Runs : told[r] \subseteq told'[r]
        /\ \A r \in Runs : Status(r)' = "interrupted" =>
             Status(r) = "interrupted" \/ "canceled" \in told'[r]
    BY <1>1
  <2>3. say'[s] # <<>> /\ say'[s][2] = "no" =>
          "rejected" \in told'[say'[s][1]] \/ "canceled" \in told'[say'[s][1]]
    <3>1. say'[s] = say[s] /\ (say[s] # <<>> => say[s][1] \in Runs)
      BY ManagerFacts DEF BInv
    <3>2. QED BY <2>2, <3>1 DEF BInv, Answers, Negative
  <2>4. QED BY <2>1, <2>2, <2>3, AnswersOfSurface
<1>6. QED BY <1>2, <1>3, <1>4, <1>5

LEMMA TaskSteps ==
  ASSUME BInv, NEW s \in Surfaces,
         \/ FallBack(s) \/ CancelSave(s)
         \/ \E r \in Runs : Cancel(s, r) \/ \E w \in {"yes", "no"} : Refused(s, r, w)
  PROVE  Quiet' /\ Verdicts' /\ Answers' /\ Decisions'
<1>0. BTypes /\ task \in [Surfaces -> Tasks]
  BY DEF BInv, BTypes
<1>1. CASE FallBack(s)
  <2>1. PICK t \in Tasks : t = task[s] /\ t.do = "refused"
    BY <1>0, <1>1 DEF FallBack
  <2>2. t \in [do : {"refused", "fallback"}, run : Runs, word : {"yes", "no"}]
    BY <2>1 DEF Tasks, NoTask
  <2>3. [t EXCEPT !.do = "fallback"].do = "fallback" /\ NoTask.do = "none"
    BY <2>2 DEF NoTask
  <2>4. task'[s].do \in {"fallback", "none"} /\ \A o \in Surfaces : o # s => task'[o] = task[o]
    BY <1>0, <1>1, <2>1, <2>3 DEF FallBack
  <2>5. UNCHANGED <<facts, pc, chan, doomed, proc, say, result, yes, applying, overruled, told, run>>
    BY <1>1 DEF FallBack, managerVars
  <2>6. QED BY <2>4, <2>5, TaskStep
<1>2. CASE CancelSave(s)
  <2>1. PICK r \in Runs : r = task[s].run
    BY <1>0, <1>2, TaskFacts DEF CancelSave
  <2>2. "canceled" \in told[r]
    BY <1>2, <2>1 DEF BInv, Answers, CancelSave
  <2>3. task'[s] \in {[do |-> "interrupt", run |-> r], NoTask}
        /\ \A o \in Surfaces : o # s => task'[o] = task[o]
    BY <1>0, <1>2, <2>1 DEF CancelSave
  <2>4. \A o \in Runs : run'[o] = run[o] \/ run'[o] = "canceled"
    BY <1>0, <1>2, <2>1, RunTypes DEF CancelSave
  <2>5. UNCHANGED <<facts, pc, chan, doomed, proc, say, result, yes, applying, overruled, told>>
    BY <1>2 DEF CancelSave, managerVars
  <2>6. task'[s].do \in {"cancel", "interrupt"} => "canceled" \in told'[task'[s].run]
    BY <2>2, <2>3, <2>5 DEF NoTask
  <2>7. QED BY <2>3, <2>4, <2>5, <2>6, TaskStep
<1>3. ASSUME NEW r \in Runs, Cancel(s, r) PROVE Quiet' /\ Verdicts' /\ Answers' /\ Decisions'
  <2>1. /\ task'[s] = [do |-> "cancel", run |-> r, waited |-> Waiting(r)]
        /\ \A o \in Surfaces : o # s => task'[o] = task[o]
    BY <1>0, <1>3 DEF Cancel
  <2>2. \A o \in Runs : told'[o] = told[o] \/ told'[o] = told[o] \cup {"canceled"}
    BY <1>0, <1>3 DEF Cancel, BTypes
  <2>3. "canceled" \in told'[task'[s].run]
    BY <1>0, <1>3, <2>1 DEF Cancel, BTypes
  <2>4. UNCHANGED <<facts, pc, chan, doomed, proc, say, result, yes, applying, overruled, run>>
    BY <1>3 DEF Cancel, managerVars
  <2>5. QED BY <2>1, <2>2, <2>3, <2>4, TaskStep
<1>4. ASSUME NEW r \in Runs, NEW w \in {"yes", "no"}, Refused(s, r, w)
      PROVE  Quiet' /\ Verdicts' /\ Answers' /\ Decisions'
  <2>1. task'[s] = [do |-> "refused", run |-> r, word |-> w]
        /\ \A o \in Surfaces : o # s => task'[o] = task[o]
    BY <1>0, <1>4 DEF Refused
  <2>2. UNCHANGED <<facts, pc, chan, doomed, proc, say, result, yes, applying, overruled, run, told>>
    BY <1>4 DEF Refused
  <2>3. QED BY <2>1, <2>2, TaskStep
<1>5. QED BY <1>1, <1>2, <1>3, <1>4

\* The request of a canceled run is interrupted.
LEMMA CancelInterruptStep ==
  ASSUME BInv, NEW s \in Surfaces, CancelInterrupt(s)
  PROVE  Quiet' /\ Verdicts' /\ Answers' /\ Decisions'
<1>0. BTypes /\ MInv /\ task \in [Surfaces -> Tasks] /\ say \in [Surfaces -> {<<>>} \cup (Runs \X {"yes", "no"})]
  BY ManagerFacts DEF BInv, BTypes
<1>1. PICK r \in Runs : r = task[s].run
  BY <1>0, TaskFacts DEF CancelInterrupt
<1>2. /\ UNCHANGED <<doomed, proc, pc, chan, result, yes, run, applying, told, overruled>>
      /\ P!Resolve(r, "interrupted") /\ say' = [say EXCEPT ![s] = <<r, "no">>]
      /\ task' = [task EXCEPT ![s] = NoTask]
  <2>1. P!Interrupt(s, r)
    BY <1>1, SameSurface DEF CancelInterrupt
  <2>2. QED BY <2>1 DEF CancelInterrupt, P!Interrupt, P!callerVars
<1>3. \A o : Status(o)' = IF o = r /\ Status(o) = "pending" THEN "interrupted" ELSE Status(o)
  BY <1>0, <1>2, ResolveStatus DEF P!FactStatus
<1>4. "canceled" \in told[r]
  BY <1>1 DEF BInv, Answers, CancelInterrupt
<1>5. Quiet'
  BY <1>2, <1>3, QuietSame DEF BInv, Quiet
<1>6. Verdicts' /\ Decisions'
  BY <1>2, <1>3, VerdictsInterrupted, DecisionsSame
<1>7. Answers'
  <2>1. /\ say'[s] = <<r, "no">> /\ task'[s] = NoTask
        /\ \A o \in Surfaces : o # s => say'[o] = say[o] /\ task'[o] = task[o]
    BY <1>0, <1>2
  <2>2. \A c \in Callers : chan'[c] = "no" => Negative(IdOf[c])
    BY <1>2 DEF BInv, Answers
  <2>3. \A o \in Runs : Status(o)' = "interrupted" =>
          Status(o) = "interrupted" \/ "canceled" \in told'[o]
    BY <1>2, <1>3, <1>4
  <2>4. "canceled" \in told'[say'[s][1]] /\ task'[s].do = "none"
    BY <1>2, <1>4, <2>1 DEF NoTask
  <2>5. QED BY <1>2, <2>1, <2>2, <2>3, <2>4, AnswersOfSurface
<1>8. QED BY <1>5, <1>6, <1>7

\* A console that was refused decides the run itself.
LEMMA FallBackSaveStep ==
  ASSUME BInv, NEW s \in Surfaces, FallBackSave(s)
  PROVE  Quiet' /\ Verdicts' /\ Answers' /\ Decisions'
<1>0. BTypes /\ MInv /\ task \in [Surfaces -> Tasks] /\ say \in [Surfaces -> {<<>>} \cup (Runs \X {"yes", "no"})]
  BY ManagerFacts DEF BInv, BTypes
<1>1. PICK r \in Runs, w \in {"yes", "no"} : r = task[s].run /\ w = task[s].word
  BY <1>0, TaskFacts DEF FallBackSave
<1>2. /\ UNCHANGED <<facts, doomed, proc, pc, chan, result, say, yes, applying>>
      /\ Save(r, Decided(w)) /\ overruled' = overruled \cup {r}
      /\ told' = told \/ told' = [told EXCEPT ![r] = told[r] \cup {Verdict(w)}]
      /\ task' = [task EXCEPT ![s] = NoTask]
  BY <1>1 DEF FallBackSave, managerVars
<1>3. /\ \A o \in Runs : told[o] \subseteq told'[o]
      /\ \A o \in Runs : o # r => told'[o] = told[o]
  BY <1>0, <1>2 DEF BTypes
<1>4. \A o : Status(o)' = Status(o)
  BY <1>2, StatusThen
<1>5. \A o \in Runs : o # r => run'[o] = run[o]
  BY <1>0, <1>2 DEF Save, BTypes
<1>6. Quiet'
  BY <1>2, <1>4, QuietSame DEF BInv, Quiet
<1>7. Verdicts'
  <2>1. \A o \in Runs : o # r => Accepted(o)' = Accepted(o)
    BY <1>2, <1>3 DEF Accepted
  <2>2. ASSUME NEW o \in Runs PROVE Status(o)' = "rejected" => "rejected" \in told'[o]
    BY <1>3, <1>4 DEF BInv, Verdicts
  <2>3. QED BY <1>2, <1>3, <1>4, <2>1, <2>2 DEF BInv, Verdicts
<1>8. Decisions'
  BY <1>2, <1>5, RunIds DEF BInv, Decisions
<1>9. Answers'
  <2>1. /\ task'[s] = NoTask /\ say'[s] = say[s]
        /\ \A o \in Surfaces : o # s => say'[o] = say[o] /\ task'[o] = task[o]
    BY <1>0, <1>2
  <2>2. \A c \in Callers : chan'[c] = "no" => Negative(IdOf[c])
    BY <1>2 DEF BInv, Answers
  <2>3. \A o \in Runs : Status(o)' = "interrupted" => Status(o) = "interrupted"
    BY <1>4
  <2>4. task'[s].do = "none"
    BY <2>1 DEF NoTask
  <2>5. say'[s] # <<>> /\ say'[s][2] = "no" =>
          "rejected" \in told'[say'[s][1]] \/ "canceled" \in told'[say'[s][1]]
    <3>1. say[s] # <<>> => say[s][1] \in Runs
      BY <1>0
    <3>2. QED BY <1>3, <2>1, <3>1 DEF BInv, Answers, Negative
  <2>6. QED BY <1>2, <1>3, <2>1, <2>2, <2>3, <2>4, <2>5, AnswersOfSurface
<1>10. QED BY <1>6, <1>7, <1>8, <1>9

\* A person answers an open request.
LEMMA AnswerOfPerson ==
  ASSUME BInv, NEW s \in Surfaces, NEW r \in Runs, NEW w \in {"yes", "no"}, Answer(s, r, w)
  PROVE  Quiet' /\ Verdicts' /\ Answers' /\ Decisions'
<1>0. BTypes /\ MInv /\ say \in [Surfaces -> {<<>>} \cup (Runs \X {"yes", "no"})]
  BY ManagerFacts DEF BInv
<1>1. PICK st \in {"approved", "rejected"} : st = Verdict(w)
  BY DEF Verdict
<1>2. /\ UNCHANGED <<doomed, proc, pc, chan, result, run, applying, task, overruled>>
      /\ Status(r) = "pending" /\ P!Resolve(r, st) /\ say' = [say EXCEPT ![s] = <<r, w>>]
      /\ told' = [told EXCEPT ![r] = told[r] \cup {st}]
      /\ yes' = IF w = "yes" THEN yes \cup {r} ELSE yes
  <2>1. P!Respond(s, r, w)
    BY SameSurface DEF Answer
  <2>2. P!Resolve(r, st)
    BY <1>1, <2>1 DEF P!Respond, Verdict
  <2>3. QED BY <1>1, <2>1, <2>2 DEF Answer, P!Respond, P!callerVars, Status
<1>3. \A o : Status(o)' = IF o = r /\ Status(o) = "pending" THEN st ELSE Status(o)
  BY <1>0, <1>2, ResolveStatus DEF P!FactStatus
<1>4. /\ told'[r] = told[r] \cup {st} /\ \A o \in Runs : o # r => told'[o] = told[o]
      /\ \A o \in Runs : told[o] \subseteq told'[o]
  BY <1>0, <1>2 DEF BTypes
<1>5. Quiet'
  BY <1>2, <1>3, QuietSame DEF BInv, Quiet
<1>6. Verdicts'
  <2>1. \A o \in Runs : o # r => Accepted(o)' = Accepted(o)
    BY <1>2, <1>4 DEF Accepted
  <2>2. r \notin overruled => "approved" \notin Accepted(r) /\ "rejected" \notin told[r]
    BY <1>2 DEF BInv, Verdicts
  <2>3. Status(r)' = st
    BY <1>2, <1>3
  <2>4. CASE w = "yes"
    <3>1. st = "approved"
      BY <1>1, <2>4 DEF Verdict
    <3>2. QED BY <1>2, <1>3, <1>4, <2>1, <2>2, <2>3, <3>1 DEF BInv, Verdicts
  <2>5. CASE w = "no"
    <3>1. st = "rejected" /\ yes' = yes
      BY <1>1, <1>2, <2>5 DEF Verdict
    <3>2. "approved" \in Accepted(r)' <=> "approved" \in Accepted(r)
      BY <1>4, <3>1 DEF Accepted
    <3>3. QED BY <1>2, <1>3, <1>4, <2>1, <2>2, <2>3, <3>1, <3>2 DEF BInv, Verdicts
  <2>6. QED BY <2>4, <2>5
<1>7. Decisions'
  BY <1>2, DecisionsSame
<1>8. Answers'
  <2>1. say'[s] = <<r, w>> /\ \A o \in Surfaces : o # s => say'[o] = say[o]
    BY <1>0, <1>2
  <2>2. \A c \in Callers : chan'[c] = "no" => Negative(IdOf[c])
    BY <1>2 DEF BInv, Answers
  <2>3. \A o \in Runs : Status(o)' = "interrupted" => Status(o) = "interrupted"
    BY <1>3
  <2>4. w = "no" => "rejected" \in told'[r]
    BY <1>1, <1>4 DEF Verdict
  <2>5. task'[s].do \in {"cancel", "interrupt"} => "canceled" \in told'[task'[s].run]
    <3>1. task[s].do \in {"cancel", "interrupt"} => task[s].run \in Runs
      BY <1>0, TaskFacts
    <3>2. QED BY <1>2, <1>4, <3>1 DEF BInv, Answers
  <2>6. QED BY <1>2, <1>4, <2>1, <2>2, <2>3, <2>4, <2>5, AnswersOfSurface
<1>9. QED BY <1>5, <1>6, <1>7, <1>8

-----------------------------------------------------------------------------
(* The processes.                                                          *)

\* As long as the desktop runs the popup watcher finds nothing to close.
LEMMA NothingToClose ==
  ASSUME OneDesktop, BInv, NEW p \in Procs
  PROVE  ~P!Look(p) /\ ~P!Dispose(p)
<1>1. ~P!Dispose(p)
  BY DEF P!Dispose, BInv, Quiet
<1>2. SUFFICES ASSUME P!Look(p) PROVE FALSE
  BY <1>1
<1>3. p \in Single /\ P!Up(p) /\ late = {}
  BY <1>2, ManagerFacts DEF P!Look, OneDesktop, BInv
<1>4. \A f \in P!ToSet(facts) : ~P!Orphan(f)
  BY <1>3, NoOrphans DEF P!ToSet
<1>5. P!Over(p) = {}
  BY <1>3, <1>4 DEF P!Over
<1>6. QED BY <1>2, <1>5 DEF P!Look

\* The next life of the desktop closes the requests that the last one left open.
LEMMA StartStep ==
  ASSUME OneDesktop, BInv, NEW p \in Procs, UNCHANGED bridgeVars, P!Start(p)
  PROVE  Quiet' /\ Verdicts' /\ Answers' /\ Decisions'
<1>0. /\ MInv /\ proc \in [Procs -> {"new", "up", "dead"}] /\ P!Typed(facts)
      /\ UNCHANGED <<doomed, pc, chan, result, say, yes, run, applying, task, told, overruled>>
  BY ManagerFacts DEF BInv, P!Start, P!callerVars, bridgeVars
<1>1. \A o : Status(o)' = Status(o) \/ (Status(o) = "pending" /\ Status(o)' = "interrupted")
  BY <1>0, ManagerAssumption, P!StartFacts DEF Status
<1>2. Quiet'
  <2>1. \A q \in Procs : P!Up(q) => proc'[q] = "up"
    BY <1>0 DEF P!Start, P!Up
  <2>2. QED BY <1>0, <1>1, <2>1 DEF BInv, Quiet, P!Up
<1>3. Verdicts'
  <2>1. \A r \in Runs : Accepted(r)' = Accepted(r) /\ told'[r] = told[r]
    BY <1>0 DEF Accepted
  <2>2. QED BY <1>0, <1>1, <2>1 DEF BInv, Verdicts
<1>4. Decisions'
  BY <1>0, DecisionsSame
<1>5. ASSUME NEW c \in Callers, pc[c] \in AtWork PROVE \A o : Status(o)' = Status(o)
  <2>1. Home[c] \in Single /\ P!Up(Home[c])
    BY <1>5 DEF BInv, Quiet, OneDesktop, AtWork
  <2>2. \A i \in DOMAIN facts : ~P!Orphan(facts[i])
    BY <2>1, NoOrphans
  <2>3. facts' = [i \in DOMAIN facts |-> facts[i]]
    BY <2>2 DEF P!Start
  <2>4. facts = [i \in DOMAIN facts |-> facts[i]]
    BY <1>0 DEF P!Typed
  <2>5. QED BY <2>3, <2>4, StatusThen
<1>6. Answers'
  BY <1>0, <1>5 DEF BInv, Answers, Negative, AtWork
<1>7. QED BY <1>2, <1>3, <1>4, <1>6

\* The desktop is killed: what its surfaces and coordinators were doing is lost.
LEMMA CrashStep ==
  ASSUME BInv, NEW p \in Procs, Crash(p)
  PROVE  Quiet' /\ Verdicts' /\ Answers' /\ Decisions'
<1>0. /\ MInv /\ BTypes /\ proc \in [Procs -> {"new", "up", "dead"}]
      /\ doomed \in [Procs -> SUBSET [id : Runs, to : {"expired", "interrupted"}]]
  BY ManagerFacts DEF BInv
<1>1. /\ UNCHANGED <<facts, result, yes, run, told, overruled>>
      /\ proc' = [proc EXCEPT ![p] = "dead"] /\ doomed' = [doomed EXCEPT ![p] = {}]
      /\ pc' = [c \in Callers |-> IF Home[c] = p THEN "dead" ELSE pc[c]]
      /\ chan' = [c \in Callers |-> IF Home[c] = p THEN "empty" ELSE chan[c]]
      /\ say' = [s \in Surfaces |-> IF Place[s] = p THEN <<>> ELSE say[s]]
      /\ applying' = [c \in Callers |-> IF Home[c] = p THEN "nothing" ELSE applying[c]]
      /\ task' = [s \in Surfaces |-> IF Place[s] = p THEN NoTask ELSE task[s]]
  BY SameProcess DEF Crash, P!Crash
<1>2. \A r : Status(r)' = Status(r)
  BY <1>1, StatusThen
<1>3. ASSUME NEW c \in Callers
      PROVE  /\ Home[c] = p => pc'[c] = "dead" /\ chan'[c] = "empty" /\ applying'[c] = "nothing"
             /\ Home[c] # p => /\ pc'[c] = pc[c] /\ chan'[c] = chan[c] /\ applying'[c] = applying[c]
                               /\ proc'[Home[c]] = proc[Home[c]]
  BY <1>0, <1>1
<1>4. Quiet'
  <2>1. \A q \in Procs : doomed'[q] = {}
    BY <1>0, <1>1 DEF BInv, Quiet
  <2>2. QED BY <1>2, <1>3, <2>1 DEF BInv, Quiet, P!Up
<1>5. Verdicts'
  BY <1>1, <1>2, VerdictsSame
<1>6. Decisions'
  BY <1>1, <1>3 DEF BInv, Decisions
<1>7. Answers'
  <2>1. ASSUME NEW c \in Callers
        PROVE  /\ chan'[c] = "no" \/ result'[c] = "no" => Negative(IdOf[c])
               /\ pc'[c] \in AtWork /\ Status(IdOf[c])' = "interrupted" => "canceled" \in told[IdOf[c]]
    BY <1>1, <1>2, <1>3 DEF BInv, Answers, AtWork
  <2>2. ASSUME NEW s \in Surfaces
        PROVE  /\ say'[s] # <<>> => say'[s] = say[s]
               /\ task'[s].do \in {"cancel", "interrupt"} => task'[s] = task[s]
    BY <1>1 DEF NoTask
  <2>3. QED BY <1>1, <2>1, <2>2 DEF BInv, Answers, Negative, AtWork
<1>8. QED BY <1>4, <1>5, <1>6, <1>7

-----------------------------------------------------------------------------
(* The invariant holds.                                                    *)

LEMMA InitHolds == Init => BInv
<1>1. SUFFICES ASSUME Init PROVE BInv
  OBVIOUS
<1>2. M!Init /\ run = [r \in Runs |-> "waiting"]
  BY <1>1 DEF Init
<1>3. P!Init
  <2>1. [c \in Callers |-> Waiting(IdOf[c])] = [c \in Callers |-> TRUE]
    BY <1>2, RunIds DEF Waiting
  <2>2. QED BY <1>2, <2>1 DEF M!Init, P!Init
<1>4. P!TInv
  BY <1>3, ManagerAssumption, P!InitTypes
<1>5. DOMAIN facts = {} /\ \A r : Status(r) = "none"
  <2>1. facts = <<>>
    BY <1>3 DEF P!Init
  <2>2. \A n \in 1 .. Len(facts) : FALSE
    BY <2>1
  <2>3. ASSUME NEW r PROVE P!StatusIn(facts, r) = "none"
    <3>1. facts \in Seq(P!Facts)
      BY <2>1
    <3>2. QED BY <2>2, <3>1, ManagerAssumption, P!LastIs
  <2>4. QED BY <2>1, <2>3, ManagerAssumption, P!StatusNow DEF Status
<1>6. MInv
  <2>1. P!Genuine /\ P!ApprovalIsReal
    BY <1>3, <1>5 DEF P!Init, P!Genuine, P!ApprovalIsReal
  <2>2. P!Lives /\ P!PublishedOnce /\ P!Recovered /\ P!Vacant
    BY <1>3, <1>5 DEF P!Init, P!Lives, P!PublishedOnce, P!Recovered, P!Vacant, P!Busy, P!Up
  <2>3. QED BY <1>4, <2>1, <2>2 DEF MInv, P!RInv, P!VInv
<1>7. BTypes
  BY <1>1 DEF Init, BTypes, Tasks
<1>8. Quiet
  BY <1>3, <1>5 DEF P!Init, Quiet
<1>9. Verdicts
  BY <1>1, <1>3, <1>5 DEF Init, P!Init, Verdicts, Accepted
<1>10. Answers
  BY <1>1, <1>3 DEF Init, P!Init, Answers, NoTask
<1>11. Decisions
  BY <1>1 DEF Init, Decisions
<1>12. QED BY <1>6, <1>7, <1>8, <1>9, <1>10, <1>11 DEF BInv

LEMMA BridgeStep == Setting /\ BInv /\ Room /\ [Next]_vars => BInv'
<1>0. SUFFICES ASSUME Setting, BInv, Room, [Next]_vars PROVE BInv'
  OBVIOUS
<1>1. OneDesktop /\ MInv' /\ BTypes'
  BY <1>0, ManagerStep, TypesStep DEF Setting, BInv
<1>2. ASSUME NEW c \in Callers, CoordinatorStep(c)
      PROVE  Quiet' /\ Verdicts' /\ Answers' /\ Decisions'
  BY <1>0, <1>1, <1>2, CallerSteps, ScanStep, LoadStep, ApplyStep, FinishStep DEF CoordinatorStep
<1>3. ASSUME NEW s \in Surfaces, UNCHANGED bridgeVars, M!Send(s)
      PROVE  Quiet' /\ Verdicts' /\ Answers' /\ Decisions'
  BY <1>0, <1>3, SameSurface, SendStep
<1>4. ASSUME NEW s \in Surfaces,
             \/ FallBack(s) \/ FallBackSave(s) \/ CancelSave(s) \/ CancelInterrupt(s)
             \/ \E r \in Runs : \/ Cancel(s, r)
                                \/ \E w \in {"yes", "no"} : Answer(s, r, w) \/ Refused(s, r, w)
      PROVE  Quiet' /\ Verdicts' /\ Answers' /\ Decisions'
  BY <1>0, <1>4, TaskSteps, FallBackSaveStep, CancelInterruptStep, AnswerOfPerson
<1>5. ASSUME NEW p \in Procs, UNCHANGED bridgeVars, M!Look(p) \/ M!Dispose(p) \/ M!Start(p)
      PROVE  Quiet' /\ Verdicts' /\ Answers' /\ Decisions'
  BY <1>0, <1>1, <1>5, SameProcess, NothingToClose, StartStep
<1>6. ASSUME NEW p \in Procs, Crash(p)
      PROVE  Quiet' /\ Verdicts' /\ Answers' /\ Decisions'
  BY <1>0, <1>6, CrashStep
<1>7. CASE UNCHANGED vars
  <2>1. /\ UNCHANGED <<facts, pc, chan, doomed, proc, say, result, yes>>
        /\ UNCHANGED <<run, applying, task, told, overruled>>
    BY <1>7 DEF vars, managerVars, bridgeVars
  <2>2. \A r : Status(r)' = Status(r)
    BY <2>1, StatusThen
  <2>3. Quiet'
    BY <1>0, <2>1, <2>2, QuietSame DEF BInv, Quiet
  <2>4. Verdicts'
    BY <1>0, <2>1, <2>2, VerdictsSame
  <2>5. Answers'
    BY <1>0, <2>1, <2>2, AnswersSame
  <2>6. Decisions'
    BY <1>0, <2>1, DecisionsSame
  <2>7. QED BY <1>1, <2>3, <2>4, <2>5, <2>6 DEF BInv
<1>8. QED BY <1>0, <1>1, <1>2, <1>3, <1>4, <1>5, <1>6, <1>7 DEF Next, BInv

-----------------------------------------------------------------------------
(* Every step is one of ApprovalDecision for every run.                    *)

\* The run is not decided by a console that was refused.
LEMMA StepOfDecision ==
  ASSUME NEW r \in Runs, run[r] \in {"waiting", "queued", "canceled"},
         \/ /\ run'[r] = run[r]
            /\ \/ Accepted(r)' = Accepted(r)
               \/ Accepted(r)' = Accepted(r) \cup {"canceled"}
               \/ /\ Accepted(r) \cap {"approved", "rejected"} = {}
                  /\ \E v \in {"approved", "rejected"} : Accepted(r)' = Accepted(r) \cup {v}
         \/ /\ Accepted(r)' = Accepted(r)
            /\ \/ run[r] = "waiting" /\ "approved" \in Accepted(r) /\ run'[r] = "queued"
               \/ run[r] = "waiting" /\ "rejected" \in Accepted(r) /\ run'[r] = "canceled"
               \/ "canceled" \in Accepted(r) /\ run'[r] = "canceled"
  PROVE  [D(r)!Next]_<<Accepted(r), run[r]>>
<1>1. /\ Outcome(run[r])' = Outcome(run'[r])
      /\ Outcome("waiting") = "open" /\ Outcome("queued") = "granted" /\ Outcome("canceled") = "ended"
  BY DEF Outcome
<1>2. CASE Accepted(r)' = Accepted(r) /\ run'[r] = run[r]
  BY <1>2
<1>3. CASE run'[r] = run[r] /\ Accepted(r)' = Accepted(r) \cup {"canceled"}
  BY <1>1, <1>3 DEF D!Next, D!Cancel
<1>4. CASE /\ run'[r] = run[r] /\ Accepted(r) \cap {"approved", "rejected"} = {}
           /\ \E v \in {"approved", "rejected"} : Accepted(r)' = Accepted(r) \cup {v}
  BY <1>1, <1>4 DEF D!Next, D!Decide
<1>5. CASE /\ Accepted(r)' = Accepted(r) /\ run[r] = "waiting" /\ run'[r] = "queued"
           /\ "approved" \in Accepted(r)
  BY <1>1, <1>5 DEF D!Next, D!Grant
<1>6. CASE /\ Accepted(r)' = Accepted(r) /\ run'[r] = "canceled"
           /\ \/ run[r] = "waiting" /\ "rejected" \in Accepted(r)
              \/ "canceled" \in Accepted(r)
  BY <1>1, <1>6 DEF D!Next, D!End
<1>7. QED BY <1>2, <1>3, <1>4, <1>5, <1>6

LEMMA DecisionStep ==
  ASSUME BInv, [Next]_vars, NEW r \in Runs, r \notin overruled'
  PROVE  [D(r)!Next]_<<Accepted(r), run[r]>>
<1>0. /\ BTypes /\ MInv /\ run[r] \in {"waiting", "queued", "canceled"}
      /\ UNCHANGED <<told, yes>> => Accepted(r)' = Accepted(r)
  BY DEF BInv, BTypes, Accepted
\* A verdict is accepted.
<1>1. ASSUME NEW c \in Callers, UNCHANGED bridgeVars, P!Publish(c)
      PROVE  [D(r)!Next]_<<Accepted(r), run[r]>>
  <2>1. UNCHANGED <<run, told, overruled>> /\ (yes' = yes \/ yes' = yes \cup {IdOf[c]})
    BY <1>1 DEF bridgeVars, P!Publish
  <2>2. CASE yes' = yes \/ r # IdOf[c]
    <3>1. Accepted(r)' = Accepted(r)
      BY <2>1, <2>2 DEF Accepted
    <3>2. QED BY <1>0, <2>1, <3>1, StepOfDecision
  <2>3. CASE yes' = yes \cup {IdOf[c]} /\ r = IdOf[c]
    <3>1. Accepted(r)' = Accepted(r) \cup {"approved"}
      BY <2>1, <2>3 DEF Accepted
    <3>2. Status(r) \in {"none", "expired", "interrupted"}
      BY <1>0, <1>1, <2>3 DEF MInv, P!VInv, P!Vacant, P!Publish, Status
    <3>3. "approved" \notin Accepted(r) /\ "rejected" \notin told[r]
      BY <2>1, <3>2 DEF BInv, Verdicts
    <3>4. Accepted(r) \cap {"approved", "rejected"} = {}
      BY <3>3 DEF Accepted
    <3>5. QED BY <1>0, <2>1, <3>1, <3>4, StepOfDecision
  <2>4. QED BY <2>1, <2>2, <2>3
<1>2. ASSUME NEW s \in Surfaces, NEW o \in Runs, NEW w \in {"yes", "no"}, Answer(s, o, w)
      PROVE  [D(r)!Next]_<<Accepted(r), run[r]>>
  <2>1. PICK v \in {"approved", "rejected"} : v = Verdict(w)
    BY DEF Verdict
  <2>2. /\ UNCHANGED <<run, overruled>> /\ told' = [told EXCEPT ![o] = told[o] \cup {v}]
        /\ Status(o) = "pending"
        /\ yes' = IF w = "yes" THEN yes \cup {o} ELSE yes
    <3>1. P!Respond(s, o, w)
      BY <1>2, SameSurface DEF Answer
    <3>2. QED BY <1>2, <2>1, <3>1 DEF Answer, P!Respond, Status
  <2>3. CASE o # r
    <3>1. Accepted(r)' = Accepted(r)
      BY <1>0, <2>2, <2>3 DEF Accepted, BTypes
    <3>2. QED BY <1>0, <2>2, <3>1, StepOfDecision
  <2>4. CASE o = r
    <3>1. "approved" \notin Accepted(r) /\ "rejected" \notin told[r]
      BY <2>2, <2>4 DEF BInv, Verdicts
    <3>2. Accepted(r) \cap {"approved", "rejected"} = {}
      BY <3>1 DEF Accepted
    <3>3. told'[r] = told[r] \cup {v} /\ (w = "yes" => v = "approved")
      BY <1>0, <2>1, <2>2, <2>4 DEF BTypes, Verdict
    <3>4. Accepted(r)' = Accepted(r) \cup {v}
      BY <2>2, <2>4, <3>3 DEF Accepted
    <3>5. QED BY <1>0, <2>2, <3>2, <3>4, StepOfDecision
  <2>5. QED BY <2>3, <2>4
<1>3. ASSUME NEW s \in Surfaces, NEW o \in Runs, Cancel(s, o)
      PROVE  [D(r)!Next]_<<Accepted(r), run[r]>>
  <2>1. /\ UNCHANGED <<run, yes>> /\ told'[o] = told[o] \cup {"canceled"}
        /\ o # r => told'[r] = told[r]
    BY <1>0, <1>3 DEF Cancel, managerVars, BTypes
  <2>2. Accepted(r)' = Accepted(r) \/ Accepted(r)' = Accepted(r) \cup {"canceled"}
    BY <2>1 DEF Accepted
  <2>3. QED BY <1>0, <2>1, <2>2, StepOfDecision
\* The run is decided.
<1>4. ASSUME NEW c \in Callers, Apply(c) PROVE [D(r)!Next]_<<Accepted(r), run[r]>>
  <2>1. Accepted(r)' = Accepted(r) /\ overruled' = overruled
    BY <1>0, <1>4 DEF Apply, managerVars
  <2>2. CASE IdOf[c] # r
    <3>1. run'[r] = run[r]
      BY <1>0, <1>4, <2>2 DEF Apply, Save, BTypes
    <3>2. QED BY <1>0, <2>1, <3>1, StepOfDecision
  <2>3. CASE IdOf[c] = r
    <3>1. run[r] \in {"waiting", "canceled"} /\ result[c] \in {"yes", "no"}
      BY <1>4, <2>1, <2>3 DEF BInv, Decisions, Apply
    <3>2. run'[r] = IF Saves(r, Decided(result[c])) THEN Decided(result[c]) ELSE run[r]
      BY <1>0, <1>4, <2>3 DEF Apply, Save, BTypes
    <3>3. result[c] = "yes" => "approved" \in Accepted(r)
      BY <1>0, <2>3 DEF MInv, P!RInv, P!ApprovalIsReal, Accepted
    <3>4. result[c] = "no" => "rejected" \in Accepted(r) \/ "canceled" \in Accepted(r)
      BY <2>3 DEF BInv, Answers, Negative, Accepted
    <3>5. CASE run[r] = "canceled"
      <4>1. run'[r] = "canceled"
        BY <3>2, <3>5 DEF Saves
      <4>2. QED BY <1>0, <2>1, <3>5, <4>1, StepOfDecision
    <3>6. CASE run[r] = "waiting" /\ result[c] = "yes"
      <4>1. run'[r] = "queued"
        BY <3>2, <3>6 DEF Saves, Decided
      <4>2. QED BY <1>0, <2>1, <3>3, <3>6, <4>1, StepOfDecision
    <3>7. CASE run[r] = "waiting" /\ result[c] = "no"
      <4>1. run'[r] = "canceled"
        BY <3>2, <3>7 DEF Saves, Decided
      <4>2. QED BY <1>0, <2>1, <3>4, <3>7, <4>1, StepOfDecision
    <3>8. QED BY <3>1, <3>5, <3>6, <3>7
  <2>4. QED BY <2>2, <2>3
<1>5. ASSUME NEW s \in Surfaces, CancelSave(s) PROVE [D(r)!Next]_<<Accepted(r), run[r]>>
  <2>1. PICK o \in Runs : o = task[s].run
    BY <1>0, <1>5, TaskFacts DEF CancelSave
  <2>2. Accepted(r)' = Accepted(r)
    BY <1>0, <1>5 DEF CancelSave, managerVars
  <2>3. run'[o] = "canceled" /\ (o # r => run'[r] = run[r])
    BY <1>0, <1>5, <2>1 DEF CancelSave, Save, Saves, BTypes
  <2>4. "canceled" \in told[o]
    BY <1>5, <2>1 DEF BInv, Answers, CancelSave
  <2>5. o = r => "canceled" \in Accepted(r)
    BY <2>4 DEF Accepted
  <2>6. QED BY <1>0, <2>2, <2>3, <2>5, StepOfDecision
<1>6. ASSUME NEW s \in Surfaces, FallBackSave(s) PROVE [D(r)!Next]_<<Accepted(r), run[r]>>
  <2>1. PICK o \in Runs : o = task[s].run
    BY <1>0, <1>6, TaskFacts DEF FallBackSave
  <2>2. o # r
    BY <1>6, <2>1 DEF FallBackSave
  <2>3. yes' = yes /\ told'[r] = told[r]
    BY <1>0, <1>6, <2>1, <2>2 DEF FallBackSave, managerVars, BTypes
  <2>4. run'[r] = run[r]
    BY <1>0, <1>6, <2>1, <2>2 DEF FallBackSave, Save, BTypes
  <2>5. Accepted(r)' = Accepted(r)
    BY <2>3 DEF Accepted
  <2>6. QED BY <1>0, <2>4, <2>5, StepOfDecision
\* The other steps touch neither.
<1>7. CASE UNCHANGED <<run, told, yes>>
  BY <1>0, <1>7, StepOfDecision
<1>8. ASSUME NEW c \in Callers, UNCHANGED bridgeVars, P!CallerStep(c), ~P!Publish(c)
      PROVE  UNCHANGED <<run, told, yes>>
  BY <1>8 DEF bridgeVars, P!CallerStep, P!Revive, P!Enqueue, P!Refuse, P!GiveUp, P!Receive,
              P!Poll, P!Settle, P!Watch
<1>9. ASSUME NEW c \in Callers, Scan(c) \/ Load(c) \/ Finish(c) PROVE UNCHANGED <<run, told, yes>>
  BY <1>9, SameCaller DEF Scan, Load, Finish, bridgeVars, managerVars, P!Ask, P!Again
<1>10. ASSUME NEW s \in Surfaces,
              \/ UNCHANGED bridgeVars /\ M!Send(s)
              \/ FallBack(s) \/ CancelInterrupt(s)
              \/ \E o \in Runs, w \in {"yes", "no"} : Refused(s, o, w)
       PROVE  UNCHANGED <<run, told, yes>>
  BY <1>10, SameSurface DEF bridgeVars, managerVars, P!Send, FallBack, CancelInterrupt, P!Interrupt, Refused
<1>11. ASSUME NEW p \in Procs,
              \/ UNCHANGED bridgeVars /\ (M!Look(p) \/ M!Dispose(p) \/ M!Start(p))
              \/ Crash(p)
       PROVE  UNCHANGED <<run, told, yes>>
  BY <1>11, SameProcess DEF bridgeVars, Crash, P!Look, P!Dispose, P!Start, P!Crash
<1>12. CASE UNCHANGED vars
  BY <1>7, <1>12 DEF vars, bridgeVars, managerVars
<1>13. ASSUME NEW c \in Callers, CoordinatorStep(c) PROVE [D(r)!Next]_<<Accepted(r), run[r]>>
  BY <1>1, <1>4, <1>7, <1>8, <1>9, <1>13, SameCaller DEF CoordinatorStep
<1>14. QED BY <1>2, <1>3, <1>5, <1>6, <1>7, <1>10, <1>11, <1>12, <1>13 DEF Next

\* The composition keeps the promise of ApprovalDecision for every run: one verdict
\* is accepted of all that answer, expire or interrupt a request, and only what was
\* accepted happens to the run.  It does so as long as the file has room: a fact
\* that leaves it is forgotten with its verdict (append_pending_fact), and then a
\* second verdict may be accepted.
THEOREM BridgeKeepsPromise == Setting => (Spec /\ []Room => KeepsPromise)
<1> SUFFICES ASSUME Setting PROVE Spec /\ []Room => KeepsPromise
  OBVIOUS
<1>1. Init => BInv
  BY InitHolds
<1>2. BInv /\ Room /\ [Next]_vars => BInv'
  BY BridgeStep
<1>3. Init => \A r \in Runs : D(r)!Init
  <2>1. ASSUME Init, NEW r \in Runs PROVE D(r)!Init
    <3>1. told[r] = {} /\ yes = {} /\ run[r] = "waiting"
      BY <2>1 DEF Init, M!Init
    <3>2. QED BY <3>1 DEF D!Init, Accepted, Outcome
  <2>2. QED BY <2>1
<1>4. BInv /\ [Next]_vars =>
        [\A r \in Runs \ overruled' : [D(r)!Next]_<<Accepted(r), run[r]>>]_vars
  <2>1. ASSUME BInv, [Next]_vars, NEW r \in Runs \ overruled'
        PROVE  [D(r)!Next]_<<Accepted(r), run[r]>>
    BY <2>1, DecisionStep
  <2>2. QED BY <2>1
<1>5. QED BY <1>1, <1>2, <1>3, <1>4, PTL DEF Spec, KeepsPromise

-----------------------------------------------------------------------------
(* What holds without any of these assumptions.                            *)

\* A run goes on only when its approval was accepted.
GoesOnApproved == \A r \in Runs : run[r] = "queued" => "approved" \in Accepted(r)

AInv == P!RInv /\ BTypes /\ GoesOnApproved

LEMMA ApprovedStep == AInv /\ [Next]_vars => AInv'
<1>1. SUFFICES ASSUME AInv, [Next]_vars PROVE AInv'
  OBVIOUS
<1>2. P!RInv' /\ BTypes' /\ BTypes /\ P!RInv
  BY <1>1, RealStep, TypesStep DEF AInv
<1>3. \A r \in Runs : "approved" \in Accepted(r) => "approved" \in Accepted(r)'
  <2>1. \A r \in Runs : told[r] \subseteq told'[r]
    <3>1. CASE UNCHANGED told
      BY <3>1
    <3>2. ASSUME NEW s \in Surfaces, NEW r \in Runs, NEW w \in {"yes", "no"},
                 Answer(s, r, w) \/ Cancel(s, r)
          PROVE  \A o \in Runs : told[o] \subseteq told'[o]
      BY <1>2, <3>2 DEF Answer, Cancel, BTypes
    <3>3. ASSUME NEW s \in Surfaces, FallBackSave(s) PROVE \A o \in Runs : told[o] \subseteq told'[o]
      BY <1>2, <3>3 DEF FallBackSave, BTypes
    <3>4. CASE UNCHANGED bridgeVars
      BY <3>1, <3>4 DEF bridgeVars
    <3>5. CASE UNCHANGED vars
      BY <3>1, <3>5 DEF vars, bridgeVars
    <3>6. ASSUME NEW c \in Callers, CoordinatorStep(c) PROVE UNCHANGED told
      BY <3>6 DEF CoordinatorStep, Scan, Load, Apply, Finish, bridgeVars
    <3>7. ASSUME NEW s \in Surfaces,
                 \/ FallBack(s) \/ CancelSave(s) \/ CancelInterrupt(s)
                 \/ \E r \in Runs, w \in {"yes", "no"} : Refused(s, r, w)
          PROVE  UNCHANGED told
      BY <3>7 DEF FallBack, CancelSave, CancelInterrupt, Refused
    <3>8. ASSUME NEW p \in Procs, Crash(p) PROVE UNCHANGED told
      BY <3>8 DEF Crash
    <3>9. QED BY <1>1, <3>1, <3>2, <3>3, <3>4, <3>5, <3>6, <3>7, <3>8 DEF Next
  <2>2. yes \subseteq yes'
    <3>1. CASE \E s \in Surfaces, r \in Runs, w \in {"yes", "no"} : Refused(s, r, w)
      BY <3>1 DEF Refused
    <3>2. CASE ~\E s \in Surfaces, r \in Runs, w \in {"yes", "no"} : Refused(s, r, w)
      <4>1. [P!Next]_P!vars
        BY <1>1, <1>2, <3>2, StepOfManager
      <4>2. CASE UNCHANGED P!vars
        BY <4>2 DEF P!vars
      <4>3. CASE P!Next
        BY <4>3 DEF P!Next, P!Ask, P!CallerStep, P!Revive, P!Publish, P!Enqueue, P!Refuse, P!GiveUp,
                    P!Receive, P!Poll, P!Settle, P!Watch, P!Again, P!Deadline, P!Send, P!Interrupt,
                    P!Respond, P!Prune, P!Look, P!Dispose, P!Start, P!Crash, P!Reconsider
      <4>4. QED BY <4>1, <4>2, <4>3
    <3>3. QED BY <3>1, <3>2
  <2>3. QED BY <2>1, <2>2 DEF Accepted
<1>4. ASSUME UNCHANGED run PROVE GoesOnApproved'
  BY <1>1, <1>2, <1>3, <1>4 DEF AInv, GoesOnApproved
<1>5. ASSUME NEW c \in Callers, Apply(c) PROVE GoesOnApproved'
  <2>1. result[c] = "yes" => "approved" \in Accepted(IdOf[c])'
    BY <1>2, <1>3, RunIds DEF P!RInv, P!ApprovalIsReal, Accepted
  <2>2. /\ run'[IdOf[c]] = "queued" => result[c] = "yes" \/ run[IdOf[c]] = "queued"
        /\ \A r \in Runs : r # IdOf[c] => run'[r] = run[r]
    BY <1>2, <1>5, RunIds DEF Apply, Save, Decided, BTypes
  <2>3. QED BY <1>1, <1>3, <2>1, <2>2, RunIds DEF AInv, GoesOnApproved
<1>6. ASSUME NEW s \in Surfaces, FallBackSave(s) PROVE GoesOnApproved'
  <2>1. PICK r \in Runs, w \in {"yes", "no"} : r = task[s].run /\ w = task[s].word
    BY <1>2, <1>6, TaskFacts DEF FallBackSave
  <2>2. \A o \in Runs : o # r => run'[o] = run[o]
    BY <1>2, <1>6, <2>1 DEF FallBackSave, Save, BTypes
  <2>3. CASE Saves(r, Decided(w)) /\ w = "yes"
    <3>1. "approved" \in told'[r]
      BY <1>2, <1>6, <2>1, <2>3 DEF FallBackSave, Verdict, BTypes
    <3>2. "approved" \in Accepted(r)'
      BY <3>1 DEF Accepted
    <3>3. QED BY <1>1, <1>3, <2>2, <3>2 DEF AInv, GoesOnApproved
  <2>4. CASE ~Saves(r, Decided(w)) \/ w = "no"
    <3>1. run'[r] = "queued" => run[r] = "queued"
      BY <1>2, <1>6, <2>1, <2>4 DEF FallBackSave, Save, Decided, BTypes
    <3>2. QED BY <1>1, <1>3, <2>2, <3>1 DEF AInv, GoesOnApproved
  <2>5. QED BY <2>3, <2>4
<1>7. ASSUME NEW s \in Surfaces, CancelSave(s) PROVE GoesOnApproved'
  <2>1. PICK r \in Runs : r = task[s].run
    BY <1>2, <1>7, TaskFacts DEF CancelSave
  <2>2. \A o \in Runs : run'[o] = run[o] \/ run'[o] = "canceled"
    BY <1>2, <1>7, <2>1, RunTypes DEF CancelSave
  <2>3. QED BY <1>1, <1>3, <2>2 DEF AInv, GoesOnApproved
<1>8. ASSUME NEW c \in Callers, CoordinatorStep(c), ~Apply(c) PROVE UNCHANGED run
  BY <1>8 DEF CoordinatorStep, Scan, Load, Finish, bridgeVars
<1>9. ASSUME NEW s \in Surfaces,
             \/ UNCHANGED bridgeVars /\ M!Send(s)
             \/ FallBack(s) \/ CancelInterrupt(s)
             \/ \E r \in Runs : \/ Cancel(s, r)
                                \/ \E w \in {"yes", "no"} : Answer(s, r, w) \/ Refused(s, r, w)
      PROVE  UNCHANGED run
  BY <1>9 DEF bridgeVars, FallBack, CancelInterrupt, Cancel, Answer, Refused
<1>10. ASSUME NEW p \in Procs,
              \/ UNCHANGED bridgeVars /\ (M!Look(p) \/ M!Dispose(p) \/ M!Start(p))
              \/ Crash(p)
       PROVE  UNCHANGED run
  BY <1>10 DEF bridgeVars, Crash
<1>11. ASSUME UNCHANGED vars PROVE GoesOnApproved'
  BY <1>4, <1>11 DEF vars, bridgeVars
<1>12. GoesOnApproved'
  <2>1. ASSUME NEW c \in Callers, CoordinatorStep(c) PROVE GoesOnApproved'
    BY <1>4, <1>5, <1>8, <2>1
  <2>2. QED BY <1>1, <1>4, <1>6, <1>7, <1>9, <1>10, <1>11, <2>1 DEF Next
<1>13. QED BY <1>2, <1>12 DEF AInv

\* No run goes on unless a person or a rule approved its step: whatever queue and
\* file have to drop, however many desktops run and die, and also when a console
\* overrules a verdict (approve_and_resume_workflow, decide_workflow_step).
THEOREM NoneGoesOnUnapproved == Spec => []GoesOnApproved
<1>1. Init => AInv
  <2>1. ASSUME Init PROVE BInv /\ GoesOnApproved
    BY <2>1, InitHolds DEF Init, GoesOnApproved
  <2>2. QED BY <2>1 DEF BInv, MInv, AInv
<1>2. AInv => GoesOnApproved
  BY DEF AInv
<1>3. QED BY <1>1, <1>2, ApprovedStep, PTL DEF Spec

=============================================================================
