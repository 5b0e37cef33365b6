----------------------- MODULE WorkflowRunner_proofs -----------------------
(***************************************************************************)
(* Theorems about WorkflowRunner for every package, every number of        *)
(* threads, processes and callers, and every bound.                        *)
(***************************************************************************)
EXTENDS WorkflowRunner, WellFoundedInduction, TLAPS

USE LedgerAssumption, RunnerAssumption

\* Every state a run is rewritten to is a run again.
LEMMA RunOperators ==
  ASSUME NEW run \in Runs, NEW s \in Steps
  PROVE  /\ \A st \in StepStatus : WithStep(run, s, st) \in Runs
         /\ Started(run, s) \in Runs
         /\ Blocked(run, s) \in Runs
         /\ FailedAt(run, s) \in Runs
         /\ Requeued(run, s) \in Runs
  BY DEF Runs, RunStatus, StepStatus, WithStep, Started, Blocked, FailedAt,
         Requeued, NoStep, Steps

LEMMA WholeRunOperators ==
  ASSUME NEW run \in Runs
  PROVE  /\ \A v \in BOOLEAN : Concluded(run, v) \in Runs
         /\ PartiallyDone(run) \in Runs
         /\ Canceled(run) \in Runs
         /\ Recovered(run) \in Runs
         /\ MarkedFailed(run) \in Runs
         /\ Abandoned(run) \in Runs
<1>1. \A v \in BOOLEAN : Concluded(run, v) \in Runs
  BY DEF Runs, RunStatus, Concluded, NoStep, Steps
<1>2. PartiallyDone(run) \in Runs
  BY DEF Runs, RunStatus, StepStatus, PartiallyDone, NoStep, Steps
<1>3. Canceled(run) \in Runs
  BY DEF Runs, RunStatus, StepStatus, ApprovalStatus, Canceled, NoStep, Steps
<1>4. Recovered(run) \in Runs /\ MarkedFailed(run) \in Runs
  BY DEF Runs, RunStatus, StepStatus, Recovered, MarkedFailed, NoStep, Steps
<1>5. Abandoned(run) \in Runs
  BY DEF Runs, RunStatus, StepStatus, Abandoned, NoStep, Steps
<1>6. QED BY <1>1, <1>2, <1>3, <1>4, <1>5

LEMMA DecisionOperators ==
  ASSUME NEW run \in Runs, NEW a \in Decidable(run)
  PROVE  /\ run.cur \in Steps
         /\ ApprovedStep(run, a) \in Runs
         /\ RejectedStep(run, a) \in Runs
  BY DEF Runs, RunStatus, StepStatus, ApprovalStatus, Decidable, ApprovedStep,
         RejectedStep, Requeued, WithStep, NoStep, Steps

LEMMA RewritesAreRuns ==
  ASSUME NEW run \in Runs, NEW o \in Commands, NEW new \in Rewrites(o, run)
  PROVE  new \in Runs
  BY WholeRunOperators, DecisionOperators DEF Rewrites, Commands

LEMMA NewRunIsRun == NewRun \in Runs
  BY DEF NewRun, Runs, RunStatus, StepStatus, ApprovalStatus, NoStep, Steps

LEMMA FirstStep == 1 \in Steps
  BY DEF Steps

\* What the pieces of the thread actions do to the types.
LEMMA RestType ==
  ASSUME TypeOK, NEW w \in Workers, Rest(w)
  PROVE  /\ pc' \in [Workers -> Locations]
         /\ copy' \in [Workers -> Runs]
         /\ at' \in [Workers -> Steps]
         /\ background' \in [Workers -> BOOLEAN]
  BY NewRunIsRun, FirstStep DEF TypeOK, Rest, Goto, Locations

LEMMA FailType ==
  ASSUME TypeOK, NEW w \in Workers, Fail(w)
  PROVE  /\ pc' \in [Workers -> Locations]
         /\ copy' \in [Workers -> Runs]
         /\ at' \in [Workers -> Steps]
         /\ background' \in [Workers -> BOOLEAN]
<1>1. CASE background[w]
  BY <1>1 DEF Fail, TypeOK, Goto, Locations
<1>2. CASE ~background[w]
  BY <1>2, RestType DEF Fail
<1>3. QED BY <1>1, <1>2

LEMMA PersistType ==
  ASSUME TypeOK, NEW w \in Workers, NEW run \in Runs, NEW l \in Locations,
         Persist(w, run, l)
  PROVE  /\ row' \in Runs
         /\ age' \in 0..2
         /\ pc' \in [Workers -> Locations]
         /\ copy' \in [Workers -> Runs]
  BY DEF Persist, SaveRun, TypeOK, LedgerTypeOK, Goto, GiveUp, Locations, InSession

LEMMA ClerkRestType ==
  ASSUME TypeOK, NEW c \in Clerks, ClerkRest(c)
  PROVE  /\ cpc' \in [Clerks -> {"idle", "selected", "loaded", "clearing"}]
         /\ op' \in [Clerks -> Commands]
         /\ ccopy' \in [Clerks -> Runs]
  BY NewRunIsRun DEF TypeOK, ClerkRest, Commands

-----------------------------------------------------------------------------
(* Type correctness.                                                       *)

LEMMA InitType == Init => TypeOK
<1>1. Init => LedgerTypeOK
  BY NewRunIsRun DEF Init, LedgerInit, LedgerTypeOK, NoLease
<1>2. Init => /\ pc \in [Workers -> Locations]
              /\ copy \in [Workers -> Runs]
              /\ at \in [Workers -> Steps]
              /\ background \in [Workers -> BOOLEAN]
  BY NewRunIsRun, FirstStep DEF Init, Locations
<1>3. Init => /\ cpc \in [Clerks -> {"idle", "selected", "loaded", "clearing"}]
              /\ op \in [Clerks -> Commands]
              /\ ccopy \in [Clerks -> Runs]
  BY NewRunIsRun DEF Init, Commands
<1>4. Init => /\ granted \subseteq Steps
              /\ sessions \in 0..MaxSessions
              /\ commands \in 0..MaxCommands
              /\ resolved \cup lost \subseteq Steps
  BY DEF Init
<1>5. Init => strayed \in BOOLEAN
  BY DEF Init
<1>6. QED BY <1>1, <1>2, <1>3, <1>4, <1>5 DEF TypeOK

\* The steps of a thread up to the top of its loop.
LEMMA EnteringType ==
  ASSUME TypeOK, NEW w \in Workers,
         (\E f \in BOOLEAN : Load(w, f)) \/ Answer(w) \/ Enter(w) \/ Lease(w) \/ Top(w)
  PROVE  TypeOK'
<1> USE DEF TypeOK, LedgerTypeOK, ledgerVars, clerkVars, countVars, eventVars
<1>1. ASSUME NEW f \in BOOLEAN, Load(w, f) PROVE TypeOK'
  BY <1>1 DEF Load, Goto, Locations
<1>2. CASE Answer(w)
  <2>1. CASE Fail(w)
    BY <1>2, <2>1, FailType DEF Answer
  <2>2. CASE ~Fail(w)
    BY <1>2, <2>2 DEF Answer, Goto, Locations
  <2>3. QED BY <2>1, <2>2
<1>3. CASE Enter(w)
  <2>1. CASE Fail(w)
    BY <1>3, <2>1, FailType DEF Enter
  <2>2. CASE Rest(w)
    BY <1>3, <2>2, RestType DEF Enter
  <2>3. CASE ~Fail(w) /\ ~Rest(w)
    BY <1>3, <2>3 DEF Enter, Goto, Locations
  <2>4. QED BY <2>1, <2>2, <2>3
<1>4. CASE Lease(w)
  <2>1. CASE TakeLease(ProcOf[w])
    BY <1>4, <2>1 DEF Lease, TakeLease, LeaseFree, Goto, Locations, InSession
  <2>2. CASE ~TakeLease(ProcOf[w])
    BY <1>4, <2>2, FailType DEF Lease
  <2>3. QED BY <2>1, <2>2
<1>5. CASE Top(w)
  BY <1>5 DEF Top, Goto, Locations, InSession
<1>6. QED BY <1>1, <1>2, <1>3, <1>4, <1>5

\* The steps of a thread that rewrite the run.
LEMMA PersistingType ==
  ASSUME TypeOK, NEW w \in Workers,
         ResumeLoop(w) \/ Conclude(w) \/ (\E s \in Steps : Plan(w, s)) \/ Record(w)
  PROVE  TypeOK'
<1> USE DEF TypeOK, LedgerTypeOK, clerkVars, countVars, eventVars
<1>0. /\ copy[w] \in Runs /\ at[w] \in Steps
      /\ {"planning", "executing", "top", "leaving", "asking", "completing"}
           \subseteq Locations
  BY DEF Locations, InSession
<1>1. CASE ResumeLoop(w)
  <2>1. CASE copy[w].cur \in questions
    BY <1>1, <2>1 DEF ResumeLoop, Goto, GiveUp, Locations, InSession
  <2>2. CASE copy[w].cur \notin questions
    <3>1. copy[w].cur \in Steps
      BY <1>1 DEF ResumeLoop, PausedLoop
    <3>2. Requeued(copy[w], copy[w].cur) \in Runs
      BY <1>0, <3>1, RunOperators
    <3>3. Persist(w, Requeued(copy[w], copy[w].cur), "planning")
      BY <1>1, <2>2 DEF ResumeLoop
    <3>4. QED BY <1>0, <1>1, <3>2, <3>3, PersistType DEF ResumeLoop
  <2>3. QED BY <2>1, <2>2
<1>2. CASE Conclude(w)
  <2>1. PICK run \in Runs : Persist(w, run, "leaving")
    BY <1>0, <1>2, WholeRunOperators DEF Conclude
  <2>2. QED BY <1>0, <1>2, <2>1, PersistType DEF Conclude
<1>3. ASSUME NEW s \in Steps, Plan(w, s) PROVE TypeOK'
  <2>1. CASE \E run \in Runs, l \in {"top", "leaving", "executing"} : Persist(w, run, l)
    BY <1>0, <1>3, <2>1, PersistType DEF Plan
  <2>2. CASE ~\E run \in Runs, l \in {"top", "leaving", "executing"} : Persist(w, run, l)
    <3>1. GiveUp(w) /\ UNCHANGED <<row, age, copy>>
      BY <1>0, <1>3, <2>2, RunOperators DEF Plan, StepStatus
    <3>2. QED BY <1>3, <3>1 DEF Plan, Goto, GiveUp, Locations, InSession
  <2>3. QED BY <2>1, <2>2
<1>4. CASE Record(w)
  <2>1. CASE \E run \in Runs, l \in {"top", "leaving", "asking", "completing"} :
                Persist(w, run, l)
    BY <1>0, <1>4, <2>1, PersistType DEF Record
  <2>2. CASE ~\E run \in Runs, l \in {"top", "leaving", "asking", "completing"} :
                Persist(w, run, l)
    <3>1. GiveUp(w) /\ UNCHANGED <<row, age, copy>>
      BY <1>0, <1>4, <2>2, RunOperators DEF Record, StepStatus
    <3>2. QED BY <1>4, <3>1 DEF Record, Goto, GiveUp, Locations, InSession
  <2>3. QED BY <2>1, <2>2
<1>5. QED BY <1>1, <1>2, <1>3, <1>4

\* The other steps of a thread.
LEMMA ClosingType ==
  ASSUME TypeOK, NEW w \in Workers,
         \/ Executed(w) \/ Report(w) \/ Leave(w) \/ MarkLoad(w) \/ MarkSave(w)
         \/ MarkClear(w) \/ Renew(w)
  PROVE  TypeOK'
<1> USE DEF TypeOK, LedgerTypeOK, ledgerVars, clerkVars, countVars, eventVars, workerVars
<1>1. CASE Executed(w)
  BY <1>1 DEF Executed, Goto, Locations, InSession
<1>2. CASE Report(w)
  <2>1. /\ pc' \in [Workers -> Locations]
        /\ questions' \cup outputs' \cup resolved' \cup lost' \subseteq Steps
    BY <1>2 DEF Report, Goto, GiveUp, Locations, InSession
  <2>2. UNCHANGED <<row, age, lease, alive, copy, at, background, clerkVars,
                    granted, sessions, commands, strayed>>
    BY <1>2 DEF Report
  <2>3. QED BY <2>1, <2>2
<1>3. CASE Leave(w)
  <2>1. lease' \in [owner : Procs \cup {NoProc}, live : BOOLEAN]
    BY <1>3 DEF Leave, ReleaseLease, NoLease
  <2>2. CASE pc[w] = "leaving"
    BY <1>3, <2>1, <2>2, RestType DEF Leave
  <2>3. CASE pc[w] # "leaving"
    BY <1>3, <2>1, <2>3, FailType DEF Leave
  <2>4. QED BY <2>2, <2>3
<1>4. CASE MarkLoad(w)
  <2>1. CASE row.status \in Terminal
    BY <1>4, <2>1, RestType DEF MarkLoad
  <2>2. CASE row.status \notin Terminal
    BY <1>4, <2>2 DEF MarkLoad, Goto, Locations
  <2>3. QED BY <2>1, <2>2
<1>5. CASE MarkSave(w)
  <2>1. MarkedFailed(copy[w]) \in Runs
    BY WholeRunOperators
  <2>2. CASE SaveAccepts(MarkedFailed(copy[w]))
    BY <1>5, <2>1, <2>2 DEF MarkSave, SaveRun, Goto, Locations
  <2>3. CASE ~SaveAccepts(MarkedFailed(copy[w]))
    BY <1>5, <2>3, RestType DEF MarkSave, SaveRun
  <2>4. QED BY <2>2, <2>3
<1>6. CASE MarkClear(w)
  BY <1>6, RestType DEF MarkClear, ClearLease, NoLease
<1>7. CASE Renew(w)
  BY <1>7 DEF Renew, RenewLease
<1>8. QED BY <1>1, <1>2, <1>3, <1>4, <1>5, <1>6, <1>7

\* The steps of the callers.
LEMMA ClerkType ==
  ASSUME TypeOK, NEW c \in Clerks,
         \/ \E o \in Commands : Request(c, o) \/ Select(c, o)
         \/ Reload(c) \/ ClerkSave(c) \/ ClerkClear(c) \/ ClerkDies(c)
  PROVE  TypeOK'
<1> USE DEF TypeOK, LedgerTypeOK, ledgerVars, countVars, eventVars, workerVars
<1>1. ASSUME NEW o \in Commands, Request(c, o) PROVE TypeOK'
  BY <1>1 DEF Request
<1>2. ASSUME NEW o \in Commands, Select(c, o) PROVE TypeOK'
  BY <1>2 DEF Select
<1>3. CASE Reload(c)
  <2>1. CASE StillActionable(op[c], row)
    BY <1>3, <2>1 DEF Reload
  <2>2. CASE ~StillActionable(op[c], row)
    BY <1>3, <2>2, ClerkRestType DEF Reload
  <2>3. QED BY <2>1, <2>2
<1>4. CASE ClerkSave(c)
  <2>1. PICK run \in Rewrites(op[c], ccopy[c]) :
          \/ /\ SaveRun(run)
             /\ granted' = IF op[c] = "approve"
                           THEN granted \cup {ccopy[c].cur} ELSE granted
             /\ IF op[c] \in {"recover", "force", "abandon"}
                THEN cpc' = [cpc EXCEPT ![c] = "clearing"] /\ UNCHANGED <<op, ccopy>>
                ELSE ClerkRest(c)
          \/ ~SaveAccepts(run) /\ ClerkRest(c) /\ UNCHANGED <<row, age, granted>>
    BY <1>4 DEF ClerkSave
  <2>2. run \in Runs
    BY RewritesAreRuns
  <2>3. row' \in Runs /\ age' \in 0..2
    BY <2>1, <2>2 DEF SaveRun
  <2>4. granted' \subseteq Steps
    <3>1. op[c] = "approve" => ccopy[c].cur \in Steps
      <4>1. SUFFICES ASSUME op[c] = "approve" PROVE ccopy[c].cur \in Steps
        OBVIOUS
      <4>2. PICK a \in Decidable(ccopy[c]) : TRUE
        BY <4>1 DEF Rewrites
      <4>3. QED BY <4>2, DecisionOperators
    <3>2. QED BY <2>1, <3>1
  <2>5. /\ cpc' \in [Clerks -> {"idle", "selected", "loaded", "clearing"}]
        /\ op' \in [Clerks -> Commands]
        /\ ccopy' \in [Clerks -> Runs]
    BY <2>1, ClerkRestType
  <2>6. QED BY <1>4, <2>3, <2>4, <2>5 DEF ClerkSave
<1>5. CASE ClerkClear(c)
  BY <1>5, ClerkRestType DEF ClerkClear, ClearLease, NoLease
<1>6. CASE ClerkDies(c)
  BY <1>6, ClerkRestType DEF ClerkDies
<1>7. QED BY <1>1, <1>2, <1>3, <1>4, <1>5, <1>6

\* The steps of the environment.
LEMMA EnvironmentType ==
  ASSUME TypeOK, (\E p \in Procs : Crash(p)) \/ Expire \/ Age
  PROVE  TypeOK'
<1> USE DEF TypeOK, LedgerTypeOK, clerkVars, countVars, eventVars, workerVars
<1>1. ASSUME NEW p \in Procs, Crash(p) PROVE TypeOK'
  BY <1>1, NewRunIsRun, FirstStep DEF Crash, Locations
<1>2. CASE Expire
  BY <1>2 DEF Expire
<1>3. CASE Age
  BY <1>3 DEF Age
<1>4. QED BY <1>1, <1>2, <1>3

\* Every variable keeps its type: runs stay runs, locations stay locations, and
\* the history of approvals only names steps.
THEOREM TypeCorrect == Spec => []TypeOK
<1>1. TypeOK /\ [Next]_vars => TypeOK'
  <2>1. SUFFICES ASSUME TypeOK, [Next]_vars PROVE TypeOK'
    OBVIOUS
  <2>2. CASE UNCHANGED vars
    BY <2>1, <2>2 DEF vars, countVars, eventVars, TypeOK, LedgerTypeOK
  <2>3. CASE Next
    BY <2>1, <2>3, EnteringType, PersistingType, ClosingType, ClerkType,
       EnvironmentType DEF Next, WorkerStep, ClerkStep
  <2>4. QED BY <2>1, <2>2, <2>3
<1>2. QED BY <1>1, InitType, PTL DEF Spec

-----------------------------------------------------------------------------
(* The verdict of a finished run.                                          *)

\* Whoever changes the row does so through save_run.
LEMMA RowChangesBySave ==
  ASSUME [Next]_vars
  PROVE  UNCHANGED row \/ \E run : SaveRun(run)
<1>1. CASE UNCHANGED vars
  BY <1>1 DEF vars
<1>2. ASSUME NEW w \in Workers, WorkerStep(w) PROVE UNCHANGED row \/ \E run : SaveRun(run)
  BY <1>2 DEF WorkerStep, Load, Answer, Enter, Lease, Top, ResumeLoop, Conclude,
     Plan, Executed, Record, Report, Leave, MarkLoad, MarkSave, MarkClear, Persist,
     ledgerVars
<1>3. ASSUME NEW w \in Workers, Renew(w) \/ \E f \in BOOLEAN : Load(w, f)
      PROVE  UNCHANGED row
  BY <1>3 DEF Renew, Load, ledgerVars
<1>4. ASSUME NEW c \in Clerks, ClerkStep(c) PROVE UNCHANGED row \/ \E run : SaveRun(run)
  BY <1>4 DEF ClerkStep, Reload, ClerkSave, ClerkClear, ledgerVars
<1>5. ASSUME NEW c \in Clerks,
             ClerkDies(c) \/ \E o \in Commands : Request(c, o) \/ Select(c, o)
      PROVE  UNCHANGED row
  BY <1>5 DEF ClerkDies, Request, Select, ledgerVars
<1>6. CASE (\E p \in Procs : Crash(p)) \/ Expire \/ Age
  BY <1>6 DEF Crash, Expire, Age
<1>7. QED BY <1>1, <1>2, <1>3, <1>4, <1>5, <1>6 DEF Next

\* A run that succeeded, failed or was canceled keeps that status for ever,
\* however late or stale the copy is that somebody saves.
THEOREM FinalStatusIsFinal == Spec => FinalIsFinal
<1>1. [Next]_vars => [row.status \in Terminal => row'.status = row.status]_vars
  BY RowChangesBySave DEF SaveRun, SaveAccepts
<1>2. QED BY <1>1, PTL DEF Spec, FinalIsFinal

-----------------------------------------------------------------------------
(* Approval before execution.                                              *)

\* The id of an approval ends with the id of its own step only.
DistinctApprovals == \A a, s \in Steps : <<a, s>> \in EndsWith => a = s

\* Every approval that a run shows as given is one of the set G.
Backed(run, G) == \A s \in Steps : run.appr[s] = "approved" => s \in G

\* The inductive invariant: no copy of the run, however stale, shows an approval
\* that was not recorded.
ApprovalInv ==
  /\ Backed(row, granted)
  /\ \A w \in Workers : Backed(copy[w], granted)
  /\ \A c \in Clerks : Backed(ccopy[c], granted)
  /\ ApprovedBeforeExecution

\* No rewriting of the run by its runner gives an approval.
LEMMA RunnerGivesNoApproval ==
  ASSUME NEW run \in Runs, NEW G, Backed(run, G)
  PROVE  /\ \A s \in Steps :
              /\ \A st \in StepStatus : Backed(WithStep(run, s, st), G)
              /\ Backed(Started(run, s), G)
              /\ Backed(Blocked(run, s), G)
              /\ Backed(FailedAt(run, s), G)
              /\ Backed(Requeued(run, s), G)
         /\ \A v \in BOOLEAN : Backed(Concluded(run, v), G)
         /\ Backed(PartiallyDone(run), G)
         /\ Backed(MarkedFailed(run), G)
  BY DEF Backed, Runs, WithStep, Started, Blocked, FailedAt, Requeued, Concluded,
         PartiallyDone, MarkedFailed

\* Of the commands only an approval does, and it gives the one of the current
\* step.
LEMMA CommandsAndApprovals ==
  ASSUME DistinctApprovals, NEW run \in Runs, NEW G, Backed(run, G),
         NEW o \in Commands, NEW new \in Rewrites(o, run)
  PROVE  Backed(new, IF o = "approve" THEN G \cup {run.cur} ELSE G)
<1>1. CASE o = "approve"
  <2>1. PICK a \in Decidable(run) : new = ApprovedStep(run, a)
    BY <1>1 DEF Rewrites
  <2>2. a = run.cur /\ a \in Steps
    BY DecisionOperators DEF DistinctApprovals, Decidable, IsRecordFor
  <2>3. QED BY <1>1, <2>1, <2>2 DEF Backed, Runs, ApprovedStep, Requeued, WithStep
<1>2. CASE o = "reject"
  <2>1. PICK a \in Decidable(run) : new = RejectedStep(run, a)
    BY <1>2 DEF Rewrites
  <2>2. QED BY <1>2, <2>1 DEF Backed, Runs, RejectedStep, WithStep, Decidable
<1>3. CASE o = "cancel"
  <2>1. new = Canceled(run)
    BY <1>3 DEF Rewrites
  <2>2. \A s \in Steps : Canceled(run).appr[s] = "approved" => run.appr[s] = "approved"
    BY DEF Runs, Canceled
  <2>3. QED BY <1>3, <2>1, <2>2 DEF Backed
<1>4. CASE o \in {"recover", "force", "abandon"}
  BY <1>4 DEF Rewrites, Backed, Runs, Recovered, Abandoned
<1>5. QED BY <1>1, <1>2, <1>3, <1>4 DEF Commands

LEMMA ApprovedIsGranted ==
  ASSUME DistinctApprovals, NEW run, NEW s \in Steps, Backed(run, granted),
         Approved(run, s)
  PROVE  s \in granted
  BY DEF DistinctApprovals, Backed, Approved, IsRecordFor

LEMMA NewRunHasNoApproval == \A G : Backed(NewRun, G)
  BY DEF Backed, NewRun

LEMMA InitApproval == Init => ApprovalInv
  BY NewRunHasNoApproval
  DEF Init, LedgerInit, ApprovalInv, ApprovedBeforeExecution, Executing

\* A thread loads the row, rewrites its copy and saves it.
LEMMA ThreadKeepsApprovals ==
  ASSUME DistinctApprovals, TypeOK, ApprovalInv, NEW w \in Workers,
         WorkerStep(w) \/ Renew(w) \/ \E f \in BOOLEAN : Load(w, f)
  PROVE  ApprovalInv'
<1> USE DEF ApprovalInv, ApprovedBeforeExecution, Executing, ledgerVars, clerkVars,
            countVars, workerVars
<1>0. /\ row \in Runs /\ copy \in [Workers -> Runs] /\ at \in [Workers -> Steps]
      /\ pc \in [Workers -> Locations]
  BY DEF TypeOK, LedgerTypeOK
<1>1. ASSUME Rest(w), UNCHANGED <<row, ccopy, granted>> PROVE ApprovalInv'
  BY <1>0, <1>1, NewRunHasNoApproval DEF Rest, Goto
<1>2. ASSUME Fail(w), UNCHANGED <<row, ccopy, granted>> PROVE ApprovalInv'
  BY <1>0, <1>1, <1>2 DEF Fail, Goto
<1>3. ASSUME GiveUp(w), UNCHANGED <<row, copy, at, ccopy, granted>> PROVE ApprovalInv'
  BY <1>0, <1>3 DEF GiveUp, Goto
<1>4. ASSUME NEW run \in Runs, Backed(run, granted), NEW l \in Locations,
             Persist(w, run, l), UNCHANGED <<ccopy, granted>>,
             \A v \in Workers \ {w} : at'[v] = at[v],
             l = "executing" => (at'[w] \in Approval => at'[w] \in granted)
      PROVE  ApprovalInv'
  <2>1. Backed(row', granted) /\ \A v \in Workers : Backed(copy'[v], granted)
    BY <1>0, <1>4 DEF Persist, SaveRun
  <2>2. \A v \in Workers : pc'[v] = "executing" =>
           \/ v # w /\ pc[v] = "executing"
           \/ v = w /\ l = "executing"
    BY <1>0, <1>4 DEF Persist, Goto, GiveUp
  <2>3. QED BY <1>4, <2>1, <2>2
<1>5. ASSUME NEW f \in BOOLEAN, Load(w, f) PROVE ApprovalInv'
  BY <1>0, <1>5 DEF Load, Goto
<1>6. CASE Answer(w)
  <2>1. CASE Fail(w)
    BY <1>2, <1>6, <2>1 DEF Answer
  <2>2. CASE ~Fail(w)
    BY <1>0, <1>6, <2>2 DEF Answer, Goto
  <2>3. QED BY <2>1, <2>2
<1>7. CASE Enter(w)
  <2>1. CASE Fail(w) \/ Rest(w)
    BY <1>1, <1>2, <1>7, <2>1 DEF Enter
  <2>2. CASE ~(Fail(w) \/ Rest(w))
    BY <1>0, <1>7, <2>2 DEF Enter, Goto
  <2>3. QED BY <2>1, <2>2
<1>8. CASE Lease(w)
  <2>1. CASE Fail(w)
    BY <1>2, <1>8, <2>1 DEF Lease
  <2>2. CASE ~Fail(w)
    BY <1>0, <1>8, <2>2 DEF Lease, Goto
  <2>3. QED BY <2>1, <2>2
<1>9. CASE Top(w) \/ Executed(w) \/ Report(w)
  BY <1>0, <1>9 DEF Top, Executed, Report, GiveUp, Goto
<1>10. CASE ResumeLoop(w)
  <2>1. CASE copy[w].cur \in questions
    BY <1>3, <1>10, <2>1 DEF ResumeLoop
  <2>2. CASE copy[w].cur \notin questions
    <3>1. copy[w].cur \in Steps
      BY <1>10 DEF ResumeLoop, PausedLoop
    <3>2. /\ Requeued(copy[w], copy[w].cur) \in Runs
          /\ Backed(Requeued(copy[w], copy[w].cur), granted)
      BY <1>0, <3>1, RunOperators, RunnerGivesNoApproval
    <3>3. QED BY <1>4, <1>10, <2>2, <3>2 DEF ResumeLoop, Locations, InSession
  <2>3. QED BY <2>1, <2>2
<1>11. CASE Conclude(w)
  <2>1. PICK run \in Runs : Persist(w, run, "leaving") /\ Backed(run, granted)
    BY <1>0, <1>11, WholeRunOperators, RunnerGivesNoApproval DEF Conclude
  <2>2. QED BY <1>4, <1>11, <2>1 DEF Conclude, Locations, InSession
<1>12. ASSUME NEW s \in Steps, Plan(w, s) PROVE ApprovalInv'
  <2>1. UNCHANGED <<ccopy, granted>> /\ at' = [at EXCEPT ![w] = s]
    BY <1>12 DEF Plan
  <2>2. CASE Persist(w, WithStep(copy[w], s, "skipped"), "top")
    BY <1>0, <1>4, <2>1, <2>2, RunOperators, RunnerGivesNoApproval
    DEF Locations, InSession, StepStatus
  <2>3. CASE GiveUp(w) /\ UNCHANGED <<row, age, copy>>
    <3>1. \A v \in Workers : pc'[v] = "executing" => v # w /\ pc[v] = "executing"
      BY <1>0, <2>3 DEF GiveUp, Goto
    <3>2. QED BY <1>0, <2>1, <2>3, <3>1
  <2>4. CASE Persist(w, Blocked(copy[w], s), "leaving")
    BY <1>0, <1>4, <2>1, <2>4, RunOperators, RunnerGivesNoApproval
    DEF Locations, InSession
  <2>5. CASE /\ s \in Approval => Approved(copy[w], s)
             /\ Persist(w, Started(copy[w], s), "executing")
    <3>1. s \in Approval => s \in granted
      BY <2>5, ApprovedIsGranted
    <3>2. Started(copy[w], s) \in Runs /\ Backed(Started(copy[w], s), granted)
      BY <1>0, RunOperators, RunnerGivesNoApproval
    <3>3. QED BY <1>0, <1>4, <2>1, <2>5, <3>1, <3>2 DEF Locations, InSession
  <2>6. QED BY <1>12, <2>2, <2>3, <2>4, <2>5 DEF Plan
<1>13. CASE Record(w)
  <2>1. CASE \E run \in Runs, l \in {"top", "leaving", "asking", "completing"} :
                Persist(w, run, l) /\ Backed(run, granted)
    BY <1>4, <1>13, <2>1 DEF Record, Locations, InSession
  <2>2. CASE GiveUp(w) /\ UNCHANGED <<row, age, copy>>
    BY <1>3, <1>13, <2>2 DEF Record
  <2>3. QED
    BY <1>0, <1>13, <2>1, <2>2, RunOperators, RunnerGivesNoApproval
    DEF Record, StepStatus
<1>14. CASE Leave(w)
  BY <1>1, <1>2, <1>14 DEF Leave
<1>15. CASE MarkLoad(w)
  <2>1. CASE row.status \in Terminal
    BY <1>1, <1>15, <2>1 DEF MarkLoad
  <2>2. CASE row.status \notin Terminal
    BY <1>0, <1>15, <2>2 DEF MarkLoad, Goto
  <2>3. QED BY <2>1, <2>2
<1>16. CASE MarkSave(w)
  <2>1. CASE Rest(w) /\ UNCHANGED row
    BY <1>1, <1>16, <2>1 DEF MarkSave
  <2>2. CASE ~(Rest(w) /\ UNCHANGED row)
    BY <1>0, <1>16, <2>2, RunnerGivesNoApproval DEF MarkSave, SaveRun, Goto
  <2>3. QED BY <2>1, <2>2
<1>17. CASE MarkClear(w)
  BY <1>1, <1>17 DEF MarkClear
<1>18. CASE Renew(w)
  BY <1>18 DEF Renew
<1>19. QED
  BY <1>5, <1>6, <1>7, <1>8, <1>9, <1>10, <1>11, <1>12, <1>13, <1>14, <1>15, <1>16,
     <1>17, <1>18 DEF WorkerStep

\* A caller loads the row, or rewrites its copy and saves it.
LEMMA ClerkKeepsApprovals ==
  ASSUME DistinctApprovals, TypeOK, ApprovalInv, NEW c \in Clerks,
         \/ ClerkStep(c) \/ ClerkDies(c)
         \/ \E o \in Commands : Request(c, o) \/ Select(c, o)
  PROVE  ApprovalInv'
<1> USE DEF ApprovalInv, ApprovedBeforeExecution, Executing, ledgerVars, workerVars
<1>0. /\ row \in Runs /\ ccopy \in [Clerks -> Runs] /\ op \in [Clerks -> Commands]
  BY DEF TypeOK, LedgerTypeOK
<1>1. ASSUME ClerkRest(c), UNCHANGED <<row, pc, copy, at, granted>> PROVE ApprovalInv'
  BY <1>0, <1>1, NewRunHasNoApproval DEF ClerkRest
<1>2. ASSUME NEW o \in Commands, Request(c, o) \/ Select(c, o) PROVE ApprovalInv'
  BY <1>0, <1>2 DEF Request, Select
<1>3. CASE Reload(c)
  <2>1. CASE ClerkRest(c)
    BY <1>1, <1>3, <2>1 DEF Reload
  <2>2. CASE ~ClerkRest(c)
    BY <1>0, <1>3, <2>2 DEF Reload
  <2>3. QED BY <2>1, <2>2
<1>4. CASE ClerkSave(c)
  <2>1. UNCHANGED <<pc, copy, at>>
    BY <1>4 DEF ClerkSave
  <2>2. CASE ClerkRest(c) /\ UNCHANGED <<row, granted>>
    BY <1>1, <2>1, <2>2
  <2>3. CASE ~(ClerkRest(c) /\ UNCHANGED <<row, granted>>)
    <3>1. PICK new \in Rewrites(op[c], ccopy[c]) :
            /\ SaveRun(new)
            /\ granted' = IF op[c] = "approve"
                          THEN granted \cup {ccopy[c].cur} ELSE granted
            /\ UNCHANGED ccopy \/ ClerkRest(c)
      BY <1>4, <2>3 DEF ClerkSave
    <3>2. Backed(row', granted')
      BY <1>0, <3>1, CommandsAndApprovals DEF SaveRun
    <3>3. granted \subseteq granted'
      BY <3>1
    <3>4. \A d \in Clerks : Backed(ccopy'[d], granted')
      BY <1>0, <3>1, <3>3, NewRunHasNoApproval DEF ClerkRest, Backed
    <3>5. QED BY <2>1, <3>2, <3>3, <3>4 DEF Backed
  <2>4. QED BY <2>2, <2>3
<1>5. CASE ClerkClear(c) \/ ClerkDies(c)
  BY <1>1, <1>5 DEF ClerkClear, ClerkDies
<1>6. QED BY <1>2, <1>3, <1>4, <1>5 DEF ClerkStep

LEMMA EnvironmentKeepsApprovals ==
  ASSUME TypeOK, ApprovalInv, (\E p \in Procs : Crash(p)) \/ Expire \/ Age
  PROVE  ApprovalInv'
<1> USE DEF ApprovalInv, ApprovedBeforeExecution, Executing, clerkVars, workerVars
<1>1. ASSUME NEW p \in Procs, Crash(p) PROVE ApprovalInv'
  BY <1>1, NewRunHasNoApproval DEF Crash
<1>2. CASE Expire \/ Age
  BY <1>2 DEF Expire, Age
<1>3. QED BY <1>1, <1>2

\* When no approval id ends with the id of another step, a step that requires
\* approval is executed only after its own approval was recorded: no restart,
\* stale copy, lost lease or forced recovery opens a way around it.
THEOREM ApprovalPrecedesExecution ==
  ASSUME DistinctApprovals PROVE Spec => []ApprovedBeforeExecution
<1>1. TypeOK /\ ApprovalInv /\ [Next]_vars => ApprovalInv'
  <2>1. SUFFICES ASSUME TypeOK, ApprovalInv, [Next]_vars PROVE ApprovalInv'
    OBVIOUS
  <2>2. CASE UNCHANGED vars
    BY <2>1, <2>2
    DEF vars, ApprovalInv, ApprovedBeforeExecution, Executing
  <2>3. CASE Next
    BY <2>1, <2>3, ThreadKeepsApprovals, ClerkKeepsApprovals,
       EnvironmentKeepsApprovals DEF Next
  <2>4. QED BY <2>1, <2>2, <2>3
<1>2. ApprovalInv => ApprovedBeforeExecution
  BY DEF ApprovalInv
<1>3. QED BY <1>1, <1>2, InitApproval, TypeCorrect, PTL DEF Spec

-----------------------------------------------------------------------------
(* One executor.                                                           *)

\* What the lease needs: every thread in a process of its own, no live process
\* that fails to renew, and nobody who recovers runs.
LeaseDiscipline ==
  /\ ~Naps
  /\ \A v, w \in Workers : ProcOf[v] = ProcOf[w] => v = w
  /\ \A c \in Clerks : May[c] \cap {"recover", "force"} = {}

\* The inductive invariant: a thread in its session holds a valid lease, unless
\* the run has failed.  Only a failed run has its lease cleared by others, and
\* nobody starts a step of a failed run.
LeaseInv ==
  /\ \A w \in Workers : pc[w] # "dead" => alive[ProcOf[w]]
  /\ \A w \in Workers : pc[w] \in InSession =>
       row.status = "failed" \/ (lease.owner = ProcOf[w] /\ lease.live)
  /\ \A w \in Workers : pc[w] = "clearing" => row.status = "failed"
  /\ \A c \in Clerks : op[c] \notin {"recover", "force"}
  /\ \A c \in Clerks : cpc[c] = "clearing" => row.status = "failed"
  /\ OneExecutor

LEMMA InitLease == Init => LeaseInv
  BY DEF Init, LedgerInit, LeaseInv, OneExecutor, Executing, InSession

LEMMA FailedStaysFailed ==
  ASSUME [Next]_vars, row.status = "failed"
  PROVE  row'.status = "failed"
  BY RowChangesBySave DEF SaveRun, SaveAccepts, Terminal

\* A step of thread w that leaves the lease and the others alone and does not
\* enter a session, clear the lease or execute.
LEMMA QuietStepKeepsLease ==
  ASSUME TypeOK, LeaseInv, NEW w \in Workers,
         row.status = "failed" => row'.status = "failed",
         UNCHANGED <<lease, alive, op, cpc>>,
         NEW l, pc' = [pc EXCEPT ![w] = l],
         l \in InSession => pc[w] \in InSession,
         l = "clearing" => row'.status = "failed",
         pc[w] # "dead",
         l # "executing"
  PROVE  LeaseInv'
<1> USE DEF TypeOK, LeaseInv
<1>1. \A v \in Workers : pc'[v] = IF v = w THEN l ELSE pc[v]
  OBVIOUS
<1>2. OneExecutor'
  BY <1>1 DEF OneExecutor, Executing
<1>3. QED BY <1>1, <1>2

\* Where the pieces of the thread actions lead.
LEMMA PiecesLead ==
  ASSUME NEW w \in Workers
  PROVE  /\ Rest(w) => pc' = [pc EXCEPT ![w] = "idle"]
         /\ Fail(w) => \E l \in {"idle", "marking"} : pc' = [pc EXCEPT ![w] = l]
         /\ GiveUp(w) => \E l \in {"leaving", "erring"} : pc' = [pc EXCEPT ![w] = l]
         /\ \A run, next : Persist(w, run, next) =>
              \E l \in {next, "leaving", "erring"} : pc' = [pc EXCEPT ![w] = l]
  BY DEF Rest, Fail, GiveUp, Persist, Goto

LEMMA NoSession ==
  /\ "idle" \notin InSession /\ "marking" \notin InSession
  /\ "entering" \notin InSession /\ "answering" \notin InSession
  /\ "leasing" \notin InSession /\ "failing" \notin InSession
  /\ "clearing" \notin InSession /\ "dead" \notin InSession
  /\ "spawned" \notin InSession
  BY DEF InSession

\* Entering a session takes the lease.
LEMMA EnteringKeepsLease ==
  ASSUME TypeOK, LeaseInv, [Next]_vars, NEW w \in Workers,
         (\E f \in BOOLEAN : Load(w, f)) \/ Answer(w) \/ Enter(w) \/ Lease(w) \/ Top(w)
  PROVE  LeaseInv'
<1> USE NoSession, FailedStaysFailed DEF ledgerVars, clerkVars
<1>1. CASE \E f \in BOOLEAN : Load(w, f)
  <2>1. PICK l \in {"answering", "entering"} : pc' = [pc EXCEPT ![w] = l]
    BY <1>1 DEF Load, Goto
  <2>2. pc[w] # "dead" /\ UNCHANGED <<lease, alive, op, cpc>>
    BY <1>1 DEF Load
  <2>3. QED BY <2>1, <2>2, QuietStepKeepsLease
<1>2. CASE Answer(w) \/ Enter(w)
  <2>1. PICK l \in {"idle", "marking", "entering", "leasing"} : pc' = [pc EXCEPT ![w] = l]
    BY <1>2, PiecesLead DEF Answer, Enter, Goto
  <2>2. pc[w] # "dead" /\ UNCHANGED <<lease, alive, op, cpc>>
    BY <1>2 DEF Answer, Enter
  <2>3. QED BY <2>1, <2>2, QuietStepKeepsLease
<1>3. CASE Lease(w)
  <2>1. pc[w] = "leasing" /\ UNCHANGED <<alive, op, cpc, row>>
    BY <1>3 DEF Lease
  <2>2. CASE Fail(w) /\ UNCHANGED lease
    <3>1. PICK l \in {"idle", "marking"} : pc' = [pc EXCEPT ![w] = l]
      BY <2>2, PiecesLead
    <3>2. QED BY <2>1, <2>2, <3>1, QuietStepKeepsLease
  <2>3. CASE TakeLease(ProcOf[w]) /\ Goto(w, "top")
    <3>1. lease' = [owner |-> ProcOf[w], live |-> TRUE]
      BY <2>3 DEF TakeLease
    <3>2. \A v \in Workers : pc'[v] = IF v = w THEN "top" ELSE pc[v]
      BY <2>3 DEF Goto, TypeOK
    <3>3. \A v \in Workers : pc[v] \in InSession /\ row.status # "failed"
                             => ProcOf[v] = ProcOf[w]
      BY <2>3 DEF LeaseInv, TakeLease, LeaseFree
    <3>4. OneExecutor'
      BY <3>2 DEF LeaseInv, OneExecutor, Executing
    <3>5. QED BY <2>1, <3>1, <3>2, <3>3, <3>4 DEF LeaseInv
  <2>4. QED BY <1>3, <2>2, <2>3 DEF Lease
<1>4. CASE Top(w)
  <2>1. PICK l \in {"leaving", "planning"} : pc' = [pc EXCEPT ![w] = l]
    BY <1>4 DEF Top, Goto
  <2>2. pc[w] = "top" /\ UNCHANGED <<lease, alive, op, cpc>>
    BY <1>4 DEF Top
  <2>3. QED BY <2>1, <2>2, QuietStepKeepsLease DEF InSession
<1>5. QED BY <1>1, <1>2, <1>3, <1>4

\* A thread starts to execute only while nobody else is in a session.
LEMMA PlanKeepsLease ==
  ASSUME LeaseDiscipline, TypeOK, LeaseInv, [Next]_vars, NEW w \in Workers,
         NEW s \in Steps, Plan(w, s)
  PROVE  LeaseInv'
<1> USE NoSession, FailedStaysFailed
<1>1. pc[w] = "planning" /\ UNCHANGED <<lease, alive, op, cpc>>
  BY DEF Plan, clerkVars
<1>2. CASE \E l \in {"top", "leaving", "erring"} : pc' = [pc EXCEPT ![w] = l]
  BY <1>1, <1>2, QuietStepKeepsLease DEF InSession
<1>3. CASE ~\E l \in {"top", "leaving", "erring"} : pc' = [pc EXCEPT ![w] = l]
  <2>1. Persist(w, Started(copy[w], s), "executing") /\ pc' = [pc EXCEPT ![w] = "executing"]
    BY <1>3, PiecesLead DEF Plan
  <2>2. row.status # "failed"
    <3>1. SUFFICES ASSUME row.status = "failed" PROVE FALSE
      OBVIOUS
    <3>2. Started(copy[w], s).status = "running"
      BY DEF Started, WithStep, TypeOK, Runs
    <3>3. ~SaveAccepts(Started(copy[w], s))
      BY <3>1, <3>2 DEF SaveAccepts, Terminal
    <3>4. GiveUp(w)
      BY <2>1, <3>1, <3>3 DEF Persist, SaveRun
    <3>5. QED BY <1>3, <3>4, PiecesLead
  <2>3. \A v \in Workers : pc[v] \in InSession => v = w
    BY <1>1, <2>2 DEF LeaseInv, LeaseDiscipline, InSession
  <2>4. \A v \in Workers : pc'[v] = IF v = w THEN "executing" ELSE pc[v]
    BY <2>1 DEF TypeOK
  <2>5. OneExecutor'
    BY <2>3, <2>4 DEF OneExecutor, Executing, InSession
  <2>6. \A c \in Clerks : cpc[c] # "clearing"
    BY <2>2 DEF LeaseInv
  <2>7. lease.owner = ProcOf[w] /\ lease.live /\ alive[ProcOf[w]]
    BY <1>1, <2>2 DEF LeaseInv, InSession
  <2>8. \A v \in Workers : pc[v] # "clearing"
    BY <2>2 DEF LeaseInv
  <2>9. QED BY <1>1, <2>3, <2>4, <2>5, <2>6, <2>7, <2>8 DEF LeaseInv
<1>4. QED BY <1>2, <1>3

\* The steps inside a session.
LEMMA SessionKeepsLease ==
  ASSUME TypeOK, LeaseInv, [Next]_vars, NEW w \in Workers,
         ResumeLoop(w) \/ Conclude(w) \/ Executed(w) \/ Record(w) \/ Report(w)
  PROVE  LeaseInv'
<1>1. UNCHANGED <<lease, alive, op, cpc>> /\ pc[w] \in InSession
  BY DEF ResumeLoop, Conclude, Executed, Record, Report, ledgerVars, clerkVars, InSession
<1>2. PICK l \in InSession \ {"executing"} : pc' = [pc EXCEPT ![w] = l]
  BY PiecesLead
  DEF ResumeLoop, Conclude, Executed, Record, Report, Goto, InSession
<1>3. QED BY <1>1, <1>2, NoSession, FailedStaysFailed, QuietStepKeepsLease

\* The end of a session releases the lease only if it is the thread's own.
LEMMA LeavingKeepsLease ==
  ASSUME LeaseDiscipline, TypeOK, LeaseInv, NEW w \in Workers, Leave(w)
  PROVE  LeaseInv'
<1>1. pc[w] \in InSession /\ pc[w] # "dead" /\ UNCHANGED <<row, alive, op, cpc>>
  BY DEF Leave, clerkVars, InSession
<1>2. PICK l \in {"idle", "marking"} : pc' = [pc EXCEPT ![w] = l]
  BY PiecesLead DEF Leave
<1>3. \A v \in Workers : pc'[v] = IF v = w THEN l ELSE pc[v]
  BY <1>2 DEF TypeOK
<1>4. ASSUME NEW v \in Workers, v # w, lease.owner = ProcOf[v] PROVE UNCHANGED lease
  BY <1>4 DEF Leave, ReleaseLease, LeaseDiscipline
<1>5. OneExecutor'
  BY <1>3 DEF LeaseInv, OneExecutor, Executing
<1>6. QED BY <1>1, <1>3, <1>4, <1>5, NoSession DEF LeaseInv

\* mark_run_failed clears the lease of a run that has failed.
LEMMA MarkingKeepsLease ==
  ASSUME TypeOK, LeaseInv, [Next]_vars, NEW w \in Workers,
         MarkLoad(w) \/ MarkSave(w) \/ MarkClear(w)
  PROVE  LeaseInv'
<1> USE NoSession, FailedStaysFailed
<1>1. CASE MarkLoad(w)
  <2>1. PICK l \in {"idle", "failing"} : pc' = [pc EXCEPT ![w] = l]
    BY <1>1, PiecesLead DEF MarkLoad, Goto
  <2>2. pc[w] # "dead" /\ UNCHANGED <<lease, alive, op, cpc>>
    BY <1>1 DEF MarkLoad, ledgerVars, clerkVars
  <2>3. QED BY <2>1, <2>2, QuietStepKeepsLease
<1>2. CASE MarkSave(w)
  <2>1. PICK l \in {"idle", "clearing"} :
          /\ pc' = [pc EXCEPT ![w] = l]
          /\ l = "clearing" => row' = MarkedFailed(copy[w])
    BY <1>2, PiecesLead DEF MarkSave, SaveRun, Goto
  <2>2. MarkedFailed(copy[w]).status = "failed"
    BY DEF MarkedFailed, TypeOK, Runs
  <2>3. pc[w] # "dead" /\ UNCHANGED <<lease, alive, op, cpc>>
    BY <1>2 DEF MarkSave, clerkVars
  <2>4. QED BY <2>1, <2>2, <2>3, QuietStepKeepsLease
<1>3. CASE MarkClear(w)
  <2>1. pc[w] = "clearing" /\ row.status = "failed" /\ UNCHANGED <<row, alive, op, cpc>>
    BY <1>3 DEF MarkClear, LeaseInv, clerkVars
  <2>2. pc' = [pc EXCEPT ![w] = "idle"]
    BY <1>3, PiecesLead DEF MarkClear
  <2>3. \A v \in Workers : pc'[v] = IF v = w THEN "idle" ELSE pc[v]
    BY <2>2 DEF TypeOK
  <2>4. OneExecutor'
    BY <2>3 DEF LeaseInv, OneExecutor, Executing
  <2>5. QED BY <2>1, <2>3, <2>4 DEF LeaseInv
<1>4. QED BY <1>1, <1>2, <1>3

LEMMA RenewingKeepsLease ==
  ASSUME LeaseInv, NEW w \in Workers, Renew(w)
  PROVE  LeaseInv'
<1>1. UNCHANGED <<row, alive, pc, op, cpc>>
  BY DEF Renew, workerVars, clerkVars
<1>2. \A v \in Workers : row.status # "failed" => pc[v] \notin InSession
  BY DEF Renew, LeaseInv
<1>3. QED BY <1>1, <1>2 DEF LeaseInv, OneExecutor, Executing

\* Without recoveries, callers clear the lease of a failed run only.
LEMMA CallersKeepLease ==
  ASSUME LeaseDiscipline, TypeOK, LeaseInv, [Next]_vars, NEW c \in Clerks,
         \/ ClerkStep(c) \/ ClerkDies(c)
         \/ \E o \in Commands : Request(c, o) \/ Select(c, o)
  PROVE  LeaseInv'
<1> USE FailedStaysFailed DEF ledgerVars, workerVars
<1>1. UNCHANGED <<alive, pc>> /\ (OneExecutor => OneExecutor')
  BY DEF ClerkStep, Reload, ClerkSave, ClerkClear, ClerkDies, Request, Select,
         OneExecutor, Executing
<1>2. \A d \in Clerks : op'[d] \notin {"recover", "force"}
  <2>1. \A o \in Commands : Request(c, o) \/ Select(c, o) => o \notin {"recover", "force"}
    BY DEF Request, Select, LeaseDiscipline
  <2>2. QED
    BY <2>1 DEF ClerkStep, Reload, ClerkSave, ClerkClear, ClerkDies, ClerkRest,
                Request, Select, LeaseInv, TypeOK
<1>3. \A d \in Clerks : cpc'[d] = "clearing" => row'.status = "failed"
  <2>1. ASSUME NEW d \in Clerks, cpc[d] = "clearing" PROVE row'.status = "failed"
    BY <2>1 DEF LeaseInv
  <2>2. ASSUME NEW d \in Clerks, cpc'[d] = "clearing", cpc[d] # "clearing"
        PROVE  row'.status = "failed"
    <3>1. d = c /\ ClerkSave(c)
      BY <2>2 DEF ClerkStep, Reload, ClerkSave, ClerkClear, ClerkDies, ClerkRest,
                  Request, Select, TypeOK
    <3>2. ~ClerkRest(c)
      BY <2>2, <3>1 DEF ClerkRest, TypeOK
    <3>3. op[c] = "abandon"
      BY <3>1, <3>2 DEF ClerkSave, LeaseInv
    <3>4. row' = Abandoned(ccopy[c])
      BY <3>1, <3>2, <3>3 DEF ClerkSave, Rewrites, SaveRun
    <3>5. QED BY <3>4 DEF Abandoned, TypeOK, Runs
  <2>3. QED BY <2>1, <2>2
<1>4. CASE UNCHANGED lease
  BY <1>1, <1>2, <1>3, <1>4 DEF LeaseInv
<1>5. CASE ~UNCHANGED lease
  <2>1. ClerkClear(c)
    BY <1>5 DEF ClerkStep, Reload, ClerkSave, ClerkDies, Request, Select
  <2>2. row'.status = "failed"
    BY <2>1 DEF ClerkClear, LeaseInv
  <2>3. QED BY <1>1, <1>2, <1>3, <2>2 DEF LeaseInv
<1>6. QED BY <1>4, <1>5

\* The lease of a live owner does not expire, and the dead execute nothing.
LEMMA EnvironmentKeepsLease ==
  ASSUME LeaseDiscipline, TypeOK, LeaseInv, (\E p \in Procs : Crash(p)) \/ Expire \/ Age
  PROVE  LeaseInv'
<1>1. ASSUME NEW p \in Procs, Crash(p) PROVE LeaseInv'
  <2>1. /\ \A w \in Workers : pc'[w] = IF ProcOf[w] = p THEN "dead" ELSE pc[w]
        /\ alive' = [alive EXCEPT ![p] = FALSE]
        /\ UNCHANGED <<row, lease, op, cpc>>
    BY <1>1 DEF Crash, clerkVars
  <2>2. OneExecutor'
    BY <2>1 DEF LeaseInv, OneExecutor, Executing
  <2>3. \A w \in Workers : pc'[w] # "dead" => alive'[ProcOf[w]]
    BY <2>1 DEF LeaseInv, TypeOK, LedgerTypeOK
  <2>4. QED BY <2>1, <2>2, <2>3, NoSession DEF LeaseInv
<1>2. CASE Expire
  <2>1. ~OwnerAlive /\ UNCHANGED <<row, alive, pc, op, cpc>>
    BY <1>2 DEF Expire, LeaseDiscipline, workerVars, clerkVars
  <2>2. ASSUME NEW w \in Workers, row.status # "failed" PROVE pc[w] \notin InSession
    <3>1. SUFFICES ASSUME pc[w] \in InSession PROVE FALSE
      OBVIOUS
    <3>2. lease.owner = ProcOf[w] /\ alive[ProcOf[w]]
      BY <2>2, <3>1, NoSession DEF LeaseInv
    <3>3. ProcOf[w] # NoProc
      OBVIOUS
    <3>4. QED BY <2>1, <3>2, <3>3 DEF OwnerAlive
  <2>3. QED BY <2>1, <2>2 DEF LeaseInv, OneExecutor, Executing
<1>3. CASE Age
  BY <1>3 DEF Age, workerVars, clerkVars, LeaseInv, OneExecutor, Executing
<1>4. QED BY <1>1, <1>2, <1>3

LEMMA LeaseIsKept ==
  ASSUME LeaseDiscipline PROVE Spec => []LeaseInv
<1>1. TypeOK /\ LeaseInv /\ [Next]_vars => LeaseInv'
  <2>1. SUFFICES ASSUME TypeOK, LeaseInv, [Next]_vars PROVE LeaseInv'
    OBVIOUS
  <2>2. CASE UNCHANGED vars
    BY <2>1, <2>2 DEF vars, LeaseInv, OneExecutor, Executing
  <2>3. CASE Next
    <3>1. ASSUME NEW w \in Workers, WorkerStep(w) PROVE LeaseInv'
      BY <2>1, <3>1, EnteringKeepsLease, PlanKeepsLease, SessionKeepsLease,
         LeavingKeepsLease, MarkingKeepsLease DEF WorkerStep
    <3>2. ASSUME NEW w \in Workers, Renew(w) \/ \E f \in BOOLEAN : Load(w, f)
          PROVE  LeaseInv'
      BY <2>1, <3>2, RenewingKeepsLease, EnteringKeepsLease
    <3>3. ASSUME NEW c \in Clerks,
                 \/ ClerkStep(c) \/ ClerkDies(c)
                 \/ \E o \in Commands : Request(c, o) \/ Select(c, o)
          PROVE  LeaseInv'
      BY <2>1, <3>3, CallersKeepLease
    <3>4. CASE (\E p \in Procs : Crash(p)) \/ Expire \/ Age
      BY <2>1, <3>4, EnvironmentKeepsLease
    <3>5. QED BY <2>3, <3>1, <3>2, <3>3, <3>4 DEF Next
  <2>4. QED BY <2>1, <2>2, <2>3
<1>2. QED BY <1>1, InitLease, TypeCorrect, PTL DEF Spec

\* Under the lease discipline at most one thread executes a step of the run,
\* for any number of threads, processes and crashes, and although threads enter
\* their sessions with arbitrarily old copies.
THEOREM LeaseExcludes ==
  ASSUME LeaseDiscipline PROVE Spec => []OneExecutor
<1>1. LeaseInv => OneExecutor
  BY DEF LeaseInv
<1>2. QED BY <1>1, LeaseIsKept, PTL

-----------------------------------------------------------------------------
(* The execution plan.                                                     *)

\* A run the plan bounds: what is outside of it is skipped or canceled, and the
\* current step is a step of the plan.
Planned(run) ==
  /\ run.cur # NoStep => run.cur \in Active
  /\ \A s \in Steps \ Active : run.step[s] \in {"skipped", "canceled"}

\* The inductive invariant: the plan bounds every copy of the run, a thread has a
\* step of the plan in hand, and what it took the step for, an exit that was not
\* reached, still holds in its copy.
PlanInv ==
  /\ Planned(row)
  /\ \A w \in Workers : Planned(copy[w])
  /\ \A c \in Clerks : Planned(ccopy[c])
  /\ \A w \in Workers : pc[w] \in {"executing", "recording"} => at[w] \in Active
  /\ \A w \in Workers :
       Executing(w) /\ Partial /\ copy[w].status = "running" =>
         copy[w].step[Exit] \notin Settled

\* No rewriting of the run leaves the plan, as long as the step it is about is
\* one of the plan.
LEMMA RunnerKeepsThePlan ==
  ASSUME NEW run \in Runs, Planned(run)
  PROVE  /\ \A s \in Active :
              /\ \A st \in StepStatus : Planned(WithStep(run, s, st))
              /\ Planned(Started(run, s))
              /\ Planned(Blocked(run, s))
              /\ Planned(FailedAt(run, s))
              /\ Planned(Requeued(run, s))
         /\ \A v \in BOOLEAN : Planned(Concluded(run, v))
         /\ Planned(PartiallyDone(run))
         /\ Planned(MarkedFailed(run))
<1>1. \A s \in Active : s \in Steps
  BY DEF Steps
<1>2. \A s \in Active : /\ \A st \in StepStatus : Planned(WithStep(run, s, st))
                        /\ Planned(Started(run, s))
                        /\ Planned(Blocked(run, s))
                        /\ Planned(FailedAt(run, s))
                        /\ Planned(Requeued(run, s))
  BY <1>1 DEF Planned, Runs, WithStep, Started, Blocked, FailedAt, Requeued
<1>3. (\A v \in BOOLEAN : Planned(Concluded(run, v))) /\ Planned(PartiallyDone(run))
  BY DEF Planned, Runs, Concluded, PartiallyDone
<1>4. Planned(MarkedFailed(run))
  BY DEF Planned, Runs, MarkedFailed
<1>5. QED BY <1>2, <1>3, <1>4

LEMMA CommandsKeepThePlan ==
  ASSUME NEW run \in Runs, Planned(run), NEW o \in Commands, NEW new \in Rewrites(o, run)
  PROVE  Planned(new)
<1>1. CASE o = "approve"
  <2>1. PICK a \in Decidable(run) : new = ApprovedStep(run, a)
    BY <1>1 DEF Rewrites
  <2>2. run.cur \in Active /\ run.cur \in Steps
    BY DecisionOperators DEF Planned, Decidable
  <2>3. QED BY <2>1, <2>2 DEF Planned, Runs, ApprovedStep, Requeued, WithStep
<1>2. CASE o = "reject"
  <2>1. PICK a \in Decidable(run) : new = RejectedStep(run, a)
    BY <1>2 DEF Rewrites
  <2>2. run.cur \in Active /\ run.cur \in Steps
    BY DecisionOperators DEF Planned, Decidable
  <2>3. QED BY <2>1, <2>2 DEF Planned, Runs, RejectedStep, WithStep
<1>3. CASE o = "cancel"
  <2>1. new = Canceled(run)
    BY <1>3 DEF Rewrites
  <2>2. QED BY <2>1 DEF Planned, Runs, Canceled
<1>4. CASE o \in {"recover", "force"}
  <2>1. new = Recovered(run)
    BY <1>4 DEF Rewrites
  <2>2. QED BY <2>1 DEF Planned, Runs, Recovered
<1>5. CASE o = "abandon"
  <2>1. new = Abandoned(run)
    BY <1>5 DEF Rewrites
  <2>2. QED BY <2>1 DEF Planned, Runs, Abandoned
<1>6. QED BY <1>1, <1>2, <1>3, <1>4, <1>5 DEF Commands

LEMMA NewRunIsPlanned == Planned(NewRun)
  BY DEF Planned, NewRun

LEMMA InitPlan == Init => PlanInv
  BY NewRunIsPlanned DEF Init, LedgerInit, PlanInv, Executing

\* A thread takes the step in hand from its copy, and rewrites its copy at the
\* step in hand.
LEMMA ThreadKeepsThePlan ==
  ASSUME TypeOK, PlanInv, NEW w \in Workers,
         WorkerStep(w) \/ Renew(w) \/ \E f \in BOOLEAN : Load(w, f)
  PROVE  PlanInv'
<1> USE DEF PlanInv, Executing, ledgerVars, clerkVars, countVars, workerVars
<1>0. /\ row \in Runs /\ copy \in [Workers -> Runs] /\ at \in [Workers -> Steps]
      /\ pc \in [Workers -> Locations]
  BY DEF TypeOK, LedgerTypeOK
<1>1. ASSUME Rest(w), UNCHANGED <<row, ccopy>> PROVE PlanInv'
  BY <1>0, <1>1, NewRunIsPlanned DEF Rest, Goto
<1>2. ASSUME Fail(w), UNCHANGED <<row, ccopy>> PROVE PlanInv'
  BY <1>0, <1>1, <1>2 DEF Fail, Goto
<1>3. ASSUME GiveUp(w), UNCHANGED <<row, copy, ccopy>>,
             \A v \in Workers \ {w} : at'[v] = at[v] PROVE PlanInv'
  BY <1>0, <1>3 DEF GiveUp, Goto
<1>4. ASSUME NEW run \in Runs, Planned(run), NEW l \in Locations \ {"recording"},
             Persist(w, run, l), UNCHANGED ccopy,
             \A v \in Workers \ {w} : at'[v] = at[v],
             l = "executing" => /\ at'[w] \in Active
                                /\ Partial => run.step[Exit] \notin Settled
      PROVE  PlanInv'
  <2>1. Planned(row') /\ \A v \in Workers : Planned(copy'[v])
    BY <1>0, <1>4 DEF Persist, SaveRun
  <2>2. \A v \in Workers \ {w} : pc'[v] = pc[v] /\ copy'[v] = copy[v]
    BY <1>0, <1>4 DEF Persist, Goto, GiveUp
  <2>3. /\ pc'[w] \in {"executing", "recording"} => l = "executing"
        /\ pc'[w] = "executing" => copy'[w] = run \/ copy'[w].status = "canceled"
    BY <1>0, <1>4 DEF Persist, Goto, GiveUp
  <2>4. QED BY <1>4, <2>1, <2>2, <2>3
<1>5. ASSUME NEW f \in BOOLEAN, Load(w, f) PROVE PlanInv'
  BY <1>0, <1>5 DEF Load, Goto
<1>6. CASE Answer(w)
  <2>1. CASE Fail(w)
    BY <1>2, <1>6, <2>1 DEF Answer
  <2>2. CASE ~Fail(w)
    BY <1>0, <1>6, <2>2 DEF Answer, Goto
  <2>3. QED BY <2>1, <2>2
<1>7. CASE Enter(w)
  <2>1. CASE Fail(w) \/ Rest(w)
    BY <1>1, <1>2, <1>7, <2>1 DEF Enter
  <2>2. CASE ~(Fail(w) \/ Rest(w))
    BY <1>0, <1>7, <2>2 DEF Enter, Goto
  <2>3. QED BY <2>1, <2>2
<1>8. CASE Lease(w)
  <2>1. CASE Fail(w)
    BY <1>2, <1>8, <2>1 DEF Lease
  <2>2. CASE ~Fail(w)
    BY <1>0, <1>8, <2>2 DEF Lease, Goto
  <2>3. QED BY <2>1, <2>2
<1>9. CASE Top(w) \/ Executed(w) \/ Report(w)
  BY <1>0, <1>9 DEF Top, Executed, Report, GiveUp, Goto
<1>10. CASE ResumeLoop(w)
  <2>1. CASE copy[w].cur \in questions
    BY <1>3, <1>10, <2>1 DEF ResumeLoop
  <2>2. CASE copy[w].cur \notin questions
    <3>0. copy[w].cur \in Steps
      BY <1>10 DEF ResumeLoop, PausedLoop
    <3>1. copy[w].cur \in Active
      <4>1. NoStep \notin Steps
        BY DEF NoStep, Steps
      <4>2. QED BY <3>0, <4>1 DEF Planned
    <3>2. /\ Requeued(copy[w], copy[w].cur) \in Runs
          /\ Planned(Requeued(copy[w], copy[w].cur))
      BY <1>0, <3>0, <3>1, RunOperators, RunnerKeepsThePlan
    <3>3. QED BY <1>4, <1>10, <2>2, <3>2 DEF ResumeLoop, Locations, InSession
  <2>3. QED BY <2>1, <2>2
<1>11. CASE Conclude(w)
  <2>1. PICK run \in Runs : Persist(w, run, "leaving") /\ Planned(run)
    BY <1>0, <1>11, WholeRunOperators, RunnerKeepsThePlan DEF Conclude
  <2>2. QED BY <1>4, <1>11, <2>1 DEF Conclude, Locations, InSession
<1>12. ASSUME NEW s \in Steps, Plan(w, s) PROVE PlanInv'
  <2>1. UNCHANGED ccopy /\ at' = [at EXCEPT ![w] = s]
    BY <1>12 DEF Plan
  <2>2. s \in Active /\ copy[w].step[s] = "pending"
    BY <1>12 DEF Plan, IsNext, Ready, Planned
  <2>3. CASE Persist(w, WithStep(copy[w], s, "skipped"), "top")
    BY <1>0, <1>4, <2>1, <2>2, <2>3, RunOperators, RunnerKeepsThePlan
    DEF Locations, InSession, StepStatus
  <2>4. CASE GiveUp(w) /\ UNCHANGED <<row, age, copy>>
    BY <1>0, <1>3, <2>1, <2>4
  <2>5. CASE Persist(w, Blocked(copy[w], s), "leaving")
    BY <1>0, <1>4, <2>1, <2>2, <2>5, RunOperators, RunnerKeepsThePlan
    DEF Locations, InSession
  <2>6. CASE Persist(w, Started(copy[w], s), "executing")
    <3>1. Started(copy[w], s) \in Runs /\ Planned(Started(copy[w], s))
      BY <1>0, <2>2, RunOperators, RunnerKeepsThePlan
    <3>2. Partial => Started(copy[w], s).step[Exit] \notin Settled
      <4>1. Partial => copy[w].step[Exit] \notin Settled
        BY <1>12 DEF Plan, ExitReached
      <4>2. QED BY <1>0, <4>1 DEF Started, WithStep, Settled, Runs
    <3>3. QED BY <1>0, <1>4, <2>1, <2>2, <2>6, <3>1, <3>2 DEF Locations, InSession
  <2>7. QED BY <1>12, <2>3, <2>4, <2>5, <2>6 DEF Plan
<1>13. CASE Record(w)
  <2>1. at[w] \in Active
    BY <1>13 DEF Record
  <2>2. CASE \E run \in Runs, l \in {"top", "leaving", "asking", "completing"} :
                Persist(w, run, l) /\ Planned(run)
    BY <1>4, <1>13, <2>2 DEF Record, Locations, InSession
  <2>3. CASE GiveUp(w) /\ UNCHANGED <<row, age, copy>>
    BY <1>3, <1>13, <2>3 DEF Record
  <2>4. QED
    BY <1>0, <1>13, <2>1, <2>2, <2>3, RunOperators, RunnerKeepsThePlan
    DEF Record, StepStatus
<1>14. CASE Leave(w)
  BY <1>1, <1>2, <1>14 DEF Leave
<1>15. CASE MarkLoad(w)
  <2>1. CASE row.status \in Terminal
    BY <1>1, <1>15, <2>1 DEF MarkLoad
  <2>2. CASE row.status \notin Terminal
    BY <1>0, <1>15, <2>2 DEF MarkLoad, Goto
  <2>3. QED BY <2>1, <2>2
<1>16. CASE MarkSave(w)
  <2>1. CASE Rest(w) /\ UNCHANGED row
    BY <1>1, <1>16, <2>1 DEF MarkSave
  <2>2. CASE ~(Rest(w) /\ UNCHANGED row)
    BY <1>0, <1>16, <2>2, RunnerKeepsThePlan DEF MarkSave, SaveRun, Goto
  <2>3. QED BY <2>1, <2>2
<1>17. CASE MarkClear(w)
  BY <1>1, <1>17 DEF MarkClear
<1>18. CASE Renew(w)
  BY <1>18 DEF Renew
<1>19. QED
  BY <1>5, <1>6, <1>7, <1>8, <1>9, <1>10, <1>11, <1>12, <1>13, <1>14, <1>15, <1>16,
     <1>17, <1>18 DEF WorkerStep

\* A caller rewrites its copy, and the environment rewrites nothing.
LEMMA OthersKeepThePlan ==
  ASSUME TypeOK, PlanInv,
         \/ \E c \in Clerks : \/ ClerkStep(c) \/ ClerkDies(c)
                              \/ \E o \in Commands : Request(c, o) \/ Select(c, o)
         \/ \E p \in Procs : Crash(p)
         \/ Expire \/ Age
  PROVE  PlanInv'
<1> USE DEF PlanInv, Executing, ledgerVars, workerVars, clerkVars
<1>0. /\ row \in Runs /\ ccopy \in [Clerks -> Runs] /\ op \in [Clerks -> Commands]
  BY DEF TypeOK, LedgerTypeOK
<1>1. ASSUME NEW c \in Clerks, ClerkRest(c), UNCHANGED <<row, pc, copy, at>>
      PROVE  PlanInv'
  BY <1>0, <1>1, NewRunIsPlanned DEF ClerkRest
<1>2. ASSUME NEW c \in Clerks, NEW o \in Commands, Request(c, o) \/ Select(c, o)
      PROVE  PlanInv'
  BY <1>0, <1>2 DEF Request, Select
<1>3. ASSUME NEW c \in Clerks, Reload(c) PROVE PlanInv'
  <2>1. CASE ClerkRest(c)
    BY <1>1, <1>3, <2>1 DEF Reload
  <2>2. CASE ~ClerkRest(c)
    BY <1>0, <1>3, <2>2 DEF Reload
  <2>3. QED BY <2>1, <2>2
<1>4. ASSUME NEW c \in Clerks, ClerkSave(c) PROVE PlanInv'
  <2>1. UNCHANGED <<pc, copy, at>>
    BY <1>4 DEF ClerkSave
  <2>2. CASE ClerkRest(c) /\ UNCHANGED row
    BY <1>1, <2>1, <2>2
  <2>3. CASE ~(ClerkRest(c) /\ UNCHANGED row)
    <3>1. PICK new \in Rewrites(op[c], ccopy[c]) :
            SaveRun(new) /\ (UNCHANGED ccopy \/ ClerkRest(c))
      BY <1>4, <2>3 DEF ClerkSave
    <3>2. Planned(row')
      BY <1>0, <3>1, CommandsKeepThePlan DEF SaveRun
    <3>3. \A d \in Clerks : Planned(ccopy'[d])
      BY <1>0, <3>1, NewRunIsPlanned DEF ClerkRest
    <3>4. QED BY <2>1, <3>2, <3>3
  <2>4. QED BY <2>2, <2>3
<1>5. ASSUME NEW c \in Clerks, ClerkClear(c) \/ ClerkDies(c) PROVE PlanInv'
  BY <1>1, <1>5 DEF ClerkClear, ClerkDies
<1>6. ASSUME NEW p \in Procs, Crash(p) PROVE PlanInv'
  BY <1>6, NewRunIsPlanned DEF Crash
<1>7. CASE Expire \/ Age
  BY <1>7 DEF Expire, Age
<1>8. QED BY <1>2, <1>3, <1>4, <1>5, <1>6, <1>7 DEF ClerkStep

LEMMA PlanIsKept == Spec => []PlanInv
<1>1. TypeOK /\ PlanInv /\ [Next]_vars => PlanInv'
  <2>1. SUFFICES ASSUME TypeOK, PlanInv, [Next]_vars PROVE PlanInv'
    OBVIOUS
  <2>2. CASE UNCHANGED vars
    BY <2>1, <2>2 DEF vars, PlanInv, Executing
  <2>3. CASE Next
    BY <2>1, <2>3, ThreadKeepsThePlan, OthersKeepThePlan DEF Next
  <2>4. QED BY <2>1, <2>2, <2>3
<1>2. QED BY <1>1, InitPlan, TypeCorrect, PTL DEF Spec

\* Nothing outside the execution plan is ever executed, and nothing that a thread knows
\* to be behind the exit of a partial plan, whatever stale copies of the run are saved
\* over newer ones.
THEOREM PlanBoundsExecution == Spec => []PlanIsRespected
<1>1. PlanInv => PlanIsRespected
  BY DEF PlanInv, PlanIsRespected, Executing
<1>2. QED BY <1>1, PlanIsKept, PTL

-----------------------------------------------------------------------------
(* Sessions in order.                                                      *)

\* What is needed of a package: approval ids that end with the id of their own step
\* and no other, and dependencies without cycles (package.validate).
WellFormed ==
  /\ DistinctApprovals /\ \A s \in Steps : <<s, s>> \in EndsWith
  /\ \E rank \in [Steps -> Nat] : \A s \in Steps : \A d \in Deps[s] : rank[d] < rank[s]

\* What the properties of an orderly run need besides: one session at a time, which
\* starts from a queued run or with feedback, one caller beside the sweep, and no
\* forced recovery.
Orderly ==
  /\ WellFormed
  /\ Serial /\ ResumeFrom \subseteq {"queued"}
  /\ \A c \in Clerks : "force" \notin May[c]
  /\ \A c, d \in Clerks : c # d => May[c] \subseteq {"abandon"} \/ May[d] \subseteq {"abandon"}

LEMMA OrderlyPackage == Orderly => WellFormed
  BY DEF Orderly

Open == row.status \notin Terminal

\* The shape of a run whose transformations follow each other.
Shape(run) ==
  /\ run.cur # NoStep <=> run.status \in {"running", "waiting"}
  /\ run.status = "running" => run.appr[run.cur] # "pending"
  /\ run.status = "waiting" => /\ run.step[run.cur] = "waiting"
                               /\ run.cur \in Feedback \/ run.appr[run.cur] = "pending"
  /\ \A s \in Steps :
       /\ run.step[s] = "running" => run.status = "running" /\ s = run.cur
       /\ run.status \notin Terminal =>
            /\ run.step[s] \notin {"failed", "canceled"}
            /\ run.step[s] = "waiting" => run.status = "waiting" /\ s = run.cur
            /\ s \in Approval \cap Active => run.appr[s] \in {"pending", "approved"}
       /\ s \notin Approval \cap Active => run.appr[s] = "none"
       /\ run.status = "succeeded" => run.step[s] \in Settled

\* No step of the run is under execution.
Calm(run) == \A s \in Steps : run.step[s] # "running"

\* A run with step s under execution.
InHand(run, s) ==
  /\ run.status = "running" /\ run.cur = s /\ run.step[s] = "running"
  /\ \A d \in Deps[s] : run.step[d] \in Settled

\* The locations in which a thread uses its copy, those before it takes a step, those
\* after which it does nothing to the run any more, and those in which it is gone.
Acting  == {"entering", "leasing", "top", "planning", "executing", "recording",
            "completing", "asking"}
Before  == {"entering", "leasing", "top", "planning"}
Parting == {"leaving", "erring", "marking", "failing", "clearing"}
Away    == {"idle", "dead"}

\* The copies run that a thread at l with step s in hand may have.
Fits(l, run, s) ==
  /\ l \in Acting \cup {"answering", "failing"} => Shape(run)
  /\ l \in Before => Calm(run) /\ (run.status = "waiting" => run.cur \in Feedback)
  /\ l \in {"leasing", "top", "planning"} => run.status \notin {"succeeded", "failed"}
  /\ l = "executing" => InHand(run, s) \/ run.status = "canceled"
  /\ l = "recording" => InHand(run, s)
  /\ l = "completing" => Calm(run) /\ run.status \in {"running", "canceled"}
  /\ l = "asking" => \/ run.status = "canceled"
                     \/ run.status = "waiting" /\ run.cur = s /\ run.appr[s] # "pending"

\* What a thread knows: its copy is the row as long as the run is open.
Knows(w) ==
  /\ pc[w] \in Acting => /\ Open => copy[w] = row
                         /\ copy[w].status \in Terminal => row.status = copy[w].status
  /\ pc[w] \in Before /\ row.status = "waiting" => row.appr[row.cur] # "pending"
  /\ pc[w] = "spawned" => row.status \in {"queued"} \cup Terminal
  /\ pc[w] \in {"answering", "entering", "leasing"} => row.status # "running"
  /\ pc[w] = "answering" => /\ PausedLoop(copy[w])
                            /\ Open => copy[w] = row \/ copy[w].cur \notin questions

\* Whose lease it may meet.
Meets(w) ==
  /\ pc[w] # "dead" => alive[ProcOf[w]]
  /\ pc[w] \notin Away /\ (pc[w] \in InSession \/ row.status = "running")
       => lease.owner \in {NoProc, ProcOf[w]}

\* What a caller has loaded is the row as long as its command can be accepted.
Decides(c) ==
  /\ Shape(ccopy[c])
  /\ cpc[c] # "idle" => op[c] \in May[c]
  /\ cpc[c] = "selected" => op[c] \in {"recover", "force", "abandon"}
  /\ Open /\ cpc[c] = "loaded" /\ op[c] \in {"approve", "reject"} =>
       ccopy[c] = row /\ row.status = "waiting" /\ row.appr[row.cur] = "pending"
  /\ Open /\ cpc[c] \in {"selected", "loaded"} /\ op[c] = "recover" =>
       /\ row.status = "running" /\ \A w \in Workers : pc[w] \in Away
       /\ \E p \in Procs : ~alive[p]
       /\ cpc[c] = "loaded" => ccopy[c] = row

\* What the row of an open run tells.
Tells ==
  /\ \A s \in granted : row.appr[s] = "approved"
  /\ \A s \in questions : row.appr[s] # "pending"

\* The inductive invariant.
OrderlyInv ==
  /\ Shape(row)
  /\ \A v, w \in Workers : pc[v] \notin Away /\ pc[w] \notin Away => v = w
  /\ \A w \in Workers : Knows(w) /\ Fits(pc[w], copy[w], at[w]) /\ Meets(w)
  /\ \A c \in Clerks : Decides(c)
  /\ Open => Tells

\* The statuses a run goes through while somebody may still take it up.
LEMMA StatusFacts ==
  /\ Terminal = {"succeeded", "failed", "canceled"} /\ Settled = {"succeeded", "skipped"}
  /\ RunStatus \ Terminal = {"queued", "running", "waiting"}
  /\ NoStep \notin Steps
  BY DEF Terminal, Settled, RunStatus, NoStep, Steps

\* The rewritings of a thread keep what is done, and the approvals.
KeepsDone(run, new) ==
  /\ new.appr = run.appr
  /\ \A d \in Steps : run.step[d] = "succeeded" <=> new.step[d] = "succeeded"

\* A step that begins: it is skipped, waits for its approval, or starts.
LEMMA BeginningShape ==
  ASSUME NEW run \in Runs, Shape(run), Calm(run), run.status # "waiting",
         NEW s \in Steps, run.step[s] = "pending"
  PROVE  /\ Shape(WithStep(run, s, "skipped")) /\ Calm(WithStep(run, s, "skipped"))
         /\ WithStep(run, s, "skipped").status = run.status
         /\ KeepsDone(run, WithStep(run, s, "skipped"))
         /\ run.status \notin Terminal /\ run.appr[s] = "pending" =>
              Shape(Blocked(run, s)) /\ KeepsDone(run, Blocked(run, s))
         /\ run.status \notin Terminal /\ run.appr[s] # "pending" =>
              /\ Shape(Started(run, s)) /\ KeepsDone(run, Started(run, s))
              /\ (\A d \in Deps[s] : run.step[d] \in Settled) => InHand(Started(run, s), s)
<1>1. run.status \in RunStatus /\ run.cur \in Steps \cup {NoStep}
  BY DEF Runs
<1>2. /\ Shape(WithStep(run, s, "skipped")) /\ Calm(WithStep(run, s, "skipped"))
      /\ WithStep(run, s, "skipped").status = run.status
      /\ KeepsDone(run, WithStep(run, s, "skipped"))
  <2> DEFINE new == WithStep(run, s, "skipped")
  <2>1. /\ new.status = run.status /\ new.cur = run.cur /\ new.appr = run.appr
        /\ \A d \in Steps : new.step[d] = IF d = s THEN "skipped" ELSE run.step[d]
    BY DEF Runs, WithStep
  <2> HIDE DEF new
  <2>2. Calm(new) /\ KeepsDone(run, new)
    BY <2>1 DEF Calm, KeepsDone
  <2>3. Shape(new)
    BY <2>1 DEF Shape, Settled
  <2>4. QED BY <2>1, <2>2, <2>3 DEF new
<1>3. ASSUME run.status \notin Terminal, run.appr[s] = "pending"
      PROVE  Shape(Blocked(run, s)) /\ KeepsDone(run, Blocked(run, s))
  <2> DEFINE new == Blocked(run, s)
  <2>1. /\ new.status = "waiting" /\ new.cur = s /\ new.appr = run.appr
        /\ \A d \in Steps : new.step[d] = IF d = s THEN "waiting" ELSE run.step[d]
    BY DEF Runs, WithStep, Blocked
  <2> HIDE DEF new
  <2>2. KeepsDone(run, new)
    BY <2>1 DEF KeepsDone
  <2>3. Shape(new)
    BY <1>3, <2>1, StatusFacts DEF Shape, Calm
  <2>4. QED BY <2>2, <2>3 DEF new
<1>4. ASSUME run.status \notin Terminal, run.appr[s] # "pending"
      PROVE  /\ Shape(Started(run, s)) /\ KeepsDone(run, Started(run, s))
             /\ (\A d \in Deps[s] : run.step[d] \in Settled) => InHand(Started(run, s), s)
  <2> DEFINE new == Started(run, s)
  <2>1. /\ new.status = "running" /\ new.cur = s /\ new.appr = run.appr
        /\ \A d \in Steps : new.step[d] = IF d = s THEN "running" ELSE run.step[d]
    BY DEF Runs, WithStep, Started
  <2> HIDE DEF new
  <2>2. KeepsDone(run, new)
    BY <2>1 DEF KeepsDone
  <2>3. Shape(new)
    BY <1>4, <2>1, StatusFacts DEF Shape, Calm
  <2>4. (\A d \in Deps[s] : run.step[d] \in Settled) => InHand(new, s)
    <3>1. \A d \in Deps[s] : d \in Steps
      OBVIOUS
    <3>2. QED BY <2>1, <3>1 DEF InHand, Settled
  <2>5. QED BY <2>2, <2>3, <2>4 DEF new
<1>5. QED BY <1>2, <1>3, <1>4

\* A step that ends: it succeeded, asks for feedback, is given up, or fails the run.
LEMMA EndingShape ==
  ASSUME NEW run \in Runs, Shape(run), NEW s \in Steps, InHand(run, s)
  PROVE  /\ \A st \in {"succeeded", "skipped"} :
              /\ Shape(WithStep(run, s, st)) /\ Calm(WithStep(run, s, st))
              /\ WithStep(run, s, st).status = "running"
              /\ WithStep(run, s, st).appr = run.appr
              /\ \A d \in Steps \ {s} : WithStep(run, s, st).step[d] = run.step[d]
              /\ WithStep(run, s, st).step[s] = st
         /\ s \in Feedback =>
              /\ Shape(Blocked(run, s)) /\ KeepsDone(run, Blocked(run, s))
              /\ Blocked(run, s).status = "waiting" /\ Blocked(run, s).cur = s
              /\ Blocked(run, s).appr[s] # "pending"
         /\ Shape(FailedAt(run, s)) /\ FailedAt(run, s).status = "failed"
<1>1. run.status = "running" /\ run.cur = s /\ run.step[s] = "running" /\ run.appr[s] # "pending"
  BY DEF InHand, Shape
<1>2. ASSUME NEW st \in {"succeeded", "skipped"}
      PROVE  /\ Shape(WithStep(run, s, st)) /\ Calm(WithStep(run, s, st))
             /\ WithStep(run, s, st).status = "running"
             /\ WithStep(run, s, st).appr = run.appr
             /\ \A d \in Steps \ {s} : WithStep(run, s, st).step[d] = run.step[d]
             /\ WithStep(run, s, st).step[s] = st
  <2> DEFINE new == WithStep(run, s, st)
  <2>1. /\ new.status = run.status /\ new.cur = run.cur /\ new.appr = run.appr
        /\ \A d \in Steps : new.step[d] = IF d = s THEN st ELSE run.step[d]
    BY DEF Runs, WithStep
  <2> HIDE DEF new
  <2>2. Calm(new)
    BY <1>1, <1>2, <2>1 DEF Calm, Shape
  <2>3. Shape(new)
    BY <1>1, <1>2, <2>1, StatusFacts DEF Shape
  <2>4. QED BY <1>1, <2>1, <2>2, <2>3 DEF new
<1>3. ASSUME s \in Feedback
      PROVE  /\ Shape(Blocked(run, s)) /\ KeepsDone(run, Blocked(run, s))
             /\ Blocked(run, s).status = "waiting" /\ Blocked(run, s).cur = s
             /\ Blocked(run, s).appr[s] # "pending"
  <2> DEFINE new == Blocked(run, s)
  <2>1. /\ new.status = "waiting" /\ new.cur = s /\ new.appr = run.appr
        /\ \A d \in Steps : new.step[d] = IF d = s THEN "waiting" ELSE run.step[d]
    BY DEF Runs, WithStep, Blocked
  <2> HIDE DEF new
  <2>2. KeepsDone(run, new)
    BY <1>1, <2>1 DEF KeepsDone
  <2>3. Shape(new)
    BY <1>1, <1>3, <2>1, StatusFacts DEF Shape
  <2>4. QED BY <1>1, <2>1, <2>2, <2>3 DEF new
<1>4. Shape(FailedAt(run, s)) /\ FailedAt(run, s).status = "failed"
  <2> DEFINE new == FailedAt(run, s)
  <2>1. /\ new.status = "failed" /\ new.cur = NoStep /\ new.appr = run.appr
        /\ \A d \in Steps : new.step[d] = IF d = s THEN "failed" ELSE run.step[d]
    BY DEF Runs, WithStep, FailedAt
  <2> HIDE DEF new
  <2>2. Shape(new)
    BY <1>1, <2>1, StatusFacts DEF Shape
  <2>3. QED BY <2>1, <2>2 DEF new
<1>5. QED BY <1>2, <1>3, <1>4

\* A paused run that is taken up again.
LEMMA RequeuedShape ==
  ASSUME NEW run \in Runs, Shape(run), run.status = "waiting"
  PROVE  /\ run.cur \in Steps
         /\ Shape(Requeued(run, run.cur)) /\ Calm(Requeued(run, run.cur))
         /\ Requeued(run, run.cur).status = "queued"
         /\ KeepsDone(run, Requeued(run, run.cur))
<1>1. run.cur \in Steps /\ run.step[run.cur] = "waiting"
  BY DEF Runs, Shape
<1> DEFINE new == Requeued(run, run.cur)
<1>2. /\ new.status = "queued" /\ new.cur = NoStep /\ new.appr = run.appr
      /\ \A d \in Steps : new.step[d] = IF d = run.cur THEN "pending" ELSE run.step[d]
  BY <1>1 DEF Runs, WithStep, Requeued
<1> HIDE DEF new
<1>3. KeepsDone(run, new) /\ Calm(new)
  BY <1>1, <1>2 DEF KeepsDone, Calm, Shape
<1>4. Shape(new)
  BY <1>1, <1>2, StatusFacts DEF Shape
<1>5. QED BY <1>1, <1>2, <1>3, <1>4 DEF new

\* Among the steps of a set, one comes first in the order of dependencies.
LEMMA FirstInOrder ==
  ASSUME NEW rank \in [Steps -> Nat], NEW S \in SUBSET Steps, NEW s \in S
  PROVE  \E t \in S : \A u \in S : ~(rank[u] < rank[t])
<1> DEFINE N == {rank[u] : u \in S}
<1>1. N \subseteq Nat /\ rank[s] \in N
  OBVIOUS
<1>2. \E n \in N : \A m \in N : ~(m < n)
  <2>1. PICK n \in N : \A m \in N : <<m, n>> \notin OpToRel(<, Nat)
    BY ZenonT(40), <1>1, NatLessThanWellFounded, WFMin
  <2>2. QED BY <1>1, <2>1 DEF OpToRel
<1>3. QED BY <1>2

\* A run that was taken up and finds no ready step is over.
LEMMA ConcludedShape ==
  ASSUME WellFormed, NEW run \in Runs, Shape(run), Calm(run),
         run.status \in {"queued", "running"}, Ready(run) = {}, NEW v \in BOOLEAN
  PROVE  Shape(Concluded(run, v)) /\ Concluded(run, v).status \in {"succeeded", "failed"}
<1>1. \A s \in Steps : run.step[s] \in {"pending"} \cup Settled
  BY StatusFacts DEF Shape, Calm, Runs, StepStatus
<1>2. \A s \in Steps : run.step[s] \in Settled
  <2> DEFINE P == {s \in Steps : run.step[s] = "pending"}
  <2>1. SUFFICES ASSUME NEW s \in P PROVE FALSE
    BY <1>1
  <2>2. PICK rank \in [Steps -> Nat] : \A t \in Steps : \A d \in Deps[t] : rank[d] < rank[t]
    BY DEF WellFormed
  <2>3. PICK t \in P : \A u \in P : ~(rank[u] < rank[t])
    BY FirstInOrder
  <2>4. \A d \in Deps[t] : d \in Steps /\ d \notin P
    BY <2>2, <2>3
  <2>5. \A d \in Deps[t] : run.step[d] \in Settled
    BY <1>1, <2>4
  <2>6. t \in Ready(run)
    BY <2>5 DEF Ready
  <2>7. QED BY <2>6
<1> DEFINE new == Concluded(run, v)
<1>3. /\ new.status \in {"succeeded", "failed"} /\ new.cur = NoStep
      /\ new.appr = run.appr /\ new.step = run.step
  BY <1>2 DEF Runs, Concluded
<1> HIDE DEF new
<1>4. Shape(new)
  BY <1>2, <1>3, StatusFacts DEF Shape
<1>5. QED BY <1>3, <1>4 DEF new

\* A partial run whose exit is reached is over.
LEMMA PartiallyDoneShape ==
  ASSUME NEW run \in Runs, Shape(run), Calm(run), Planned(run),
         run.status \in {"queued", "running"}
  PROVE  Shape(PartiallyDone(run)) /\ PartiallyDone(run).status \in {"succeeded", "failed"}
<1>1. \A s \in Steps : /\ run.step[s] \in {"pending"} \cup Settled
                       /\ s \notin Active => run.step[s] \in Settled
  BY StatusFacts DEF Shape, Calm, Runs, StepStatus, Planned
<1> DEFINE new == PartiallyDone(run)
<1>2. /\ new.status \in {"succeeded", "failed"} /\ new.cur = NoStep /\ new.appr = run.appr
      /\ \A s \in Steps : new.step[s] = IF s \in Active /\ run.step[s] = "pending"
                                        THEN "skipped" ELSE run.step[s]
  BY DEF Runs, PartiallyDone
<1> HIDE DEF new
<1>3. \A s \in Steps : new.step[s] \in Settled
  BY <1>1, <1>2 DEF Settled
<1>4. Shape(new)
  BY <1>2, <1>3, StatusFacts DEF Shape
<1>5. QED BY <1>2, <1>4 DEF new

\* A run that is ended from outside.
LEMMA EndedShape ==
  ASSUME NEW run \in Runs, Shape(run)
  PROVE  /\ Shape(MarkedFailed(run)) /\ MarkedFailed(run).status = "failed"
         /\ Shape(Abandoned(run)) /\ Abandoned(run).status = "failed"
         /\ Shape(Canceled(run)) /\ Canceled(run).status = "canceled"
<1>1. Shape(MarkedFailed(run)) /\ MarkedFailed(run).status = "failed"
  <2> DEFINE new == MarkedFailed(run)
  <2>1. /\ new.status = "failed" /\ new.cur = NoStep /\ new.appr = run.appr
        /\ \A d \in Steps : new.step[d] # "running"
    BY DEF Runs, MarkedFailed
  <2> HIDE DEF new
  <2>2. Shape(new)
    BY <2>1, StatusFacts DEF Shape
  <2>3. QED BY <2>1, <2>2 DEF new
<1>2. Shape(Abandoned(run)) /\ Abandoned(run).status = "failed"
  <2> DEFINE new == Abandoned(run)
  <2>1. /\ new.status = "failed" /\ new.cur = NoStep /\ new.appr = run.appr
        /\ \A d \in Steps : new.step[d] # "running"
    BY DEF Runs, Abandoned
  <2> HIDE DEF new
  <2>2. Shape(new)
    BY <2>1, StatusFacts DEF Shape
  <2>3. QED BY <2>1, <2>2 DEF new
<1>3. Shape(Canceled(run)) /\ Canceled(run).status = "canceled"
  <2> DEFINE new == Canceled(run)
  <2>1. /\ new.status = "canceled" /\ new.cur = NoStep
        /\ \A d \in Steps : /\ new.step[d] # "running"
                            /\ run.appr[d] = "none" => new.appr[d] = "none"
    BY DEF Runs, Canceled
  <2> HIDE DEF new
  <2>2. Shape(new)
    BY <2>1, StatusFacts DEF Shape
  <2>3. QED BY <2>1, <2>2 DEF new
<1>4. QED BY <1>1, <1>2, <1>3

\* A running run that is recovered.
LEMMA RecoveredShape ==
  ASSUME NEW run \in Runs, Shape(run), run.status = "running"
  PROVE  /\ Shape(Recovered(run)) /\ Recovered(run).status = "queued"
         /\ KeepsDone(run, Recovered(run))
<1> DEFINE new == Recovered(run)
<1>1. /\ new.status = "queued" /\ new.cur = NoStep /\ new.appr = run.appr
      /\ \A d \in Steps : new.step[d] = IF run.step[d] = "running" THEN "pending"
                                        ELSE run.step[d]
  BY DEF Runs, Recovered
<1> HIDE DEF new
<1>2. KeepsDone(run, new)
  BY <1>1 DEF KeepsDone
<1>3. Shape(new)
  BY <1>1, StatusFacts DEF Shape
<1>4. QED BY <1>1, <1>2, <1>3 DEF new

\* The record a person decides is that of the current step, and it is pending while the
\* run waits for it.
LEMMA WhatIsDecided ==
  ASSUME WellFormed, NEW run \in Runs, Shape(run)
  PROVE  /\ \A a \in Decidable(run) : /\ a = run.cur /\ run.cur \in Steps
                                      /\ run.status = "waiting" /\ run.appr[run.cur] = "pending"
         /\ run.status = "waiting" /\ run.appr[run.cur] = "pending" => Decidable(run) # {}
<1>1. ASSUME NEW a \in Decidable(run)
      PROVE  /\ a = run.cur /\ run.cur \in Steps
             /\ run.status = "waiting" /\ run.appr[run.cur] = "pending"
  <2>1. a = run.cur /\ run.cur \in Steps /\ run.appr[run.cur] = "pending"
    BY DecisionOperators DEF WellFormed, DistinctApprovals, Decidable, IsRecordFor
  <2>2. QED BY <2>1, StatusFacts DEF Shape
<1>2. ASSUME run.status = "waiting", run.appr[run.cur] = "pending" PROVE Decidable(run) # {}
  <2>1. run.cur \in Steps
    BY <1>2 DEF Runs, Shape
  <2>2. run.cur \in Approval \cap Active
    BY <1>2, <2>1 DEF Shape
  <2>3. \A b \in Approval \cap Active : <<b, run.cur>> \in EndsWith => b = run.cur
    BY <2>1 DEF WellFormed, DistinctApprovals, Steps
  <2>4. IsRecordFor(run.cur, run.cur)
    <3>1. run.cur <= run.cur
      BY <2>1 DEF Steps
    <3>2. QED BY <2>1, <2>2, <2>3, <3>1 DEF WellFormed, IsRecordFor
  <2>5. QED BY <1>2, <2>1, <2>4, StatusFacts DEF Decidable
<1>3. QED BY <1>1, <1>2

LEMMA DecidedShape ==
  ASSUME WellFormed, NEW run \in Runs, Shape(run), NEW a \in Decidable(run)
  PROVE  /\ Shape(ApprovedStep(run, a)) /\ ApprovedStep(run, a).status = "queued"
         /\ \A d \in Steps : /\ run.step[d] = "succeeded" <=> ApprovedStep(run, a).step[d] = "succeeded"
                             /\ ApprovedStep(run, a).appr[d] = IF d = run.cur THEN "approved"
                                                               ELSE run.appr[d]
         /\ Shape(RejectedStep(run, a)) /\ RejectedStep(run, a).status = "canceled"
<1>1. /\ a = run.cur /\ run.cur \in Steps /\ run.status = "waiting"
      /\ run.appr[run.cur] = "pending" /\ run.step[run.cur] = "waiting"
      /\ run.cur \in Approval \cap Active
  BY WhatIsDecided DEF Shape
<1>2. /\ Shape(ApprovedStep(run, a)) /\ ApprovedStep(run, a).status = "queued"
      /\ \A d \in Steps : /\ run.step[d] = "succeeded" <=> ApprovedStep(run, a).step[d] = "succeeded"
                          /\ ApprovedStep(run, a).appr[d] = IF d = run.cur THEN "approved"
                                                            ELSE run.appr[d]
  <2> DEFINE new == ApprovedStep(run, a)
  <2>1. /\ new.status = "queued" /\ new.cur = NoStep
        /\ \A d \in Steps : new.step[d] = IF d = run.cur THEN "pending" ELSE run.step[d]
        /\ \A d \in Steps : new.appr[d] = IF d = run.cur THEN "approved" ELSE run.appr[d]
    BY <1>1 DEF Runs, ApprovedStep, Requeued, WithStep
  <2> HIDE DEF new
  <2>2. Shape(new)
    BY <1>1, <2>1, StatusFacts DEF Shape
  <2>3. QED BY <1>1, <2>1, <2>2 DEF new
<1>3. Shape(RejectedStep(run, a)) /\ RejectedStep(run, a).status = "canceled"
  <2> DEFINE new == RejectedStep(run, a)
  <2>1. /\ new.status = "canceled" /\ new.cur = NoStep
        /\ \A d \in Steps : new.step[d] = IF d = run.cur THEN "canceled" ELSE run.step[d]
        /\ \A d \in Steps : new.appr[d] = IF d = run.cur THEN "rejected" ELSE run.appr[d]
    BY <1>1 DEF Runs, RejectedStep, WithStep
  <2> HIDE DEF new
  <2>2. Shape(new)
    BY <1>1, <2>1, StatusFacts DEF Shape
  <2>3. QED BY <2>1, <2>2 DEF new
<1>4. QED BY <1>2, <1>3

\* The thread that acts is the only one that does; the others are away and stay there.
LEMMA OnlyOne ==
  ASSUME Orderly, OrderlyInv, NEW w \in Workers,
         pc[w] \notin Away \/ \E f \in BOOLEAN : Load(w, f)
  PROVE  \A v \in Workers : v # w => pc[v] \in Away
  BY DEF Orderly, OrderlyInv, Load, Away

\* What a step of thread w has to keep, given where it leads.
LEMMA ThreadStep ==
  ASSUME TypeOK, OrderlyInv, NEW w \in Workers, NEW l, pc' = [pc EXCEPT ![w] = l],
         \A v \in Workers : v # w => pc[v] \in Away,
         pc[w] # "dead", UNCHANGED alive,
         Shape(row'), Knows(w)', Fits(l, copy'[w], at'[w]),
         l \notin Away /\ (l \in InSession \/ row'.status = "running")
           => lease'.owner \in {NoProc, ProcOf[w]},
         \A c \in Clerks : Decides(c)', (Open => Tells)'
  PROVE  OrderlyInv'
<1>1. \A v \in Workers : pc'[v] = IF v = w THEN l ELSE pc[v]
  BY DEF TypeOK
<1>2. \A v \in Workers : v # w => pc'[v] \in Away
  BY <1>1
<1>3. \A v \in Workers : Knows(v)'
  <2>1. ASSUME NEW v \in Workers, v # w PROVE Knows(v)'
    BY <1>2, <2>1 DEF Knows, Away, Acting, Before
  <2>2. QED BY <2>1
<1>4. \A v \in Workers : Fits(pc'[v], copy'[v], at'[v])
  <2>1. ASSUME NEW v \in Workers, v # w PROVE Fits(pc'[v], copy'[v], at'[v])
    BY <1>2, <2>1 DEF Fits, Away, Acting, Before
  <2>2. QED BY <1>1, <2>1
<1>5. \A v \in Workers : Meets(v)'
  <2>1. ASSUME NEW v \in Workers, v # w PROVE Meets(v)'
    BY <1>1, <1>2, <2>1 DEF OrderlyInv, Meets
  <2>2. Meets(w)'
    BY <1>1 DEF OrderlyInv, Meets
  <2>3. QED BY <2>1, <2>2
<1>6. \A u, v \in Workers : pc'[u] \notin Away /\ pc'[v] \notin Away => u = v
  BY <1>2
<1>7. QED BY <1>3, <1>4, <1>5, <1>6 DEF OrderlyInv

\* A run that is over stays so, and callers are not concerned with it.
LEMMA CallersStay ==
  ASSUME OrderlyInv, UNCHANGED <<cpc, op, ccopy, alive>>,
         \/ ~Open'
         \/ /\ UNCHANGED row
            /\ row.status = "running" /\ (\A v \in Workers : pc[v] \in Away) => UNCHANGED pc
         \/ /\ Open /\ (row.status = "waiting" => row.appr[row.cur] # "pending")
            /\ \E v \in Workers : pc[v] \notin Away
  PROVE  \A c \in Clerks : Decides(c)'
<1>1. SUFFICES ASSUME NEW c \in Clerks PROVE Decides(c)'
  OBVIOUS
<1>2. Decides(c) /\ (Open' => (UNCHANGED row => Open))
  BY DEF OrderlyInv, Open
<1>3. QED BY <1>2 DEF Decides

\* A step of thread w that leaves the run alone.
LEMMA StillStep ==
  ASSUME TypeOK, OrderlyInv, NEW w \in Workers, NEW l, pc' = [pc EXCEPT ![w] = l],
         \A v \in Workers : v # w => pc[v] \in Away,
         pc[w] \notin Away, UNCHANGED <<row, alive, cpc, op, ccopy, granted>>,
         Knows(w)', Fits(l, copy'[w], at'[w]),
         l \notin Away /\ (l \in InSession \/ row.status = "running")
           => lease'.owner \in {NoProc, ProcOf[w]},
         \A s \in questions' \ questions : Open => row.appr[s] # "pending"
  PROVE  OrderlyInv'
<1>1. \A v \in Workers : pc'[v] = IF v = w THEN l ELSE pc[v]
  BY DEF TypeOK
<1>2. \A c \in Clerks : Decides(c)'
  BY CallersStay
<1>3. (Open => Tells)'
  <2>1. SUFFICES ASSUME Open' PROVE Tells'
    OBVIOUS
  <2>2. Open /\ Tells
    BY <2>1 DEF Open, OrderlyInv
  <2>3. \A s \in granted' : row'.appr[s] = "approved"
    BY <2>2 DEF Tells
  <2>4. \A s \in questions' : row'.appr[s] # "pending"
    BY <2>2 DEF Tells
  <2>5. QED BY <2>3, <2>4 DEF Tells
<1>4. Shape(row') /\ pc[w] # "dead" /\ UNCHANGED alive
  BY DEF OrderlyInv, Away
<1>5. QED BY <1>2, <1>3, <1>4, ThreadStep

\* The pieces that end a thread's work.
LEMMA PartingStep ==
  ASSUME TypeOK, OrderlyInv, NEW w \in Workers, NEW l \in {"idle"} \cup Parting,
         pc' = [pc EXCEPT ![w] = l], \A v \in Workers : v # w => pc[v] \in Away,
         pc[w] \notin Away, UNCHANGED <<row, alive, cpc, op, ccopy, granted>>,
         questions' \subseteq questions,
         l = "failing" => Shape(copy'[w]),
         l \notin Away /\ (l \in InSession \/ row.status = "running")
           => lease'.owner \in {NoProc, ProcOf[w]}
  PROVE  OrderlyInv'
<1>1. pc'[w] = l
  BY DEF TypeOK
<1>2. /\ l \notin Acting /\ l \notin Before /\ l # "spawned" /\ l # "answering" /\ l # "executing"
      /\ l \in Away \cup Parting
  BY DEF Parting, Acting, Before, Away
<1>3. Knows(w)' /\ Fits(l, copy'[w], at'[w])
  BY <1>1, <1>2 DEF Knows, Fits, Acting
<1>4. QED BY <1>2, <1>3, StillStep

LEMMA InitOrderly == Init => OrderlyInv
<1>1. SUFFICES ASSUME Init PROVE OrderlyInv
  OBVIOUS
<1>2. Shape(NewRun) /\ NewRun.status = "queued"
  BY StatusFacts DEF Shape, NewRun, Settled, Terminal
<1>3. \A w \in Workers : pc[w] \in {"idle", "spawned"} /\ (pc[w] = "spawned" => w = Dispatcher)
  BY <1>1 DEF Init
<1>4. \A w \in Workers : Knows(w) /\ Fits(pc[w], copy[w], at[w]) /\ Meets(w)
  <2>1. row.status = "queued" /\ \A p \in Procs : alive[p]
    BY <1>1, <1>2 DEF Init, LedgerInit
  <2>2. QED BY <1>3, <2>1 DEF Knows, Fits, Meets, Acting, Before, Away, InSession
<1>5. \A c \in Clerks : Decides(c)
  BY <1>1, <1>2 DEF Init, Decides
<1>6. Tells
  BY <1>1 DEF Init, LedgerInit, Tells
<1>7. QED BY <1>1, <1>2, <1>3, <1>4, <1>5, <1>6 DEF Init, LedgerInit, OrderlyInv, Away

\* A thread loads the run.
LEMMA LoadInOrder ==
  ASSUME Orderly, TypeOK, OrderlyInv, NEW w \in Workers, NEW f \in BOOLEAN, Load(w, f)
  PROVE  OrderlyInv'
<1>1. \A v \in Workers : v # w => pc[v] \in Away
  BY OnlyOne
<1>2. /\ pc[w] \in {"spawned", "idle"} /\ copy'[w] = row
      /\ UNCHANGED <<row, age, lease, alive, questions, outputs, at, cpc, op, ccopy, granted>>
  BY DEF Load, ledgerVars, clerkVars, TypeOK
<1>3. /\ row.status # "running"
      /\ f => PausedLoop(row)
      /\ ~f => row.status \in {"queued"} \cup Terminal
  BY DEF Load, Orderly, OrderlyInv, Knows, PausedLoop, Terminal
<1>4. PICK l \in {"answering", "entering"} :
        pc' = [pc EXCEPT ![w] = l] /\ (l = "answering" <=> f)
  BY DEF Load, Goto
<1>5. pc'[w] = l
  BY <1>4 DEF TypeOK
<1>6. Shape(row) /\ Calm(row)
  BY <1>3 DEF OrderlyInv, Shape, Calm
<1>7. Knows(w)' /\ Fits(l, copy'[w], at'[w])
  BY <1>2, <1>3, <1>4, <1>5, <1>6, StatusFacts DEF Knows, Fits, Acting, Before, PausedLoop
<1>8. \A c \in Clerks : Decides(c)'
  BY <1>2, <1>3, CallersStay
<1>9. (Open => Tells)'
  BY <1>2, <1>3 DEF OrderlyInv, Open, Tells
<1>10. pc[w] # "dead" /\ l \notin InSession /\ l # "executing" /\ Shape(row')
  BY <1>2, <1>4, <1>6 DEF InSession
<1>11. QED BY <1>1, <1>2, <1>3, <1>4, <1>7, <1>8, <1>9, <1>10, ThreadStep

\* Where the pieces that end the work of a thread lead.
LEMMA FailInOrder ==
  ASSUME TypeOK, OrderlyInv, NEW w \in Workers, Rest(w) \/ Fail(w),
         \A v \in Workers : v # w => pc[v] \in Away,
         pc[w] \notin Away,
         UNCHANGED <<row, alive, cpc, op, ccopy, granted, questions>>,
         row.status = "running" => lease'.owner \in {NoProc, ProcOf[w]}
  PROVE  OrderlyInv'
<1>1. PICK l \in {"idle", "marking"} : pc' = [pc EXCEPT ![w] = l]
  BY PiecesLead
<1>2. l \in {"idle"} \cup Parting /\ l # "failing" /\ l \notin InSession
  BY NoSession DEF Parting
<1>3. QED BY <1>1, <1>2, PartingStep

\* The steps up to the top of the loop.
LEMMA EnterInOrder ==
  ASSUME Orderly, TypeOK, OrderlyInv, NEW w \in Workers,
         Answer(w) \/ Enter(w) \/ Lease(w) \/ Top(w)
  PROVE  OrderlyInv'
<1>1. /\ pc[w] \in {"answering", "entering", "leasing", "top"} /\ pc[w] \notin Away
      /\ pc[w] # "completing" /\ pc[w] \notin Parting
      /\ UNCHANGED <<row, alive, outputs, cpc, op, ccopy, granted>>
  BY DEF Answer, Enter, Lease, Top, Away, Parting, ledgerVars, clerkVars
<1>2. \A v \in Workers : v # w => pc[v] \in Away
  BY <1>1, OnlyOne
<1>3. Knows(w) /\ Fits(pc[w], copy[w], at[w]) /\ Meets(w) /\ (Open => Tells)
  BY DEF OrderlyInv
<1>4. pc[w] # "top" => row.status # "running"
  BY <1>1, <1>3 DEF Knows
<1>5. \A l : pc' = [pc EXCEPT ![w] = l] => pc'[w] = l
  BY DEF TypeOK
<1>6. CASE (Rest(w) \/ Fail(w)) /\ pc[w] # "top" /\ UNCHANGED questions
  BY <1>1, <1>2, <1>4, <1>6, FailInOrder
<1>7. CASE Answer(w) /\ ~(Fail(w) /\ UNCHANGED questions)
  <2>1. /\ pc[w] = "answering" /\ copy[w].cur \in questions
        /\ questions' = questions \ {copy[w].cur}
        /\ pc' = [pc EXCEPT ![w] = "entering"] /\ UNCHANGED <<copy, at>>
    BY <1>7 DEF Answer, Goto
  <2>2. /\ PausedLoop(copy[w]) /\ (Open => copy[w] = row) /\ Shape(copy[w])
    BY <1>3, <2>1 DEF Knows, Fits
  <2>3. copy[w].cur \in Steps /\ copy[w].status = "waiting" /\ copy[w].cur \in Feedback
    BY <2>2 DEF PausedLoop
  <2>4. Knows(w)'
    <3>1. row.status = "waiting" => row.appr[row.cur] # "pending"
      BY <1>3, <2>1, <2>2, StatusFacts DEF Open, Tells
    <3>2. QED
      BY <1>1, <1>4, <1>5, <2>1, <2>2, <2>3, <3>1, StatusFacts DEF Knows, Open, Acting, Before
  <2>5. Fits("entering", copy'[w], at'[w])
    BY <2>1, <2>2, <2>3 DEF Fits, Shape, Calm, Acting, Before
  <2>6. "entering" \notin InSession /\ row.status # "running"
    BY <1>4, <2>1, NoSession
  <2>7. QED BY <1>1, <1>2, <2>1, <2>4, <2>5, <2>6, StillStep
<1>8. CASE Enter(w) /\ ~Fail(w) /\ ~Rest(w)
  <2>1. /\ pc[w] = "entering" /\ pc' = [pc EXCEPT ![w] = "leasing"]
        /\ copy[w].status \notin Terminal
        /\ UNCHANGED <<copy, at, questions, lease>>
    BY <1>8 DEF Enter, Goto, ledgerVars
  <2>2. Knows(w)' /\ Fits("leasing", copy'[w], at'[w])
    BY <1>1, <1>3, <1>5, <2>1, StatusFacts DEF Knows, Open, Fits, Acting, Before
  <2>3. "leasing" \notin InSession /\ row.status # "running"
    BY <1>4, <2>1, NoSession
  <2>4. QED BY <1>1, <1>2, <2>1, <2>2, <2>3, StillStep
<1>9. CASE Lease(w) /\ ~Fail(w)
  <2>1. /\ pc[w] = "leasing" /\ pc' = [pc EXCEPT ![w] = "top"]
        /\ lease' = [owner |-> ProcOf[w], live |-> TRUE]
        /\ UNCHANGED <<copy, at, questions>>
    BY <1>9 DEF Lease, TakeLease, Goto
  <2>2. Knows(w)' /\ Fits("top", copy'[w], at'[w])
    BY <1>1, <1>3, <1>5, <2>1 DEF Knows, Open, Fits, Acting, Before
  <2>3. lease'.owner = ProcOf[w]
    BY <2>1
  <2>4. QED BY <1>1, <1>2, <2>1, <2>2, <2>3, StillStep
<1>10. CASE Top(w)
  <2>1. pc[w] = "top" /\ UNCHANGED <<copy, at, questions, lease>>
    BY <1>10 DEF Top, ledgerVars
  <2>2. lease.owner \in {NoProc, ProcOf[w]}
    BY <1>1, <1>3, <2>1 DEF Meets, InSession
  <2>3. CASE pc' = [pc EXCEPT ![w] = "leaving"]
    BY <1>1, <1>2, <2>1, <2>2, <2>3, PartingStep DEF Parting
  <2>4. CASE pc' = [pc EXCEPT ![w] = "planning"]
    <3>1. Knows(w)' /\ Fits("planning", copy'[w], at'[w])
      BY <1>1, <1>3, <1>5, <2>1, <2>4 DEF Knows, Open, Fits, Acting, Before
    <3>2. QED BY <1>1, <1>2, <2>1, <2>2, <2>4, <3>1, StillStep
  <2>5. QED BY <1>10, <2>3, <2>4 DEF Top, Goto
<1>11. ASSUME Enter(w) \/ Lease(w) PROVE UNCHANGED questions /\ pc[w] # "top"
  BY <1>11 DEF Enter, Lease, ledgerVars
<1>12. Answer(w) => pc[w] # "top"
  BY DEF Answer
<1>13. QED
  BY <1>6, <1>7, <1>8, <1>9, <1>10, <1>11, <1>12

\* The steps that follow an execution and the end of a session.
LEMMA LeaveInOrder ==
  ASSUME Orderly, TypeOK, OrderlyInv, NEW w \in Workers,
         Executed(w) \/ Report(w) \/ Leave(w) \/ MarkLoad(w) \/ MarkClear(w) \/ Renew(w)
  PROVE  OrderlyInv'
<1>1. /\ pc[w] \notin Away
      /\ UNCHANGED <<row, alive, cpc, op, ccopy, granted>>
  BY DEF Executed, Report, Leave, MarkLoad, MarkClear, Renew, Away, InSession,
         ledgerVars, clerkVars, workerVars
<1>2. \A v \in Workers : v # w => pc[v] \in Away
  BY <1>1, OnlyOne
<1>3. Knows(w) /\ Fits(pc[w], copy[w], at[w]) /\ Meets(w) /\ Shape(row)
  BY DEF OrderlyInv
<1>4. \A l : pc' = [pc EXCEPT ![w] = l] => pc'[w] = l
  BY DEF TypeOK
<1>5. pc[w] \in InSession \/ row.status = "running" => lease.owner \in {NoProc, ProcOf[w]}
  BY <1>1, <1>3 DEF Meets
<1>6. CASE Executed(w)
  <2>1. /\ pc[w] = "executing" /\ UNCHANGED <<copy, at, questions, outputs, lease>>
        /\ pc[w] \in InSession /\ pc[w] \notin Parting
    BY <1>6 DEF Executed, ledgerVars, InSession, Parting
  <2>2. CASE pc' = [pc EXCEPT ![w] = "leaving"]
    BY <1>1, <1>2, <1>5, <2>1, <2>2, PartingStep DEF Parting
  <2>3. CASE pc' = [pc EXCEPT ![w] = "recording"] /\ row.status # "canceled"
    <3>1. Knows(w)'
      BY <1>1, <1>3, <1>4, <2>1, <2>3 DEF Knows, Open, Acting, Before
    <3>2. Fits("recording", copy'[w], at'[w])
      BY <1>3, <2>1, <2>3, StatusFacts DEF Knows, Fits, Acting, Before
    <3>3. QED BY <1>1, <1>2, <1>5, <2>1, <2>3, <3>1, <3>2, StillStep
  <2>4. QED BY <1>6, <2>2, <2>3 DEF Executed, Goto, SeesCanceled
<1>7a. CASE Report(w) /\ GiveUp(w) /\ UNCHANGED questions
  <2>1. /\ pc[w] \in InSession /\ UNCHANGED lease
    BY <1>7a DEF Report, InSession
  <2>2. PICK l \in {"leaving", "erring"} : pc' = [pc EXCEPT ![w] = l]
    BY <1>7a, PiecesLead
  <2>3. l \in {"idle"} \cup Parting /\ l # "failing"
    BY DEF Parting
  <2>4. QED BY <1>1, <1>2, <1>5, <1>7a, <2>1, <2>2, <2>3, PartingStep
<1>7. CASE Report(w) /\ pc[w] = "completing" /\ ~(GiveUp(w) /\ UNCHANGED questions)
  <2>1. /\ UNCHANGED <<copy, at, questions, lease>> /\ outputs' = outputs \cup {at[w]}
        /\ pc' = [pc EXCEPT ![w] = "top"] /\ pc[w] \in InSession /\ pc[w] \notin Parting
    BY <1>7 DEF Report, Goto, InSession, Parting
  <2>2. copy[w].status \in {"running", "canceled"} /\ Calm(copy[w]) /\ Shape(copy[w])
    BY <1>3, <1>7 DEF Fits, Acting
  <2>3. row.status # "waiting"
    BY <1>3, <1>7, <2>2, StatusFacts DEF Knows, Open, Acting
  <2>4. Knows(w)' /\ Fits("top", copy'[w], at'[w])
    BY <1>1, <1>3, <1>4, <1>7, <2>1, <2>2, <2>3 DEF Knows, Fits, Open, Acting, Before
  <2>5. QED BY <1>1, <1>2, <1>5, <1>7, <2>1, <2>4, StillStep
<1>8. CASE Report(w) /\ pc[w] = "asking" /\ ~(GiveUp(w) /\ UNCHANGED questions)
  <2>1. /\ UNCHANGED <<copy, at, outputs, lease>> /\ questions' = questions \cup {at[w]}
        /\ pc' = [pc EXCEPT ![w] = "leaving"] /\ pc[w] \in InSession /\ pc[w] \notin Parting
    BY <1>8 DEF Report, Goto, InSession, Parting
  <2>2. Open => row.appr[at[w]] # "pending"
    BY <1>3, <1>8, StatusFacts DEF Knows, Fits, Open, Acting
  <2>3. Knows(w)' /\ Fits("leaving", copy'[w], at'[w])
    BY <1>4, <2>1 DEF Knows, Fits, Acting, Before
  <2>4. QED BY <1>1, <1>2, <1>5, <1>8, <2>1, <2>2, <2>3, StillStep DEF Parting
<1>9. CASE Leave(w)
  <2>1. pc[w] \in {"leaving", "erring"} /\ (Rest(w) \/ Fail(w))
        /\ UNCHANGED <<questions, outputs>> /\ ReleaseLease(ProcOf[w])
    BY <1>9 DEF Leave
  <2>2. lease'.owner \in {NoProc, ProcOf[w]}
    BY <1>5, <2>1 DEF ReleaseLease, NoLease, InSession
  <2>3. QED BY <1>1, <1>2, <2>1, <2>2, FailInOrder
<1>10. CASE MarkLoad(w)
  <2>1. pc[w] = "marking" /\ UNCHANGED <<lease, questions, outputs>>
    BY <1>10 DEF MarkLoad, ledgerVars
  <2>2. CASE Rest(w)
    BY <1>1, <1>2, <1>5, <2>1, <2>2, FailInOrder
  <2>3. CASE copy' = [copy EXCEPT ![w] = row] /\ pc' = [pc EXCEPT ![w] = "failing"]
    <3>1. copy'[w] = row /\ "failing" \in Parting /\ "failing" \notin InSession
      BY <2>3, NoSession DEF TypeOK, Parting
    <3>2. QED BY <1>1, <1>2, <1>3, <1>5, <2>1, <2>3, <3>1, PartingStep
  <2>4. QED BY <1>10, <2>2, <2>3 DEF MarkLoad, Goto
<1>11. CASE MarkClear(w)
  <2>1. pc[w] = "clearing" /\ Rest(w) /\ UNCHANGED <<questions, outputs>> /\ lease'.owner = NoProc
    BY <1>11 DEF MarkClear, ClearLease, NoLease
  <2>2. QED BY <1>1, <1>2, <2>1, FailInOrder
<1>12. CASE Renew(w)
  <2>1. /\ pc' = [pc EXCEPT ![w] = pc[w]]
        /\ UNCHANGED <<pc, copy, at, questions, outputs>>
        /\ lease'.owner = lease.owner
    BY <1>12 DEF Renew, RenewLease, workerVars, TypeOK, LedgerTypeOK
  <2>2. Knows(w)'
    BY <1>1, <1>3, <2>1 DEF Knows, Open
  <2>3. QED BY <1>1, <1>2, <1>3, <1>5, <2>1, <2>2, StillStep
<1>13. QED BY <1>6, <1>7a, <1>7, <1>8, <1>9, <1>10, <1>11, <1>12 DEF Report

\* A thread gives up.
LEMMA GiveUpInOrder ==
  ASSUME Orderly, TypeOK, OrderlyInv, NEW w \in Workers, GiveUp(w),
         pc[w] \in {"planning", "recording"},
         UNCHANGED <<row, lease, alive, questions, outputs, cpc, op, ccopy, granted>>
  PROVE  OrderlyInv'
<1>1. PICK l \in {"leaving", "erring"} : pc' = [pc EXCEPT ![w] = l]
  BY PiecesLead
<1>2. /\ pc[w] \notin Away /\ pc[w] # "completing" /\ pc[w] \in InSession
      /\ l \in {"idle"} \cup Parting /\ l # "failing"
  BY DEF Away, InSession, Parting
<1>3. lease.owner \in {NoProc, ProcOf[w]}
  BY <1>2 DEF OrderlyInv, Meets
<1>4. \A v \in Workers : v # w => pc[v] \in Away
  BY <1>2, OnlyOne
<1>5. QED BY <1>1, <1>2, <1>3, <1>4, PartingStep

\* persist_run: the run that thread w saves follows from the row, or it takes over the
\* canceled run, or it gives up.
LEMMA PersistInOrder ==
  ASSUME Orderly, TypeOK, OrderlyInv, NEW w \in Workers, pc[w] \in {"planning", "recording"},
         NEW run \in Runs, NEW l \in {"top", "planning", "leaving", "executing", "completing", "asking"},
         Persist(w, run, l),
         UNCHANGED <<lease, alive, questions, outputs, cpc, op, ccopy, granted>>,
         SaveAccepts(run) =>
           /\ Shape(run) /\ Fits(l, run, at'[w])
           /\ l \in {"top", "planning"} => run.status # "waiting"
           /\ run.status \notin Terminal => run.appr = copy[w].appr
  PROVE  OrderlyInv'
<1>1. /\ pc[w] \in Acting /\ pc[w] \notin Away /\ pc[w] \in InSession /\ pc[w] # "dead"
      /\ pc[w] \notin Parting /\ pc[w] # "completing"
  BY DEF Acting, Away, InSession, Parting
<1>2. \A v \in Workers : v # w => pc[v] \in Away
  BY <1>1, OnlyOne
<1>3. /\ Knows(w) /\ Fits(pc[w], copy[w], at[w]) /\ Meets(w) /\ Shape(row) /\ (Open => Tells)
      /\ lease.owner \in {NoProc, ProcOf[w]}
  BY <1>1 DEF OrderlyInv, Meets
<1>4. Open => copy[w] = row /\ (row.status = "waiting" => row.appr[row.cur] # "pending")
  BY <1>1, <1>3, StatusFacts DEF Knows, Fits, Before, InHand
<1>5. /\ l \in InSession /\ l \notin {"answering", "spawned", "entering", "leasing"}
      /\ l \in Acting \cup {"leaving"} /\ l # "recording"
  BY DEF InSession, Acting
<1>6. ASSUME NEW m \in {l, "leaving", "erring"}, pc' = [pc EXCEPT ![w] = m],
             SaveRun(run), copy' = [copy EXCEPT ![w] = run]
      PROVE  OrderlyInv'
  <2>1. row' = run /\ SaveAccepts(run) /\ copy'[w] = run /\ pc'[w] = m
    BY <1>6 DEF SaveRun, TypeOK
  <2>2. m \in InSession /\ m \notin {"answering", "spawned", "entering", "leasing"}
    BY <1>5 DEF InSession
  <2>3. Fits(m, copy'[w], at'[w])
    BY <2>1 DEF Fits, Acting, Before
  <2>4. Knows(w)'
    <3>1. m \in Before => m \in {"top", "planning"}
      BY <2>2 DEF Before
    <3>2. QED BY <2>1, <2>2, <3>1 DEF Knows
  <2>5. run.status \notin Terminal => Open
    BY <2>1, StatusFacts DEF Open, SaveAccepts
  <2>6. \A c \in Clerks : Decides(c)'
    BY <1>1, <1>4, <2>1, <2>5, CallersStay DEF Open
  <2>7. (Open => Tells)'
    <3>1. SUFFICES ASSUME run.status \notin Terminal PROVE Tells'
      BY <2>1 DEF Open
    <3>2. Open /\ Tells /\ copy[w] = row /\ run.appr = row.appr
      BY <1>3, <1>4, <2>1, <2>5, <3>1
    <3>3. (\A s \in granted' : row'.appr[s] = "approved") /\ (\A s \in questions' : row'.appr[s] # "pending")
      BY <2>1, <3>2 DEF Tells
    <3>4. QED BY <3>3 DEF Tells
  <2>8. QED BY <1>1, <1>2, <1>3, <1>6, <2>1, <2>3, <2>4, <2>6, <2>7, ThreadStep
<1>7. ASSUME row.status = "canceled", copy' = [copy EXCEPT ![w] = row],
             pc' = [pc EXCEPT ![w] = l], UNCHANGED row
      PROVE  OrderlyInv'
  <2>1. copy'[w] = row /\ pc'[w] = l /\ ~Open /\ ~Open'
    BY <1>7, StatusFacts DEF TypeOK, Open
  <2>2. Knows(w)'
    BY <1>5, <1>7, <2>1, StatusFacts DEF Knows, Open
  <2>3. Fits(l, copy'[w], at'[w])
    <3>1. Shape(row) /\ Calm(row)
      BY <1>3, <1>7 DEF Shape, Calm
    <3>2. QED BY <1>5, <1>7, <2>1, <3>1 DEF Fits
  <2>4. \A c \in Clerks : Decides(c)'
    BY <2>1, CallersStay
  <2>5. QED BY <1>1, <1>2, <1>3, <1>7, <2>1, <2>2, <2>3, <2>4, ThreadStep
<1>8. CASE SaveRun(run) /\ copy' = [copy EXCEPT ![w] = run] /\ (Goto(w, l) \/ GiveUp(w))
  <2>1. PICK m \in {l, "leaving", "erring"} : pc' = [pc EXCEPT ![w] = m]
    BY <1>8, PiecesLead DEF Goto
  <2>2. QED BY <1>6, <1>8, <2>1
<1>9. CASE row.status = "canceled" /\ copy' = [copy EXCEPT ![w] = row] /\ Goto(w, l) /\ UNCHANGED row
  BY <1>7, <1>9 DEF Goto
<1>10. CASE GiveUp(w) /\ UNCHANGED <<row, age, copy>>
  BY <1>10, GiveUpInOrder
<1>11. QED BY <1>8, <1>9, <1>10 DEF Persist

\* A copy at work is open, or canceled with the row.
LEMMA AtWork ==
  ASSUME TypeOK, OrderlyInv, NEW w \in Workers, pc[w] \in {"planning", "recording"}
  PROVE  /\ copy[w] \in Runs /\ Shape(copy[w]) /\ at[w] \in Steps
         /\ copy[w].status \in Terminal => row.status = copy[w].status
         /\ pc[w] = "planning" =>
              /\ Calm(copy[w]) /\ (copy[w].status = "waiting" => PausedLoop(copy[w]))
              /\ copy[w].status \notin {"succeeded", "failed"}
         /\ pc[w] = "recording" => InHand(copy[w], at[w])
<1>1. Knows(w) /\ Fits(pc[w], copy[w], at[w])
  BY DEF OrderlyInv
<1>2. QED BY <1>1 DEF Knows, Fits, TypeOK, Acting, Before, PausedLoop

\* The locations to which a thread goes on when it has saved a run.
Onward == {"top", "planning", "leaving", "executing", "completing", "asking"}

\* Thread w saves run, if the ledger accepts it, as a run that suits where it goes on.
Moves(w, run, l) ==
  /\ Persist(w, run, l)
  /\ SaveAccepts(run) =>
       /\ Shape(run) /\ Fits(l, run, at'[w])
       /\ l \in {"top", "planning"} => run.status # "waiting"
       /\ run.status \notin Terminal => run.appr = copy[w].appr

Follows(w) ==
  \/ GiveUp(w) /\ UNCHANGED <<row, age, copy>>
  \/ \E run \in Runs, l \in Onward : Moves(w, run, l)

LEMMA MovesFollow ==
  ASSUME NEW w \in Workers, NEW run \in Runs,
         NEW l \in {"top", "planning", "leaving", "executing", "completing", "asking"},
         Persist(w, run, l),
         SaveAccepts(run) =>
           /\ Shape(run) /\ Fits(l, run, at'[w])
           /\ l \in {"top", "planning"} => run.status # "waiting"
           /\ run.status \notin Terminal => run.appr = copy[w].appr
  PROVE  Follows(w)
  BY DEF Follows, Moves, Onward

\* A thread takes up a loop, concludes the run, or takes its next step.
LEMMA PlanFollows ==
  ASSUME WellFormed, TypeOK, PlanInv, NEW w \in Workers,
         Fits("planning", copy[w], at[w]),
         copy[w].status \in Terminal => row.status = copy[w].status,
         ResumeLoop(w) \/ Conclude(w) \/ (\E s \in Steps : Plan(w, s))
  PROVE  Follows(w)
<1> DEFINE run == copy[w]
<1>2. /\ run \in Runs /\ Shape(run) /\ Calm(run) /\ Planned(run)
      /\ run.status \in Terminal => row.status = run.status
      /\ run.status = "waiting" => PausedLoop(run)
      /\ run.status \in RunStatus \ {"succeeded", "failed"}
  BY DEF Fits, Acting, Before, PausedLoop, TypeOK, PlanInv, Runs
<1>3. CASE ResumeLoop(w)
  <2>1. run.status = "waiting"
    BY <1>3 DEF ResumeLoop, PausedLoop
  <2> DEFINE new == Requeued(run, run.cur)
  <2>2. /\ run.cur \in Steps /\ Shape(new) /\ Calm(new) /\ new.status = "queued" /\ KeepsDone(run, new)
    BY <1>2, <2>1, RequeuedShape
  <2>3. new \in Runs
    BY <1>2, <2>2, RunOperators
  <2>4. Fits("planning", new, at'[w])
    BY <2>2 DEF Fits, Acting, Before
  <2>5. (GiveUp(w) /\ UNCHANGED <<row, age, copy>>) \/ Persist(w, new, "planning")
    BY <1>3 DEF ResumeLoop
  <2> HIDE DEF new
  <2>6. QED BY <2>2, <2>3, <2>4, <2>5, MovesFollow DEF KeepsDone, Follows
<1>4. CASE Conclude(w)
  <2>1. run.status # "waiting"
    BY <1>2, <1>4 DEF Conclude
  <2>2. PICK new \in Runs :
          /\ Persist(w, new, "leaving") /\ new.status # "canceled"
          /\ run.status \in {"queued", "running"} => Shape(new) /\ new.status \in Terminal
    <3>1. CASE ExitReached(run)
      <4>1. PartiallyDone(run).status # "canceled"
        BY <1>2 DEF PartiallyDone, Runs
      <4>2. QED BY <1>2, <1>4, <3>1, <4>1, WholeRunOperators, PartiallyDoneShape, StatusFacts DEF Conclude
    <3>2. CASE ~ExitReached(run)
      <4>1. PICK v \in BOOLEAN : Persist(w, Concluded(run, v), "leaving")
        BY <1>4, <3>2 DEF Conclude
      <4>2. Ready(run) = {}
        BY <1>4, <3>2 DEF Conclude
      <4>3. Concluded(run, v).status # "canceled"
        BY <1>2 DEF Concluded, Runs
      <4>4. QED BY <1>2, <4>1, <4>2, <4>3, WholeRunOperators, ConcludedShape, StatusFacts
    <3>3. QED BY <3>1, <3>2
  <2>3. ASSUME SaveAccepts(new) PROVE Shape(new) /\ Fits("leaving", new, at'[w]) /\ new.status \in Terminal
    <3>1. run.status \in {"queued", "running"}
      BY <1>2, <2>1, <2>2, <2>3, StatusFacts DEF SaveAccepts, RunStatus
    <3>2. QED BY <2>2, <3>1 DEF Fits, Acting, Before
  <2>4. QED BY <2>2, <2>3, MovesFollow
<1>5. ASSUME NEW s \in Steps, Plan(w, s) PROVE Follows(w)
  <2>1. /\ run.status # "waiting" /\ run.step[s] = "pending" /\ s \in Active
        /\ \A d \in Deps[s] : run.step[d] \in Settled
        /\ at'[w] = s
    BY <1>2, <1>5 DEF Plan, IsNext, Ready, Planned, TypeOK
  <2>2. run.status \notin Terminal /\ s \in Approval =>
          (Approved(run, s) <=> run.appr[s] # "pending")
    <3>1. SUFFICES ASSUME run.status \notin Terminal, s \in Approval
                   PROVE  Approved(run, s) <=> run.appr[s] # "pending"
      OBVIOUS
    <3>2. run.appr[s] \in {"pending", "approved"}
      BY <1>2, <2>1, <3>1 DEF Shape
    <3>3. \A a \in Steps : IsRecordFor(a, s) <=> a = s
      BY <2>1, <3>1 DEF WellFormed, DistinctApprovals, IsRecordFor, Steps
    <3>4. QED BY <3>2, <3>3 DEF Approved
  <2>3. run.status \notin Terminal /\ s \notin Approval => run.appr[s] # "pending"
    BY <1>2 DEF Shape
  <2>4. \A new : SaveAccepts(new) /\ new.status \in {"waiting", "running"} => run.status \notin Terminal
    BY <1>2, StatusFacts DEF SaveAccepts
  <2>5. CASE Persist(w, WithStep(run, s, "skipped"), "top")
    <3> DEFINE new == WithStep(run, s, "skipped")
    <3>1. new \in Runs /\ Shape(new) /\ Calm(new) /\ new.status = run.status /\ KeepsDone(run, new)
      BY <1>2, <2>1, RunOperators, BeginningShape DEF StepStatus
    <3>2. Fits("top", new, at'[w])
      BY <1>2, <2>1, <3>1 DEF Fits, Acting, Before
    <3>3. Persist(w, new, "top")
      BY <2>5
    <3> HIDE DEF new
    <3>4. QED BY <2>1, <3>1, <3>2, <3>3, MovesFollow DEF KeepsDone
  <2>6. CASE s \in Approval /\ ~Approved(run, s) /\ Persist(w, Blocked(run, s), "leaving")
    <3> DEFINE new == Blocked(run, s)
    <3>1. new \in Runs /\ new.status = "waiting"
      BY <1>2, RunOperators DEF Blocked, WithStep, Runs
    <3>2. SaveAccepts(new) => Shape(new) /\ KeepsDone(run, new)
      BY <1>2, <2>1, <2>2, <2>4, <2>6, <3>1, BeginningShape
    <3>3. SaveAccepts(new) => Fits("leaving", new, at'[w])
      BY DEF Fits, Acting, Before
    <3>4. Persist(w, new, "leaving")
      BY <2>6
    <3> HIDE DEF new
    <3>5. QED BY <3>1, <3>2, <3>3, <3>4, MovesFollow DEF KeepsDone
  <2>7. CASE (s \in Approval => Approved(run, s)) /\ Persist(w, Started(run, s), "executing")
    <3> DEFINE new == Started(run, s)
    <3>1. new \in Runs /\ new.status = "running"
      BY <1>2, RunOperators DEF Started, WithStep, Runs
    <3>2. SaveAccepts(new) => Shape(new) /\ KeepsDone(run, new) /\ InHand(new, s)
      BY <1>2, <2>1, <2>2, <2>3, <2>4, <2>7, <3>1, BeginningShape
    <3>3. SaveAccepts(new) => Fits("executing", new, at'[w])
      BY <2>1, <3>2 DEF Fits, Acting, Before
    <3>4. Persist(w, new, "executing")
      BY <2>7
    <3> HIDE DEF new
    <3>5. QED BY <3>1, <3>2, <3>3, <3>4, MovesFollow DEF KeepsDone
  <2>8. CASE GiveUp(w) /\ UNCHANGED <<row, age, copy>>
    BY <2>8 DEF Follows
  <2>9. QED BY <1>5, <2>5, <2>6, <2>7, <2>8 DEF Plan
<1>6. QED BY <1>3, <1>4, <1>5

\* A thread records the result of its step.
LEMMA RecordFollows ==
  ASSUME TypeOK, NEW w \in Workers, Fits("recording", copy[w], at[w]), Record(w)
  PROVE  Follows(w)
<1>1. UNCHANGED at
  BY DEF Record
<1> DEFINE run == copy[w]
           s == at[w]
<1>2. run \in Runs /\ Shape(run) /\ s \in Steps /\ InHand(run, s)
  BY DEF Fits, Acting, TypeOK
<1>3. ASSUME NEW st \in {"succeeded", "skipped"}, NEW l \in {"completing", "top"},
             st = "succeeded" <=> l = "completing", Persist(w, WithStep(run, s, st), l)
      PROVE  Follows(w)
  <2> DEFINE new == WithStep(run, s, st)
  <2>1. /\ new \in Runs /\ Shape(new) /\ Calm(new) /\ new.status = "running"
        /\ new.appr = run.appr /\ new.step[s] = st
        /\ \A d \in Steps \ {s} : new.step[d] = run.step[d]
    <3>1. new \in Runs
      BY <1>2, RunOperators DEF StepStatus
    <3>2. QED BY <1>2, <3>1, EndingShape
  <2>2. Fits(l, new, at'[w])
    BY <1>1, <2>1 DEF Fits, Acting, Before
  <2>3. Persist(w, new, l)
    BY <1>3
  <2> HIDE DEF new
  <2>4. QED BY <1>1, <2>1, <2>2, <2>3, MovesFollow
<1>4. CASE s \in Feedback /\ Persist(w, Blocked(run, s), "asking")
  <2> DEFINE new == Blocked(run, s)
  <2>1. /\ new \in Runs /\ Shape(new) /\ KeepsDone(run, new)
        /\ new.status = "waiting" /\ new.cur = s /\ new.appr[s] # "pending"
    <3>1. new \in Runs
      BY <1>2, RunOperators
    <3>2. QED BY <1>2, <1>4, <3>1, EndingShape
  <2>2. Fits("asking", new, at'[w])
    BY <1>1, <2>1 DEF Fits, Acting, Before
  <2>3. Persist(w, new, "asking")
    BY <1>4
  <2> HIDE DEF new
  <2>4. QED BY <1>1, <2>1, <2>2, <2>3, MovesFollow DEF KeepsDone
<1>5. CASE Persist(w, FailedAt(run, s), "leaving")
  <2>1. FailedAt(run, s) \in Runs /\ Shape(FailedAt(run, s)) /\ FailedAt(run, s).status \in Terminal
    <3>1. FailedAt(run, s) \in Runs
      BY <1>2, RunOperators
    <3>2. QED BY <1>2, <3>1, EndingShape, StatusFacts
  <2>2. Fits("leaving", FailedAt(run, s), at'[w])
    BY DEF Fits, Acting, Before
  <2>3. QED BY <1>1, <1>5, <2>1, <2>2, MovesFollow
<1>6. CASE GiveUp(w) /\ UNCHANGED <<row, age, copy>>
  BY <1>6 DEF Follows
<1>7. QED
  <2>1. \/ Persist(w, WithStep(run, s, "succeeded"), "completing")
        \/ s \in Feedback /\ Persist(w, Blocked(run, s), "asking")
        \/ Persist(w, WithStep(run, s, "skipped"), "top")
        \/ Persist(w, FailedAt(run, s), "leaving")
        \/ GiveUp(w) /\ UNCHANGED <<row, age, copy>>
    BY DEF Record
  <2>2. QED BY <1>3, <1>4, <1>5, <1>6, <2>1

LEMMA PlanInOrder ==
  ASSUME Orderly, TypeOK, PlanInv, OrderlyInv, NEW w \in Workers,
         ResumeLoop(w) \/ Conclude(w) \/ (\E s \in Steps : Plan(w, s))
  PROVE  OrderlyInv'
<1>1. /\ pc[w] = "planning"
      /\ UNCHANGED <<lease, alive, questions, outputs, cpc, op, ccopy, granted>>
  BY DEF ResumeLoop, Conclude, Plan, clerkVars
<1>2. /\ Fits("planning", copy[w], at[w])
      /\ copy[w].status \in Terminal => row.status = copy[w].status
  BY <1>1 DEF OrderlyInv, Knows, Acting
<1>3. Follows(w)
  BY <1>2, OrderlyPackage, PlanFollows
<1>4. QED BY <1>1, <1>3, GiveUpInOrder, PersistInOrder DEF Follows, Moves, Onward

LEMMA RecordInOrder ==
  ASSUME Orderly, TypeOK, OrderlyInv, NEW w \in Workers, Record(w)
  PROVE  OrderlyInv'
<1>1. /\ pc[w] = "recording"
      /\ UNCHANGED <<lease, alive, questions, outputs, cpc, op, ccopy, granted>>
  BY DEF Record, clerkVars
<1>2. Follows(w)
  BY <1>1, RecordFollows DEF OrderlyInv
<1>3. QED BY <1>1, <1>2, GiveUpInOrder, PersistInOrder DEF Follows, Moves, Onward

\* A thread records that its run failed.
LEMMA MarkSaveInOrder ==
  ASSUME Orderly, TypeOK, OrderlyInv, NEW w \in Workers, MarkSave(w)
  PROVE  OrderlyInv'
<1>1. /\ pc[w] = "failing" /\ pc[w] \notin Away /\ pc[w] # "dead" /\ pc[w] # "completing"
      /\ UNCHANGED <<lease, alive, questions, outputs, cpc, op, ccopy, granted>>
  BY DEF MarkSave, clerkVars, Away
<1>2. \A v \in Workers : v # w => pc[v] \in Away
  BY <1>1, OnlyOne
<1>3. copy[w] \in Runs /\ Shape(copy[w]) /\ Meets(w)
  BY <1>1 DEF OrderlyInv, Fits, TypeOK
<1> DEFINE new == MarkedFailed(copy[w])
<1>4. Shape(new) /\ new.status = "failed"
  BY <1>3, EndedShape
<1>5. CASE SaveRun(new) /\ Goto(w, "clearing") /\ UNCHANGED <<copy, at, background>>
  <2>1. /\ row' = new /\ pc' = [pc EXCEPT ![w] = "clearing"] /\ pc'[w] = "clearing"
        /\ ~Open'
    BY <1>4, <1>5, StatusFacts DEF SaveRun, Goto, TypeOK, Open
  <2> HIDE DEF new
  <2>2. Knows(w)' /\ Fits("clearing", copy'[w], at'[w])
    BY <2>1 DEF Knows, Fits, Acting, Before
  <2>3. \A c \in Clerks : Decides(c)'
    BY <1>1, <2>1, CallersStay
  <2>4. "clearing" \notin InSession /\ row'.status # "running"
    BY <1>4, <2>1, NoSession
  <2>5. QED BY <1>1, <1>2, <1>4, <2>1, <2>2, <2>3, <2>4, ThreadStep
<1>6. CASE Rest(w) /\ UNCHANGED <<row, age>>
  <2>1. row.status = "running" => lease'.owner \in {NoProc, ProcOf[w]}
    BY <1>1, <1>3 DEF Meets
  <2>2. QED BY <1>1, <1>2, <1>6, <2>1, FailInOrder
<1>7. QED BY <1>5, <1>6 DEF MarkSave

LEMMA NewRunInShape == Shape(NewRun)
  BY StatusFacts DEF Shape, NewRun, Settled, Terminal

\* A step of caller c that leaves the run alone.
LEMMA CallerStill ==
  ASSUME TypeOK, OrderlyInv, NEW c \in Clerks, Decides(c)',
         \A d \in Clerks \ {c} : cpc'[d] = cpc[d] /\ op'[d] = op[d] /\ ccopy'[d] = ccopy[d],
         UNCHANGED <<row, alive, questions, outputs, pc, copy, at, granted>>,
         lease' = lease \/ lease'.owner = NoProc
  PROVE  OrderlyInv'
<1>1. \A d \in Clerks : Decides(d)'
  <2>1. ASSUME NEW d \in Clerks \ {c} PROVE Decides(d)'
    BY DEF OrderlyInv, Decides, Open
  <2>2. QED BY <2>1
<1>2. \A w \in Workers : Knows(w)' /\ Fits(pc'[w], copy'[w], at'[w]) /\ Meets(w)'
  BY DEF OrderlyInv, Knows, Meets, Open
<1>3. (Open => Tells)'
  BY DEF OrderlyInv, Open, Tells
<1>4. QED BY <1>1, <1>2, <1>3 DEF OrderlyInv

\* Only the sweep acts beside a caller that does anything else.
LEMMA OthersSweep ==
  ASSUME Orderly, OrderlyInv, NEW c \in Clerks, cpc[c] # "idle", op[c] # "abandon",
         NEW d \in Clerks \ {c}, cpc[d] # "idle"
  PROVE  op[d] = "abandon"
<1>1. op[c] \in May[c] /\ op[d] \in May[d]
  BY DEF OrderlyInv, Decides
<1>2. QED BY <1>1 DEF Orderly

\* A caller asks, selects, loads, gives up or ends.
LEMMA CallInOrder ==
  ASSUME Orderly, TypeOK, OrderlyInv, NEW c \in Clerks,
         \/ \E o \in Commands : Request(c, o) \/ Select(c, o)
         \/ Reload(c) \/ ClerkClear(c) \/ ClerkDies(c)
  PROVE  OrderlyInv'
<1>1. Shape(row) /\ Decides(c) /\ row \in Runs
  BY DEF OrderlyInv, TypeOK, LedgerTypeOK
<1>2. /\ UNCHANGED <<row, alive, questions, outputs, pc, copy, at, granted>>
      /\ lease' = lease \/ lease'.owner = NoProc
  BY DEF Request, Select, Reload, ClerkClear, ClerkDies, ClearLease, NoLease,
         ledgerVars, workerVars
<1>3. CASE ClerkRest(c)
  <2>1. /\ cpc'[c] = "idle" /\ ccopy'[c] = NewRun
        /\ \A d \in Clerks \ {c} : cpc'[d] = cpc[d] /\ op'[d] = op[d] /\ ccopy'[d] = ccopy[d]
    BY <1>3 DEF ClerkRest, TypeOK
  <2>2. Decides(c)'
    BY <2>1, NewRunInShape DEF Decides
  <2>3. QED BY <1>2, <2>1, <2>2, CallerStill
<1>4. ASSUME NEW o \in Commands, Request(c, o) PROVE OrderlyInv'
  <2>1. /\ o \in May[c] /\ o \in {"approve", "reject", "cancel"}
        /\ cpc'[c] = "loaded" /\ op'[c] = o /\ ccopy'[c] = row
        /\ \A d \in Clerks \ {c} : cpc'[d] = cpc[d] /\ op'[d] = op[d] /\ ccopy'[d] = ccopy[d]
    BY <1>4 DEF Request, TypeOK
  <2>2. o # "cancel" => row.status = "waiting" /\ row.appr[row.cur] = "pending"
    BY <1>1, <1>4, WhatIsDecided, OrderlyPackage DEF Request
  <2>3. Decides(c)'
    BY <1>1, <1>2, <2>1, <2>2 DEF Decides
  <2>4. QED BY <1>2, <2>1, <2>3, CallerStill
<1>5. ASSUME NEW o \in Commands, Select(c, o) PROVE OrderlyInv'
  <2>1. /\ o \in May[c] /\ o \in {"recover", "abandon"}
        /\ cpc'[c] = "selected" /\ op'[c] = o /\ ccopy'[c] = ccopy[c]
        /\ \A d \in Clerks \ {c} : cpc'[d] = cpc[d] /\ op'[d] = op[d] /\ ccopy'[d] = ccopy[d]
    BY <1>5 DEF Select, TypeOK, Orderly
  <2>2. ASSUME o = "recover"
        PROVE  /\ row.status = "running" /\ \A w \in Workers : pc[w] \in Away
               /\ \E p \in Procs : ~alive[p]
    <3>1. /\ row.status = "running" /\ lease.owner # NoProc /\ ~alive[lease.owner]
          /\ lease.owner \in Procs
      BY <1>5, <2>2 DEF Select, RecoverSelects, OwnerAlive, TypeOK, LedgerTypeOK
    <3>2. ASSUME NEW w \in Workers, pc[w] \notin Away PROVE FALSE
      BY <3>1, <3>2 DEF OrderlyInv, Meets, Away
    <3>3. QED BY <3>1, <3>2
  <2>3. Decides(c)'
    BY <1>1, <1>2, <2>1, <2>2 DEF Decides
  <2>4. QED BY <1>2, <2>1, <2>3, CallerStill
<1>6. CASE Reload(c) /\ ~ClerkRest(c)
  <2>1. /\ cpc[c] = "selected" /\ cpc'[c] = "loaded" /\ ccopy'[c] = row /\ op'[c] = op[c]
        /\ \A d \in Clerks \ {c} : cpc'[d] = cpc[d] /\ op'[d] = op[d] /\ ccopy'[d] = ccopy[d]
    BY <1>6 DEF Reload, TypeOK
  <2>2. Decides(c)'
    BY <1>1, <1>2, <2>1 DEF Decides, Open
  <2>3. QED BY <1>2, <2>1, <2>2, CallerStill
<1>7. QED BY <1>3, <1>4, <1>5, <1>6 DEF ClerkClear, ClerkDies

\* A caller ends the run.
LEMMA EndingInOrder ==
  ASSUME Orderly, TypeOK, OrderlyInv, NEW run \in Runs, SaveRun(run), Shape(run),
         run.status \in Terminal, NEW c \in Clerks,
         \A d \in Clerks \ {c} : cpc'[d] = cpc[d] /\ op'[d] = op[d] /\ ccopy'[d] = ccopy[d],
         Decides(c)', UNCHANGED <<lease, alive, questions, outputs, pc, copy, at>>
  PROVE  OrderlyInv'
<1>1. row' = run /\ ~Open' /\ (row.status \in Terminal => run.status = row.status)
  BY DEF SaveRun, SaveAccepts, Open
<1>2. row'.status # "running" /\ row'.status # "waiting"
  BY <1>1, StatusFacts
<1>3. \A d \in Clerks : Decides(d)'
  <2>1. ASSUME NEW d \in Clerks \ {c} PROVE Decides(d)'
    BY <1>1 DEF OrderlyInv, Decides
  <2>2. QED BY <2>1
<1>4. \A w \in Workers : Knows(w)' /\ Fits(pc'[w], copy'[w], at'[w]) /\ Meets(w)'
  <2>1. ASSUME NEW w \in Workers PROVE Knows(w)' /\ Fits(pc'[w], copy'[w], at'[w]) /\ Meets(w)'
    <3>1. Knows(w) /\ Fits(pc[w], copy[w], at[w]) /\ Meets(w)
      BY DEF OrderlyInv
    <3>2. Knows(w)'
      BY <1>1, <1>2, <3>1 DEF Knows
    <3>3. Meets(w)'
      BY <1>2, <3>1 DEF Meets
    <3>4. QED BY <3>1, <3>2, <3>3
  <2>2. QED BY <2>1
<1>5. QED BY <1>1, <1>3, <1>4 DEF OrderlyInv

\* An approval is recorded.
LEMMA ApprovalInOrder ==
  ASSUME Orderly, TypeOK, OrderlyInv, NEW c \in Clerks, cpc[c] = "loaded", op[c] = "approve",
         NEW a \in Decidable(ccopy[c]), SaveRun(ApprovedStep(ccopy[c], a)), ClerkRest(c),
         granted' = granted \cup {ccopy[c].cur},
         UNCHANGED <<lease, alive, questions, outputs, pc, copy, at>>
  PROVE  OrderlyInv'
<1> DEFINE run == ccopy[c]
           new == ApprovedStep(run, a)
<1>1. run \in Runs /\ Shape(run)
  BY DEF OrderlyInv, Decides, TypeOK
<1>2. /\ Shape(new) /\ new.status = "queued" /\ run.cur \in Steps
      /\ \A d \in Steps : /\ run.step[d] = "succeeded" <=> new.step[d] = "succeeded"
                          /\ new.appr[d] = IF d = run.cur THEN "approved" ELSE run.appr[d]
  BY <1>1, DecidedShape, OrderlyPackage, WhatIsDecided
<1>3. row' = new /\ Open /\ Open'
  BY <1>2, StatusFacts DEF SaveRun, SaveAccepts, Open
<1>4. run = row /\ row.status = "waiting" /\ row.appr[row.cur] = "pending" /\ Tells
  BY <1>3 DEF OrderlyInv, Decides
<1> HIDE DEF new, run
<1>5. ASSUME NEW w \in Workers PROVE Knows(w)' /\ Fits(pc'[w], copy'[w], at'[w]) /\ Meets(w)'
  <2>1. Knows(w) /\ Fits(pc[w], copy[w], at[w]) /\ Meets(w)
    BY DEF OrderlyInv
  <2>2. pc[w] \notin Acting
    BY <1>3, <1>4, <2>1 DEF Knows, Fits, Acting, Before, InHand
  <2>3. pc[w] \notin Before
    BY <2>2 DEF Acting, Before
  <2>4. row.cur \in Steps /\ row.cur \notin questions
    BY <1>2, <1>4 DEF Tells, TypeOK, LedgerTypeOK
  <2>5. row'.status = "queued"
    BY <1>2, <1>3
  <2>6. Knows(w)'
    BY <2>1, <2>2, <2>3, <2>4, <2>5, <1>3 DEF Knows
  <2>7. QED BY <1>2, <1>3, <2>1, <2>6 DEF Meets
<1>6. ASSUME NEW d \in Clerks PROVE Decides(d)'
  <2>1. CASE d = c
    BY <2>1, NewRunInShape DEF ClerkRest, TypeOK, Decides
  <2>2. CASE d # c
    <3>1. cpc'[d] = cpc[d] /\ op'[d] = op[d] /\ ccopy'[d] = ccopy[d]
      BY <2>2 DEF ClerkRest, TypeOK
    <3>2. cpc[d] # "idle" => op[d] = "abandon"
      BY <2>2, OthersSweep
    <3>3. QED BY <3>1, <3>2 DEF OrderlyInv, Decides
  <2>3. QED BY <2>1, <2>2
<1>7. Tells'
  <2>1. granted \subseteq Steps /\ questions \subseteq Steps
    BY DEF TypeOK, LedgerTypeOK
  <2>2. \A s \in granted' : row'.appr[s] = "approved"
    <3>1. granted' = granted \cup {run.cur}
      BY DEF run
    <3>2. QED BY <1>2, <1>3, <1>4, <2>1, <3>1 DEF Tells
  <2>3. \A s \in questions' : row'.appr[s] # "pending"
    BY <1>2, <1>3, <1>4, <2>1 DEF Tells
  <2>4. QED BY <2>2, <2>3 DEF Tells
<1>8. QED BY <1>2, <1>3, <1>5, <1>6, <1>7 DEF OrderlyInv

\* An interrupted run is recovered.
LEMMA RecoveryInOrder ==
  ASSUME Orderly, TypeOK, OrderlyInv, NEW c \in Clerks, cpc[c] = "loaded", op[c] = "recover",
         SaveRun(Recovered(ccopy[c])),
         cpc' = [cpc EXCEPT ![c] = "clearing"],
         UNCHANGED <<lease, alive, questions, outputs, pc, copy, at, op, ccopy, granted>>
  PROVE  OrderlyInv'
<1> DEFINE run == ccopy[c]
           new == Recovered(run)
<1>1. run \in Runs /\ Shape(run) /\ new.status = "queued"
  BY DEF OrderlyInv, Decides, TypeOK, Recovered, Runs
<1>2. row' = new /\ Open /\ Open'
  BY <1>1, StatusFacts DEF SaveRun, SaveAccepts, Open
<1>3. /\ run = row /\ row.status = "running" /\ \A w \in Workers : pc[w] \in Away
      /\ \E p \in Procs : ~alive[p]
      /\ Tells
  BY <1>2 DEF OrderlyInv, Decides
<1>4. Shape(new) /\ KeepsDone(run, new)
  BY <1>1, <1>3, RecoveredShape
<1> HIDE DEF new, run
<1>5. ASSUME NEW w \in Workers PROVE Knows(w)' /\ Fits(pc'[w], copy'[w], at'[w]) /\ Meets(w)'
  <2>1. pc'[w] \in Away /\ Meets(w)
    BY <1>3 DEF OrderlyInv
  <2>2. QED BY <2>1 DEF Knows, Fits, Meets, Away, Acting, Before
<1>6. ASSUME NEW d \in Clerks PROVE Decides(d)'
  <2>1. CASE d = c
    <3>1. cpc'[d] = "clearing" /\ Decides(d)
      BY <2>1 DEF TypeOK, OrderlyInv
    <3>2. QED BY <2>1, <3>1 DEF Decides
  <2>2. CASE d # c
    <3>1. cpc'[d] = cpc[d]
      BY <2>2 DEF TypeOK
    <3>2. cpc[d] # "idle" => op[d] = "abandon"
      BY <2>2, OthersSweep
    <3>3. QED BY <3>1, <3>2 DEF OrderlyInv, Decides
  <2>3. QED BY <2>1, <2>2
<1>7. Tells'
  BY <1>2, <1>3, <1>4 DEF Tells, KeepsDone
<1>8. QED BY <1>2, <1>4, <1>5, <1>6, <1>7 DEF OrderlyInv

\* The save of a command.
LEMMA ClerkSaveInOrder ==
  ASSUME Orderly, TypeOK, OrderlyInv, NEW c \in Clerks, ClerkSave(c)
  PROVE  OrderlyInv'
<1>1. /\ cpc[c] = "loaded" /\ Decides(c) /\ ccopy[c] \in Runs /\ Shape(ccopy[c])
      /\ op[c] \in {"approve", "reject", "cancel", "recover", "abandon"}
      /\ UNCHANGED <<lease, alive, questions, outputs, pc, copy, at>>
  BY DEF ClerkSave, OrderlyInv, Decides, TypeOK, Orderly, Commands, workerVars
<1>2. PICK run \in Rewrites(op[c], ccopy[c]) :
        \/ /\ SaveRun(run)
           /\ granted' = IF op[c] = "approve" THEN granted \cup {ccopy[c].cur} ELSE granted
           /\ IF op[c] \in {"recover", "force", "abandon"}
              THEN cpc' = [cpc EXCEPT ![c] = "clearing"] /\ UNCHANGED <<op, ccopy>>
              ELSE ClerkRest(c)
        \/ ~SaveAccepts(run) /\ ClerkRest(c) /\ UNCHANGED <<row, age, granted>>
  BY DEF ClerkSave
<1>3. ClerkRest(c) =>
        /\ \A d \in Clerks \ {c} : cpc'[d] = cpc[d] /\ op'[d] = op[d] /\ ccopy'[d] = ccopy[d]
        /\ Decides(c)'
  BY NewRunInShape DEF ClerkRest, TypeOK, Decides
<1>4. cpc' = [cpc EXCEPT ![c] = "clearing"] /\ UNCHANGED <<op, ccopy>> =>
        /\ \A d \in Clerks \ {c} : cpc'[d] = cpc[d] /\ op'[d] = op[d] /\ ccopy'[d] = ccopy[d]
        /\ Decides(c)'
  BY <1>1 DEF TypeOK, Decides
<1>5. CASE ~SaveAccepts(run) /\ ClerkRest(c) /\ UNCHANGED <<row, age, granted>>
  BY <1>1, <1>3, <1>5, CallerStill
<1>6. CASE op[c] = "approve" /\ SaveRun(run)
  <2>1. PICK a \in Decidable(ccopy[c]) : run = ApprovedStep(ccopy[c], a)
    BY <1>6 DEF Rewrites
  <2>2. granted' = granted \cup {ccopy[c].cur} /\ ClerkRest(c)
    BY <1>2, <1>6 DEF SaveRun
  <2>3. QED BY <1>1, <1>6, <2>1, <2>2, ApprovalInOrder
<1>7. CASE op[c] = "recover" /\ SaveRun(run)
  <2>1. run = Recovered(ccopy[c])
    BY <1>7 DEF Rewrites
  <2>2. cpc' = [cpc EXCEPT ![c] = "clearing"] /\ UNCHANGED <<op, ccopy, granted>>
    BY <1>2, <1>7 DEF SaveRun
  <2>3. QED BY <1>1, <1>7, <2>1, <2>2, RecoveryInOrder
<1>8. CASE op[c] \in {"reject", "cancel", "abandon"} /\ SaveRun(run)
  <2>1. Shape(run) /\ run.status \in Terminal
    <3>1. CASE op[c] = "reject"
      <4>1. PICK a \in Decidable(ccopy[c]) : run = RejectedStep(ccopy[c], a)
        BY <3>1 DEF Rewrites
      <4>2. QED BY <1>1, <4>1, DecidedShape, OrderlyPackage, StatusFacts
    <3>2. CASE op[c] = "cancel"
      BY <1>1, <3>2, EndedShape, StatusFacts DEF Rewrites
    <3>3. CASE op[c] = "abandon"
      BY <1>1, <3>3, EndedShape, StatusFacts DEF Rewrites
    <3>4. QED BY <1>8, <3>1, <3>2, <3>3
  <2>2. run \in Runs
    BY <1>1, RewritesAreRuns DEF TypeOK
  <2>3. \/ ClerkRest(c)
        \/ cpc' = [cpc EXCEPT ![c] = "clearing"] /\ UNCHANGED <<op, ccopy>>
    BY <1>2
  <2>4. QED BY <1>1, <1>3, <1>4, <1>8, <2>1, <2>2, <2>3, EndingInOrder
<1>9. QED BY <1>1, <1>2, <1>5, <1>6, <1>7, <1>8

\* A process is killed, and time passes.
LEMMA EnvironmentInOrder ==
  ASSUME Orderly, TypeOK, OrderlyInv, (\E p \in Procs : Crash(p)) \/ Expire \/ Age
  PROVE  OrderlyInv'
<1>1. ASSUME NEW p \in Procs, Crash(p) PROVE OrderlyInv'
  <2>1. /\ UNCHANGED <<row, lease, questions, outputs, cpc, op, ccopy, granted>>
        /\ \A q \in Procs : alive'[q] = IF q = p THEN FALSE ELSE alive[q]
        /\ \A w \in Workers : \/ ProcOf[w] = p /\ pc'[w] = "dead"
                              \/ ProcOf[w] # p /\ pc'[w] = pc[w] /\ copy'[w] = copy[w] /\ at'[w] = at[w]
    BY <1>1 DEF Crash, clerkVars, TypeOK, LedgerTypeOK
  <2>2. \E q \in Procs : ~alive'[q]
    BY <2>1
  <2>3. ASSUME NEW w \in Workers PROVE Knows(w)' /\ Fits(pc'[w], copy'[w], at'[w]) /\ Meets(w)'
    <3>1. Knows(w) /\ Fits(pc[w], copy[w], at[w]) /\ Meets(w) /\ ProcOf[w] \in Procs
      BY RunnerAssumption DEF OrderlyInv
    <3>2. CASE pc'[w] = "dead"
      BY <3>2 DEF Knows, Fits, Meets, Away, Acting, Before
    <3>3. CASE ProcOf[w] # p /\ pc'[w] = pc[w] /\ copy'[w] = copy[w] /\ at'[w] = at[w]
      BY <2>1, <3>1, <3>3 DEF Knows, Open, Meets
    <3>4. QED BY <2>1, <3>2, <3>3
  <2>4. ASSUME NEW c \in Clerks PROVE Decides(c)'
    <3>1. Decides(c)
      BY DEF OrderlyInv
    <3>2. \A w \in Workers : pc[w] \in Away => pc'[w] \in Away
      BY <2>1 DEF Away
    <3>3. QED BY <2>1, <2>2, <3>1, <3>2 DEF Decides, Open
  <2>5. (Open => Tells)'
    BY <2>1, <2>2 DEF OrderlyInv, Open, Tells
  <2>6. \A v, w \in Workers : pc'[v] \notin Away /\ pc'[w] \notin Away => v = w
    BY <2>1 DEF OrderlyInv, Away
  <2>7. QED BY <2>1, <2>2, <2>3, <2>4, <2>5, <2>6 DEF OrderlyInv
<1>2. CASE Expire \/ Age
  <2>1. /\ UNCHANGED <<row, alive, questions, outputs, pc, copy, at, cpc, op, ccopy, granted>>
        /\ lease'.owner = lease.owner
    BY <1>2 DEF Expire, Age, workerVars, clerkVars, TypeOK, LedgerTypeOK
  <2>2. \A w \in Workers : Knows(w)' /\ Fits(pc'[w], copy'[w], at'[w]) /\ Meets(w)'
    BY <2>1 DEF OrderlyInv, Knows, Open, Meets
  <2>3. \A c \in Clerks : Decides(c)'
    BY <2>1 DEF OrderlyInv, Decides, Open
  <2>4. (Open => Tells)'
    BY <2>1 DEF OrderlyInv, Open, Tells
  <2>5. QED BY <2>1, <2>2, <2>3, <2>4 DEF OrderlyInv
<1>3. QED BY <1>1, <1>2

LEMMA StepInOrder ==
  Orderly /\ TypeOK /\ PlanInv /\ OrderlyInv /\ [Next]_vars => OrderlyInv'
<1>1. SUFFICES ASSUME Orderly, TypeOK, PlanInv, OrderlyInv, [Next]_vars PROVE OrderlyInv'
  OBVIOUS
<1>2. CASE UNCHANGED vars
  <2>1. UNCHANGED <<row, lease, alive, questions, outputs, pc, copy, at, cpc, op, ccopy, granted>>
    BY <1>2 DEF vars
  <2>2. \A w \in Workers : Knows(w)' /\ Fits(pc'[w], copy'[w], at'[w]) /\ Meets(w)'
    BY <1>1, <2>1 DEF OrderlyInv, Knows, Open, Meets
  <2>3. \A c \in Clerks : Decides(c)'
    BY <1>1, <2>1 DEF OrderlyInv, Decides, Open
  <2>4. (Open => Tells)'
    BY <1>1, <2>1 DEF OrderlyInv, Open, Tells
  <2>5. QED BY <1>1, <2>1, <2>2, <2>3, <2>4 DEF OrderlyInv
<1>3. ASSUME NEW w \in Workers, WorkerStep(w) PROVE OrderlyInv'
  BY <1>1, <1>3, LoadInOrder, EnterInOrder, LeaveInOrder, PlanInOrder, RecordInOrder,
     MarkSaveInOrder DEF WorkerStep
<1>4. ASSUME NEW w \in Workers, Renew(w) \/ \E f \in BOOLEAN : Load(w, f) PROVE OrderlyInv'
  BY <1>1, <1>4, LoadInOrder, LeaveInOrder
<1>5. ASSUME NEW c \in Clerks,
             \/ ClerkStep(c) \/ ClerkDies(c)
             \/ \E o \in Commands : Request(c, o) \/ Select(c, o)
      PROVE  OrderlyInv'
  BY <1>1, <1>5, CallInOrder, ClerkSaveInOrder DEF ClerkStep
<1>6. CASE (\E p \in Procs : Crash(p)) \/ Expire \/ Age
  BY <1>1, <1>6, EnvironmentInOrder
<1>7. QED BY <1>1, <1>2, <1>3, <1>4, <1>5, <1>6 DEF Next

LEMMA RunsAreOrderly == Orderly => (Spec => []OrderlyInv)
<1>1. SUFFICES ASSUME Orderly PROVE Spec => []OrderlyInv
  OBVIOUS
<1>2. TypeOK /\ PlanInv /\ OrderlyInv /\ [Next]_vars => OrderlyInv'
  BY <1>1, StepInOrder
<1>3. QED BY <1>2, InitOrderly, TypeCorrect, PlanIsKept, PTL DEF Spec

\* When sessions follow each other, what the ledger shows of a run is what happens to
\* it: the step under execution while one is, and nothing left over when it is over.
THEOREM LedgerTellsTheTruth == Orderly => (Spec => []RowIsTruthful)
<1>1. SUFFICES ASSUME Orderly PROVE Spec => []RowIsTruthful
  OBVIOUS
<1>2. ASSUME OrderlyInv PROVE RowIsTruthful
  <2>1. ASSUME NEW w \in Workers, Executing(w), Open
        PROVE  row = copy[w] /\ InHand(row, at[w])
    <3>1. Knows(w) /\ Fits(pc[w], copy[w], at[w]) /\ pc[w] = "executing"
      BY <1>2, <2>1 DEF OrderlyInv, Executing
    <3>2. row = copy[w]
      BY <2>1, <3>1 DEF Knows, Acting
    <3>3. copy[w].status # "canceled"
      BY <2>1, <3>2, StatusFacts DEF Open
    <3>4. QED BY <3>1, <3>2, <3>3 DEF Fits
  <2>2. RowTellsExecution
    BY <2>1 DEF RowTellsExecution, Open, InHand
  <2>3. FinalRowsAreSettled
    BY <1>2, StatusFacts DEF OrderlyInv, Shape, FinalRowsAreSettled
  <2>4. QED BY <2>2, <2>3 DEF RowIsTruthful
<1>3. QED BY <1>1, <1>2, RunsAreOrderly, PTL

\* When sessions follow each other, an approval is never lost from an open run.
THEOREM ApprovalsAreKept == Orderly => (Spec => []GrantsKept)
<1>1. SUFFICES ASSUME Orderly PROVE Spec => []GrantsKept
  OBVIOUS
<1>2. OrderlyInv => GrantsKept
  BY DEF OrderlyInv, Open, Tells, GrantsKept
<1>3. QED BY <1>1, <1>2, RunsAreOrderly, PTL

-----------------------------------------------------------------------------
(* Nothing is done twice.                                                  *)

\* The steps that are done stay so while the run is open.
DoneStays == \A s \in Steps : row.step[s] = "succeeded" /\ row'.status \notin Terminal
                                => row'.step[s] = "succeeded"

LEMMA SavesKeepDone ==
  ASSUME OrderlyInv, NEW w \in Workers, pc[w] \in {"planning", "recording"},
         NEW run, NEW l, Persist(w, run, l),
         run.status \notin Terminal =>
           \A d \in Steps : copy[w].step[d] = "succeeded" => run.step[d] = "succeeded"
  PROVE  DoneStays
<1>1. CASE SaveRun(run) /\ run.status \notin Terminal
  <2>1. row' = run /\ Open
    BY <1>1, StatusFacts DEF SaveRun, SaveAccepts, Open
  <2>2. copy[w] = row
    BY <2>1 DEF OrderlyInv, Knows, Acting
  <2>3. QED BY <1>1, <2>1, <2>2 DEF DoneStays
<1>2. CASE UNCHANGED row \/ (row' = run /\ run.status \in Terminal)
  BY <1>2 DEF DoneStays
<1>3. QED BY <1>1, <1>2 DEF Persist, SaveRun

LEMMA StepsKeepDone ==
  ASSUME Orderly, TypeOK, OrderlyInv, [Next]_vars
  PROVE  DoneStays
<1>1. CASE UNCHANGED row
  BY <1>1 DEF DoneStays
<1>2. ASSUME NEW w \in Workers, ResumeLoop(w) \/ Conclude(w) \/ \E s \in Steps : Plan(w, s)
      PROVE  DoneStays
  <2> DEFINE run == copy[w]
  <2>1. pc[w] = "planning" /\ run \in Runs /\ Shape(run)
    BY <1>2, AtWork DEF ResumeLoop, Conclude, Plan
  <2>2. CASE ResumeLoop(w) /\ Persist(w, Requeued(run, run.cur), "planning")
    <3>1. run.status = "waiting"
      BY <2>2 DEF ResumeLoop, PausedLoop
    <3>2. KeepsDone(run, Requeued(run, run.cur))
      BY <2>1, <3>1, RequeuedShape
    <3>3. QED BY <2>1, <2>2, <3>2, SavesKeepDone DEF KeepsDone
  <2>3. CASE Persist(w, PartiallyDone(run), "leaving")
    <3>1. \A d \in Steps : run.step[d] = "succeeded" => PartiallyDone(run).step[d] = "succeeded"
      BY <2>1 DEF Runs, PartiallyDone
    <3>2. QED BY <2>1, <2>3, <3>1, SavesKeepDone
  <2>4. ASSUME NEW v \in BOOLEAN, Persist(w, Concluded(run, v), "leaving") PROVE DoneStays
    <3>1. Concluded(run, v).step = run.step
      BY <2>1 DEF Runs, Concluded
    <3>2. QED BY <2>1, <2>4, <3>1, SavesKeepDone
  <2>5. ASSUME NEW s \in Steps, Plan(w, s) PROVE DoneStays
    <3>1. run.step[s] = "pending"
      BY <2>5 DEF Plan, IsNext, Ready
    <3>2. PICK new, l :
            /\ Persist(w, new, l) \/ UNCHANGED row
            /\ \A d \in Steps : d # s => new.step[d] = run.step[d]
      <4>1. \A d \in Steps : d # s => /\ WithStep(run, s, "skipped").step[d] = run.step[d]
                                      /\ Blocked(run, s).step[d] = run.step[d]
                                      /\ Started(run, s).step[d] = run.step[d]
        BY <2>1 DEF Runs, WithStep, Blocked, Started
      <4>2. QED BY <2>5, <4>1 DEF Plan
    <3>3. \A d \in Steps : run.step[d] = "succeeded" => new.step[d] = "succeeded"
      BY <3>1, <3>2
    <3>4. QED BY <1>1, <2>1, <3>2, <3>3, SavesKeepDone
  <2>6. QED BY <1>1, <1>2, <2>2, <2>3, <2>4, <2>5 DEF ResumeLoop, Conclude
<1>3. ASSUME NEW w \in Workers, Record(w) PROVE DoneStays
  <2> DEFINE run == copy[w]
             s == at[w]
  <2>1. /\ pc[w] = "recording" /\ run \in Runs /\ s \in Steps
        /\ run.step[s] = "running"
    BY <1>3, AtWork DEF Record, InHand
  <2>2. PICK new, l :
          /\ Persist(w, new, l) \/ UNCHANGED row
          /\ \A d \in Steps : d # s => new.step[d] = run.step[d]
    <3>1. \A d \in Steps : d # s => /\ WithStep(run, s, "succeeded").step[d] = run.step[d]
                                    /\ WithStep(run, s, "skipped").step[d] = run.step[d]
                                    /\ Blocked(run, s).step[d] = run.step[d]
                                    /\ FailedAt(run, s).step[d] = run.step[d]
      BY <2>1 DEF Runs, WithStep, Blocked, FailedAt
    <3>2. QED BY <1>3, <3>1 DEF Record
  <2>3. \A d \in Steps : run.step[d] = "succeeded" => new.step[d] = "succeeded"
    BY <2>1, <2>2
  <2>4. QED BY <1>1, <2>1, <2>2, <2>3, SavesKeepDone
<1>4. ASSUME NEW w \in Workers, MarkSave(w) PROVE DoneStays
  <2>1. MarkedFailed(copy[w]).status = "failed"
    BY DEF MarkedFailed, TypeOK, Runs
  <2>2. QED BY <1>1, <1>4, <2>1, StatusFacts DEF MarkSave, SaveRun, DoneStays
<1>5. ASSUME NEW c \in Clerks, ClerkSave(c) PROVE DoneStays
  <2>1. SUFFICES ASSUME NEW run \in Rewrites(op[c], ccopy[c]), SaveRun(run), cpc[c] = "loaded",
                        run.status \notin Terminal
                 PROVE  DoneStays
    BY <1>1, <1>5 DEF ClerkSave, SaveRun, DoneStays
  <2>2. row' = run /\ Open
    BY <2>1, StatusFacts DEF SaveRun, SaveAccepts, Open
  <2>3. Decides(c) /\ ccopy[c] \in Runs /\ Shape(ccopy[c])
    BY DEF OrderlyInv, Decides, TypeOK
  <2>4. op[c] \in {"approve", "reject", "cancel", "recover", "abandon"}
    BY <2>1, <2>3 DEF Decides, TypeOK, Commands, Orderly
  <2>5. CASE op[c] = "approve"
    <3>1. PICK a \in Decidable(ccopy[c]) : run = ApprovedStep(ccopy[c], a)
      BY <2>1, <2>5 DEF Rewrites
    <3>2. ccopy[c] = row
      BY <2>1, <2>2, <2>3, <2>5 DEF Decides
    <3>3. QED BY <2>2, <2>3, <3>1, <3>2, DecidedShape, OrderlyPackage DEF DoneStays
  <2>6. CASE op[c] = "recover"
    <3>1. run = Recovered(ccopy[c])
      BY <2>1, <2>6 DEF Rewrites
    <3>2. ccopy[c] = row /\ row.status = "running"
      BY <2>1, <2>2, <2>3, <2>6 DEF Decides
    <3>3. QED BY <2>2, <2>3, <3>1, <3>2, RecoveredShape DEF DoneStays, KeepsDone
  <2>7. CASE op[c] = "reject"
    <3>1. PICK a \in Decidable(ccopy[c]) : run = RejectedStep(ccopy[c], a)
      BY <2>1, <2>7 DEF Rewrites
    <3>2. QED BY <2>1, <2>3, <3>1, DecidedShape, OrderlyPackage, StatusFacts
  <2>8. CASE op[c] \in {"cancel", "abandon"}
    BY <2>1, <2>3, <2>8, EndedShape, StatusFacts DEF Rewrites
  <2>9. QED BY <2>4, <2>5, <2>6, <2>7, <2>8
<1>6. CASE UNCHANGED vars
  BY <1>1, <1>6 DEF vars
<1>7. ASSUME NEW w \in Workers,
             \/ (\E f \in BOOLEAN : Load(w, f)) \/ Answer(w) \/ Enter(w) \/ Lease(w) \/ Top(w)
             \/ Executed(w) \/ Report(w) \/ Leave(w) \/ MarkLoad(w) \/ MarkClear(w) \/ Renew(w)
      PROVE  UNCHANGED row
  BY <1>7 DEF Load, Answer, Enter, Lease, Top, Executed, Report, Leave, MarkLoad, MarkClear,
              Renew, ledgerVars
<1>8. ASSUME NEW c \in Clerks,
             \/ \E o \in Commands : Request(c, o) \/ Select(c, o)
             \/ Reload(c) \/ ClerkClear(c) \/ ClerkDies(c)
      PROVE  UNCHANGED row
  BY <1>8 DEF Request, Select, Reload, ClerkClear, ClerkDies, ledgerVars
<1>9. CASE (\E p \in Procs : Crash(p)) \/ Expire \/ Age
  BY <1>1, <1>9 DEF Crash, Expire, Age
<1>10. QED
  <2>1. ASSUME NEW w \in Workers, WorkerStep(w) PROVE DoneStays
    BY <1>1, <1>2, <1>3, <1>4, <1>7, <2>1 DEF WorkerStep
  <2>2. ASSUME NEW c \in Clerks, ClerkStep(c) PROVE DoneStays
    BY <1>1, <1>5, <1>8, <2>2 DEF ClerkStep
  <2>3. QED BY <1>1, <1>6, <1>7, <1>8, <1>9, <2>1, <2>2 DEF Next

\* When sessions follow each other, a step that succeeded is not executed again while the
\* run goes on: no recovery, approval or resumption takes back what is done.
THEOREM NothingIsDoneTwice == Orderly => (Spec => NoRework)
<1>1. SUFFICES ASSUME Orderly PROVE Spec => NoRework
  OBVIOUS
<1>2. TypeOK /\ OrderlyInv /\ [Next]_vars =>
        [\A s \in Steps : row.step[s] = "succeeded" /\ row'.status \notin Terminal
                            => row'.step[s] = "succeeded"]_vars
  BY <1>1, StepsKeepDone DEF DoneStays
<1>3. QED BY <1>1, <1>2, RunsAreOrderly, TypeCorrect, PTL DEF Spec, NoRework

-----------------------------------------------------------------------------
(* Outputs.                                                                *)

\* The steps whose output is recorded, or lost for good, or in the hands of the thread
\* that is about to record it.
Told == outputs \cup lost \cup {at[v] : v \in {u \in Workers : pc[u] = "completing"}}

\* A run of which nothing succeeded but what is in T.
Accounted(run, T) == \A d \in Steps : run.step[d] = "succeeded" => d \in T

\* The inductive invariant.
AccountInv ==
  /\ Accounted(row, Told)
  /\ \A w \in Workers : Accounted(copy[w], Told)
  /\ \A c \in Clerks : Accounted(ccopy[c], Told)
  /\ \A w \in Workers : Executing(w) /\ copy[w].status = "running" =>
       Accounted(copy[w], outputs \cup lost)

\* A step of a thread leaves the others where they are.
LEMMA OneThreadMoves ==
  ASSUME TypeOK, NEW w \in Workers, WorkerStep(w) \/ \E f \in BOOLEAN : Load(w, f),
         NEW v \in Workers, v # w
  PROVE  pc'[v] = pc[v] /\ copy'[v] = copy[v] /\ at'[v] = at[v]
<1>1. \A r, l : Persist(w, r, l) => pc'[v] = pc[v] /\ copy'[v] = copy[v]
  BY DEF TypeOK, Persist, GiveUp, Goto
<1>2. Fail(w) \/ Rest(w) => pc'[v] = pc[v] /\ copy'[v] = copy[v] /\ at'[v] = at[v]
  BY DEF TypeOK, Fail, Rest, Goto
<1>3. QED
  BY <1>1, <1>2 DEF TypeOK, WorkerStep, Load, Answer, Enter, Lease, Top, ResumeLoop, Conclude,
     Plan, Executed, Record, Report, Leave, MarkLoad, MarkSave, MarkClear, GiveUp, Goto, ledgerVars

\* A thread leaves its place only by its own steps or by dying.
LEMMA CompletingEnds ==
  ASSUME TypeOK, Next, NEW v \in Workers, pc[v] = "completing"
  PROVE  \/ pc'[v] = "completing" /\ at'[v] = at[v]
         \/ at[v] \in outputs' \cup lost'
<1>1. ASSUME NEW w \in Workers, w # v, WorkerStep(w) \/ \E f \in BOOLEAN : Load(w, f)
      PROVE  pc'[v] = pc[v] /\ at'[v] = at[v]
  BY <1>1, OneThreadMoves
<1>2. ASSUME WorkerStep(v) \/ \E f \in BOOLEAN : Load(v, f)
      PROVE  at[v] \in outputs' \cup lost'
  <2>1. Report(v)
    BY <1>2 DEF WorkerStep, Load, Answer, Enter, Lease, Top, ResumeLoop, Conclude, Plan,
       Executed, Record, Leave, MarkLoad, MarkSave, MarkClear
  <2>2. QED BY <2>1 DEF Report
<1>3. ASSUME NEW p \in Procs, Crash(p)
      PROVE  \/ pc'[v] = "completing" /\ at'[v] = at[v]
             \/ at[v] \in outputs' \cup lost'
  BY <1>3 DEF Crash, TypeOK
<1>4. ASSUME \/ \E c \in Clerks : \/ ClerkStep(c) \/ ClerkDies(c)
                                  \/ \E o \in Commands : Request(c, o) \/ Select(c, o)
             \/ \E w \in Workers : Renew(w)
             \/ Expire \/ Age
      PROVE  UNCHANGED <<pc, at>>
  BY <1>4 DEF ClerkStep, Reload, ClerkSave, ClerkClear, ClerkDies, Request, Select, Renew,
     Expire, Age, workerVars
<1>5. QED BY <1>1, <1>2, <1>3, <1>4 DEF Next

LEMMA LossesStay ==
  ASSUME [Next]_vars
  PROVE  outputs \cup lost \subseteq outputs' \cup lost'
<1>1. CASE UNCHANGED vars
  BY <1>1 DEF vars, countVars, eventVars
<1>2. ASSUME NEW w \in Workers, WorkerStep(w) \/ Renew(w) \/ \E f \in BOOLEAN : Load(w, f)
      PROVE  outputs \cup lost \subseteq outputs' \cup lost'
  BY <1>2 DEF WorkerStep, Load, Answer, Enter, Lease, Top, ResumeLoop, Conclude, Plan, Executed,
     Record, Report, Leave, MarkLoad, MarkSave, MarkClear, Renew, ledgerVars, countVars, eventVars
<1>3. ASSUME NEW c \in Clerks,
             \/ ClerkStep(c) \/ ClerkDies(c)
             \/ \E o \in Commands : Request(c, o) \/ Select(c, o)
      PROVE  outputs \cup lost \subseteq outputs' \cup lost'
  BY <1>3 DEF ClerkStep, Reload, ClerkSave, ClerkClear, ClerkDies, Request, Select, ledgerVars,
     countVars, eventVars
<1>4. CASE (\E p \in Procs : Crash(p)) \/ Expire \/ Age
  BY <1>4 DEF Crash, Expire, Age, countVars, eventVars
<1>5. QED BY <1>1, <1>2, <1>3, <1>4 DEF Next

LEMMA ToldGrows ==
  ASSUME TypeOK, [Next]_vars
  PROVE  Told \subseteq Told'
<1>1. CASE UNCHANGED vars
  BY <1>1 DEF vars, countVars, eventVars, Told
<1>2. CASE Next
  <2>1. \A v \in Workers : pc[v] = "completing" =>
          \/ pc'[v] = "completing" /\ at'[v] = at[v]
          \/ at[v] \in outputs' \cup lost'
    BY <1>2, CompletingEnds
  <2>2. QED BY <2>1, LossesStay DEF Told
<1>3. QED BY <1>1, <1>2

\* No rewriting makes a step succeed, except that of its success.
LEMMA RewritingsAccount ==
  ASSUME NEW T, NEW run \in Runs, Accounted(run, T)
  PROVE  /\ \A s \in Steps :
              /\ \A st \in StepStatus \ {"succeeded"} : Accounted(WithStep(run, s, st), T)
              /\ Accounted(Started(run, s), T) /\ Accounted(Blocked(run, s), T)
              /\ Accounted(FailedAt(run, s), T) /\ Accounted(Requeued(run, s), T)
              /\ s \in T => Accounted(WithStep(run, s, "succeeded"), T)
         /\ \A v \in BOOLEAN : Accounted(Concluded(run, v), T)
         /\ Accounted(PartiallyDone(run), T) /\ Accounted(Canceled(run), T)
         /\ Accounted(Recovered(run), T) /\ Accounted(MarkedFailed(run), T)
         /\ Accounted(Abandoned(run), T)
<1> USE DEF Accounted, Runs
<1>1. ASSUME NEW s \in Steps
      PROVE  /\ \A st \in StepStatus \ {"succeeded"} : Accounted(WithStep(run, s, st), T)
             /\ Accounted(Started(run, s), T) /\ Accounted(Blocked(run, s), T)
             /\ Accounted(FailedAt(run, s), T) /\ Accounted(Requeued(run, s), T)
             /\ s \in T => Accounted(WithStep(run, s, "succeeded"), T)
  BY DEF WithStep, Started, Blocked, FailedAt, Requeued
<1>2. \A v \in BOOLEAN : Accounted(Concluded(run, v), T)
  BY DEF Concluded
<1>3. Accounted(PartiallyDone(run), T) /\ Accounted(Canceled(run), T)
  BY DEF PartiallyDone, Canceled
<1>4. /\ Accounted(Recovered(run), T) /\ Accounted(MarkedFailed(run), T)
      /\ Accounted(Abandoned(run), T)
  BY DEF Recovered, MarkedFailed, Abandoned
<1>5. QED BY <1>1, <1>2, <1>3, <1>4

LEMMA CommandsAccount ==
  ASSUME NEW T, NEW run \in Runs, Accounted(run, T), NEW o \in Commands,
         NEW new \in Rewrites(o, run)
  PROVE  Accounted(new, T)
<1>1. ASSUME NEW a \in Decidable(run)
      PROVE  Accounted(ApprovedStep(run, a), T) /\ Accounted(RejectedStep(run, a), T)
  <2>1. run.cur \in Steps
    BY DecisionOperators
  <2>2. QED BY <2>1 DEF Accounted, Runs, ApprovedStep, RejectedStep, Requeued, WithStep
<1>2. QED BY <1>1, RewritingsAccount DEF Rewrites, Commands

\* What thread w saves or takes over is accounted for.
LEMMA PersistAccounts ==
  ASSUME TypeOK, AccountInv, Told \subseteq Told', NEW w \in Workers, NEW run, NEW l,
         Persist(w, run, l), Accounted(run, Told')
  PROVE  Accounted(row', Told') /\ \A v \in Workers : Accounted(copy'[v], Told')
<1>1. /\ row' \in {row, run}
      /\ \A v \in Workers : copy'[v] \in {copy[v], row, run}
  BY DEF Persist, SaveRun, TypeOK
<1>2. Accounted(row, Told') /\ \A v \in Workers : Accounted(copy[v], Told')
  BY DEF AccountInv, Accounted
<1>3. QED BY <1>1, <1>2

LEMMA ThreadAccounts ==
  ASSUME TypeOK, AccountInv, Told \subseteq Told', NEW w \in Workers,
         WorkerStep(w) \/ Renew(w) \/ \E f \in BOOLEAN : Load(w, f)
  PROVE  Accounted(row', Told') /\ \A v \in Workers : Accounted(copy'[v], Told')
<1>1. /\ Accounted(row, Told') /\ \A v \in Workers : Accounted(copy[v], Told')
      /\ copy[w] \in Runs /\ at[w] \in Steps /\ Accounted(NewRun, Told')
  BY DEF AccountInv, Accounted, TypeOK, NewRun
<1>2. ASSUME UNCHANGED row, \A v \in Workers : copy'[v] \in {copy[v], row, NewRun}
      PROVE  Accounted(row', Told') /\ \A v \in Workers : Accounted(copy'[v], Told')
  BY <1>1, <1>2
<1>3. Rest(w) \/ Fail(w) => \A v \in Workers : copy'[v] \in {copy[v], row, NewRun}
  BY DEF Rest, Fail, TypeOK
<1>4. ASSUME \/ \E f \in BOOLEAN : Load(w, f)
             \/ Answer(w) \/ Enter(w) \/ Lease(w) \/ Top(w) \/ Executed(w) \/ Report(w)
             \/ Leave(w) \/ MarkLoad(w) \/ MarkClear(w) \/ Renew(w)
      PROVE  UNCHANGED row /\ \A v \in Workers : copy'[v] \in {copy[v], row, NewRun}
  BY <1>3, <1>4 DEF Load, Answer, Enter, Lease, Top, Executed, Report, Leave, MarkLoad, MarkClear,
     Renew, ledgerVars, workerVars, TypeOK
<1>5. CASE ResumeLoop(w)
  <2>1. copy[w].cur \in Steps
    BY <1>5 DEF ResumeLoop, PausedLoop
  <2>2. CASE UNCHANGED <<row, copy>>
    BY <1>2, <2>2
  <2>3. CASE Persist(w, Requeued(copy[w], copy[w].cur), "planning")
    BY <1>1, <2>1, <2>3, RewritingsAccount, PersistAccounts
  <2>4. QED BY <1>5, <2>2, <2>3 DEF ResumeLoop
<1>6. CASE Conclude(w)
  <2>1. PICK run : Persist(w, run, "leaving") /\ Accounted(run, Told')
    BY <1>1, <1>6, RewritingsAccount DEF Conclude
  <2>2. QED BY <2>1, PersistAccounts
<1>7. ASSUME NEW s \in Steps, Plan(w, s)
      PROVE  Accounted(row', Told') /\ \A v \in Workers : Accounted(copy'[v], Told')
  <2>1. CASE UNCHANGED <<row, copy>>
    BY <1>2, <2>1
  <2>2. CASE \E run, l : Persist(w, run, l) /\ Accounted(run, Told')
    BY <2>2, PersistAccounts
  <2>3. /\ Accounted(WithStep(copy[w], s, "skipped"), Told')
        /\ Accounted(Started(copy[w], s), Told') /\ Accounted(Blocked(copy[w], s), Told')
    BY <1>1, RewritingsAccount DEF StepStatus
  <2>4. QED BY <1>7, <2>1, <2>2, <2>3 DEF Plan
<1>8. CASE Record(w)
  <2>1. CASE UNCHANGED <<row, copy>>
    BY <1>2, <2>1
  <2>2. CASE Persist(w, WithStep(copy[w], at[w], "succeeded"), "completing")
    <3>1. \/ at[w] \in Told'
          \/ UNCHANGED row /\ copy' = [copy EXCEPT ![w] = row]
          \/ UNCHANGED <<row, copy>>
      <4>1. CASE SaveRun(WithStep(copy[w], at[w], "succeeded"))
                 /\ copy' = [copy EXCEPT ![w] = WithStep(copy[w], at[w], "succeeded")]
        <5>1. copy'[w].step[at[w]] = "succeeded"
          BY <1>1, <4>1 DEF WithStep, TypeOK, Runs
        <5>2. CASE Goto(w, "completing")
          <6>1. pc'[w] = "completing" /\ at'[w] = at[w]
            BY <1>8, <5>2 DEF Record, Goto, TypeOK
          <6>2. at[w] \in Told'
            BY <6>1 DEF Told
          <6>3. QED BY <6>2
        <5>3. CASE GiveUp(w)
          <6>1. pc'[w] \in {"leaving", "erring"}
            BY <5>3 DEF GiveUp, Goto, TypeOK
          <6>2. at[w] \in lost'
            BY <1>8, <5>1, <6>1 DEF Record, Silenced
          <6>3. at[w] \in Told'
            BY <6>2 DEF Told
          <6>4. QED BY <6>3
        <5>4. CASE ~Goto(w, "completing") /\ ~GiveUp(w)
          BY <2>2, <5>4 DEF Persist
        <5>5. QED BY <5>2, <5>3, <5>4
      <4>2. QED BY <2>2, <4>1 DEF Persist
    <3>2. CASE at[w] \in Told'
      BY <1>1, <2>2, <3>2, RewritingsAccount, PersistAccounts
    <3>3. CASE \/ UNCHANGED row /\ copy' = [copy EXCEPT ![w] = row]
               \/ UNCHANGED <<row, copy>>
      BY <1>2, <3>3 DEF TypeOK
    <3>4. QED BY <3>1, <3>2, <3>3
  <2>3. CASE \E run, l : Persist(w, run, l) /\ Accounted(run, Told')
    BY <2>3, PersistAccounts
  <2>4. /\ Accounted(WithStep(copy[w], at[w], "skipped"), Told')
        /\ Accounted(FailedAt(copy[w], at[w]), Told') /\ Accounted(Blocked(copy[w], at[w]), Told')
    BY <1>1, RewritingsAccount DEF StepStatus
  <2>5. QED BY <1>8, <2>1, <2>2, <2>3, <2>4 DEF Record
<1>9. CASE MarkSave(w)
  <2>1. Accounted(MarkedFailed(copy[w]), Told')
    BY <1>1, RewritingsAccount
  <2>2. row' \in {row, MarkedFailed(copy[w])} /\ \A v \in Workers : copy'[v] \in {copy[v], NewRun}
    BY <1>9 DEF MarkSave, SaveRun, Rest, TypeOK
  <2>3. QED BY <1>1, <2>1, <2>2
<1>10. QED
  BY <1>2, <1>4, <1>5, <1>6, <1>7, <1>8, <1>9 DEF WorkerStep

\* When a thread starts a step, nobody has an output in hand.
LEMMA ExecutionAccounts ==
  ASSUME LeaseDiscipline, TypeOK, LeaseInv, AccountInv, Next, NEW w \in Workers,
         pc'[w] = "executing", copy'[w].status = "running"
  PROVE  Accounted(copy'[w], outputs' \cup lost')
<1>1. CASE pc[w] = "executing" /\ copy'[w] = copy[w]
  BY <1>1, LossesStay DEF AccountInv, Accounted, Executing
<1>2. ASSUME NEW s \in Steps, Plan(w, s), Persist(w, Started(copy[w], s), "executing")
      PROVE  Accounted(copy'[w], outputs' \cup lost')
  <2>1. copy[w] \in Runs /\ Started(copy[w], s).status = "running"
    BY DEF TypeOK, Runs, Started, WithStep
  <2>2. SaveAccepts(Started(copy[w], s)) /\ copy'[w] = Started(copy[w], s)
    <3>1. ~GiveUp(w)
      BY DEF GiveUp, Goto, TypeOK
    <3>2. row.status = "canceled" => ~(copy' = [copy EXCEPT ![w] = row])
      BY DEF TypeOK
    <3>3. QED BY <1>2, <3>1, <3>2 DEF Persist, SaveRun, TypeOK
  <2>3. row.status # "failed"
    BY <2>1, <2>2 DEF SaveAccepts, Terminal
  <2>4. \A v \in Workers : pc[v] # "completing"
    <3>1. pc[w] = "planning"
      BY <1>2 DEF Plan
    <3>2. QED BY <2>3, <3>1 DEF LeaseInv, LeaseDiscipline, InSession
  <2>5. Told = outputs \cup lost
    BY <2>4 DEF Told
  <2>6. Accounted(copy[w], outputs \cup lost)
    BY <2>5 DEF AccountInv
  <2>7. Accounted(Started(copy[w], s), outputs \cup lost)
    BY <2>1, <2>6, RewritingsAccount
  <2>8. QED BY <2>2, <2>7, LossesStay DEF Accounted
<1>3. QED
  <2>1. ASSUME NEW u \in Workers, u # w, WorkerStep(u) \/ \E f \in BOOLEAN : Load(u, f)
        PROVE  pc'[w] = pc[w] /\ copy'[w] = copy[w]
    BY <2>1, OneThreadMoves
  <2>2. ASSUME WorkerStep(w) \/ \E f \in BOOLEAN : Load(w, f)
        PROVE  \E s \in Steps : Plan(w, s) /\ Persist(w, Started(copy[w], s), "executing")
    <3>1. \A r, l : Persist(w, r, l) => l = "executing"
      BY DEF TypeOK, Persist, GiveUp, Goto
    <3>2. ~Fail(w) /\ ~Rest(w) /\ ~GiveUp(w)
      BY DEF TypeOK, Fail, Rest, GiveUp, Goto
    <3>3. \A l : Goto(w, l) => l = "executing"
      BY DEF TypeOK, Goto
    <3>4. \E s \in Steps : Plan(w, s)
      BY <2>2, <3>1, <3>2, <3>3 DEF WorkerStep, Load, Answer, Enter, Lease, Top, ResumeLoop,
         Conclude, Executed, Record, Report, Leave, MarkLoad, MarkSave, MarkClear
    <3>5. QED BY <3>1, <3>2, <3>4 DEF Plan
  <2>3. ASSUME NEW p \in Procs, Crash(p) PROVE pc[w] = "executing" /\ copy'[w] = copy[w]
    BY <2>3 DEF Crash, TypeOK
  <2>4. ASSUME \/ \E c \in Clerks : \/ ClerkStep(c) \/ ClerkDies(c)
                                    \/ \E o \in Commands : Request(c, o) \/ Select(c, o)
               \/ \E u \in Workers : Renew(u)
               \/ Expire \/ Age
        PROVE  UNCHANGED <<pc, copy>>
    BY <2>4 DEF ClerkStep, Reload, ClerkSave, ClerkClear, ClerkDies, Request, Select, Renew,
       Expire, Age, workerVars
  <2>5. QED BY <1>1, <1>2, <2>1, <2>2, <2>3, <2>4 DEF Next

LEMMA AccountsAreKept ==
  ASSUME LeaseDiscipline, TypeOK, LeaseInv, AccountInv, [Next]_vars
  PROVE  AccountInv'
<1>1. Told \subseteq Told'
  BY ToldGrows
<1>2. CASE UNCHANGED vars
  BY <1>2 DEF vars, countVars, eventVars, AccountInv, Told, Executing
<1>3. CASE Next
  <2>1. \A w \in Workers : Executing(w)' /\ copy'[w].status = "running" =>
          Accounted(copy'[w], outputs' \cup lost')
    BY <1>3, ExecutionAccounts DEF Executing
  <2>2. /\ Accounted(row, Told') /\ \A v \in Workers : Accounted(copy[v], Told')
        /\ \A c \in Clerks : Accounted(ccopy[c], Told')
        /\ Accounted(NewRun, Told')
    BY <1>1 DEF AccountInv, Accounted, NewRun
  <2>3. ASSUME NEW w \in Workers, WorkerStep(w) \/ Renew(w) \/ \E f \in BOOLEAN : Load(w, f)
        PROVE  AccountInv'
    <3>1. UNCHANGED ccopy
      BY <2>3 DEF WorkerStep, Load, Answer, Enter, Lease, Top, ResumeLoop, Conclude, Plan,
         Executed, Record, Report, Leave, MarkLoad, MarkSave, MarkClear, Renew, clerkVars
    <3>2. QED BY <1>1, <2>1, <2>2, <2>3, <3>1, ThreadAccounts DEF AccountInv
  <2>4. ASSUME NEW c \in Clerks,
               \/ ClerkStep(c) \/ ClerkDies(c)
               \/ \E o \in Commands : Request(c, o) \/ Select(c, o)
        PROVE  AccountInv'
    <3>1. UNCHANGED copy
      BY <2>4 DEF ClerkStep, Reload, ClerkSave, ClerkClear, ClerkDies, Request, Select, workerVars
    <3>2. \A d \in Clerks : ccopy'[d] \in {ccopy[d], row, NewRun}
      BY <2>4 DEF ClerkStep, Reload, ClerkSave, ClerkClear, ClerkDies, ClerkRest, Request, Select,
         TypeOK
    <3>3. Accounted(row', Told')
      <4>1. CASE UNCHANGED row
        BY <2>2, <4>1
      <4>2. ASSUME NEW run \in Rewrites(op[c], ccopy[c]), row' = run
            PROVE  Accounted(row', Told')
        BY <2>2, <4>2, CommandsAccount DEF TypeOK
      <4>3. QED BY <2>4, <4>1, <4>2 DEF ClerkStep, Reload, ClerkSave, ClerkClear, ClerkDies,
                Request, Select, SaveRun, ledgerVars
    <3>4. QED BY <2>1, <2>2, <3>1, <3>2, <3>3 DEF AccountInv
  <2>5. CASE (\E p \in Procs : Crash(p)) \/ Expire \/ Age
    <3>1. UNCHANGED <<row, ccopy>> /\ \A v \in Workers : copy'[v] \in {copy[v], NewRun}
      BY <2>5 DEF Crash, Expire, Age, clerkVars, workerVars, TypeOK
    <3>2. QED BY <2>1, <2>2, <3>1 DEF AccountInv
  <2>6. QED BY <1>3, <2>3, <2>4, <2>5 DEF Next
<1>4. QED BY <1>2, <1>3

\* When threads have processes of their own and renew their leases in time, a step finds
\* the outputs of the steps it depends on, whatever runs are resumed, unless the event
\* that records the output was lost for good: its process died, or appending it failed.
THEOREM OutputsAreKnown ==
  ASSUME LeaseDiscipline PROVE Spec => []OutputsKnown
<1>1. Init => AccountInv
  <2>1. \A T : Accounted(NewRun, T)
    BY DEF Accounted, NewRun
  <2>2. ASSUME Init, NEW w \in Workers PROVE ~Executing(w)
    BY <2>2 DEF Init, Executing
  <2>3. QED BY <2>1, <2>2 DEF Init, LedgerInit, AccountInv
<1>2. TypeOK /\ LeaseInv /\ AccountInv /\ [Next]_vars => AccountInv'
  BY AccountsAreKept
<1>3. TypeOK /\ AccountInv => OutputsKnown
  <2>1. SUFFICES ASSUME TypeOK, AccountInv PROVE OutputsKnown
    OBVIOUS
  <2>2. \A w \in Workers : Deps[at[w]] \subseteq Steps
    BY <2>1 DEF TypeOK
  <2>3. QED BY <2>1, <2>2 DEF AccountInv, Accounted, OutputsKnown
<1>4. QED BY <1>1, <1>2, <1>3, TypeCorrect, LeaseIsKept, PTL DEF Spec

-----------------------------------------------------------------------------
(* What a waiting run waits for.                                           *)

\* The steps that have asked their question, whether it is open or answered, that are
\* about to ask it, or whose question was lost.
Asked == questions \cup resolved \cup lost
           \cup {at[v] : v \in {u \in Workers : pc[u] = "asking"}}

\* A run that waits for something that can be given, if it names the step it waits at.
Awaits(run, Q) ==
  /\ run.status = "waiting" /\ run.cur # NoStep =>
       /\ run.step[run.cur] = "waiting"
       /\ \/ run.cur \in Approval \cap Active /\ run.appr[run.cur] = "pending"
          \/ run.cur \in Feedback \cap Q
  /\ run.status \notin Terminal =>
       \A s \in Approval \cap Active : run.appr[s] \in {"pending", "approved"}

\* The part of the inductive invariant that holds whatever runs are resumed.
WaitInv ==
  /\ Awaits(row, Asked)
  /\ \A w \in Workers :
       /\ Awaits(copy[w], Asked)
       /\ copy[w].status \in Terminal => row.status = copy[w].status
       /\ pc[w] \in {"executing", "recording"} => copy[w].status \in {"running", "canceled"}
       /\ pc[w] = "answering" => PausedLoop(copy[w])
  /\ \A c \in Clerks :
       /\ Awaits(ccopy[c], Asked)
       /\ ccopy[c].status \in Terminal => row.status = ccopy[c].status
       /\ cpc[c] = "loaded" /\ op[c] \in {"recover", "force"} => ccopy[c].status = "running"

\* A step that has asked stays so.
LEMMA AskingEnds ==
  ASSUME TypeOK, Next, NEW v \in Workers, pc[v] = "asking"
  PROVE  \/ pc'[v] = "asking" /\ at'[v] = at[v]
         \/ at[v] \in questions' \cup lost'
<1>1. ASSUME NEW w \in Workers, w # v, WorkerStep(w) \/ \E f \in BOOLEAN : Load(w, f)
      PROVE  pc'[v] = pc[v] /\ at'[v] = at[v]
  BY <1>1, OneThreadMoves
<1>2. ASSUME WorkerStep(v) \/ \E f \in BOOLEAN : Load(v, f)
      PROVE  at[v] \in questions' \cup lost'
  <2>1. Report(v)
    BY <1>2 DEF WorkerStep, Load, Answer, Enter, Lease, Top, ResumeLoop, Conclude, Plan,
       Executed, Record, Leave, MarkLoad, MarkSave, MarkClear
  <2>2. QED BY <2>1 DEF Report
<1>3. ASSUME NEW p \in Procs, Crash(p)
      PROVE  \/ pc'[v] = "asking" /\ at'[v] = at[v]
             \/ at[v] \in questions' \cup lost'
  BY <1>3 DEF Crash, TypeOK
<1>4. ASSUME \/ \E c \in Clerks : \/ ClerkStep(c) \/ ClerkDies(c)
                                  \/ \E o \in Commands : Request(c, o) \/ Select(c, o)
             \/ \E w \in Workers : Renew(w)
             \/ Expire \/ Age
      PROVE  UNCHANGED <<pc, at>>
  BY <1>4 DEF ClerkStep, Reload, ClerkSave, ClerkClear, ClerkDies, Request, Select, Renew,
     Expire, Age, workerVars
<1>5. QED BY <1>1, <1>2, <1>3, <1>4 DEF Next

LEMMA QuestionsStay ==
  ASSUME [Next]_vars
  PROVE  questions \cup resolved \cup lost \subseteq questions' \cup resolved' \cup lost'
<1>1. CASE UNCHANGED vars
  BY <1>1 DEF vars, countVars, eventVars
<1>2. ASSUME NEW w \in Workers, WorkerStep(w) \/ Renew(w) \/ \E f \in BOOLEAN : Load(w, f)
      PROVE  questions \cup resolved \cup lost \subseteq questions' \cup resolved' \cup lost'
  <2>1. CASE Answer(w)
    BY <2>1 DEF Answer
  <2>2. CASE Report(w)
    BY <2>2 DEF Report, eventVars
  <2>3. CASE ~Answer(w) /\ ~Report(w)
    BY <1>2, <2>3 DEF WorkerStep, Load, Enter, Lease, Top, ResumeLoop, Conclude, Plan, Executed,
       Record, Leave, MarkLoad, MarkSave, MarkClear, Renew, ledgerVars, countVars, eventVars
  <2>4. QED BY <2>1, <2>2, <2>3
<1>3. ASSUME NEW c \in Clerks,
             \/ ClerkStep(c) \/ ClerkDies(c)
             \/ \E o \in Commands : Request(c, o) \/ Select(c, o)
      PROVE  questions \cup resolved \cup lost \subseteq questions' \cup resolved' \cup lost'
  BY <1>3 DEF ClerkStep, Reload, ClerkSave, ClerkClear, ClerkDies, Request, Select, ledgerVars,
     countVars, eventVars
<1>4. CASE (\E p \in Procs : Crash(p)) \/ Expire \/ Age
  BY <1>4 DEF Crash, Expire, Age, countVars, eventVars
<1>5. QED BY <1>1, <1>2, <1>3, <1>4 DEF Next

LEMMA AskedGrows ==
  ASSUME TypeOK, [Next]_vars
  PROVE  Asked \subseteq Asked'
<1>1. CASE UNCHANGED vars
  BY <1>1 DEF vars, countVars, eventVars, Asked
<1>2. CASE Next
  <2>1. \A v \in Workers : pc[v] = "asking" =>
          \/ pc'[v] = "asking" /\ at'[v] = at[v]
          \/ at[v] \in questions' \cup lost'
    BY <1>2, AskingEnds
  <2>2. QED BY <2>1, QuestionsStay DEF Asked
<1>3. QED BY <1>1, <1>2

\* The rewritings of a thread, seen from the run they start from.
LEMMA WaitingRewritings ==
  ASSUME NEW Q, NEW run \in Runs, Awaits(run, Q)
  PROVE  /\ \A s \in Steps, st \in StepStatus :
              run.step[s] = "pending" \/ run.status # "waiting" => Awaits(WithStep(run, s, st), Q)
         /\ \A s \in Steps : Awaits(FailedAt(run, s), Q)
         /\ \A s \in Steps : run.status \notin Terminal =>
              /\ Awaits(Started(run, s), Q) /\ Awaits(Requeued(run, s), Q)
              /\ s \in Feedback \cap Q => Awaits(Blocked(run, s), Q)
              /\ s \in Approval \cap Active /\ run.appr[s] = "pending" => Awaits(Blocked(run, s), Q)
         /\ \A v \in BOOLEAN : run.status \notin Terminal => Awaits(Concluded(run, v), Q)
         /\ Awaits(PartiallyDone(run), Q) /\ Awaits(Canceled(run), Q)
         /\ Awaits(MarkedFailed(run), Q) /\ Awaits(Abandoned(run), Q)
         /\ run.status \notin Terminal => Awaits(Recovered(run), Q)
<1> USE DEF Awaits, Runs
<1>1. \A s \in Steps, st \in StepStatus :
        run.step[s] = "pending" \/ run.status # "waiting" => Awaits(WithStep(run, s, st), Q)
  BY DEF WithStep
<1>2. \A s \in Steps : Awaits(FailedAt(run, s), Q)
  BY StatusFacts DEF FailedAt, WithStep
<1>3. ASSUME NEW s \in Steps, run.status \notin Terminal
      PROVE  /\ Awaits(Started(run, s), Q) /\ Awaits(Requeued(run, s), Q)
             /\ s \in Feedback \cap Q => Awaits(Blocked(run, s), Q)
             /\ s \in Approval \cap Active /\ run.appr[s] = "pending" => Awaits(Blocked(run, s), Q)
  BY <1>3 DEF Started, Requeued, Blocked, WithStep
<1>4. \A v \in BOOLEAN : run.status \notin Terminal => Awaits(Concluded(run, v), Q)
  BY DEF Concluded
<1>5. /\ Awaits(PartiallyDone(run), Q) /\ Awaits(Canceled(run), Q)
      /\ Awaits(MarkedFailed(run), Q) /\ Awaits(Abandoned(run), Q)
  BY StatusFacts DEF PartiallyDone, Canceled, MarkedFailed, Abandoned
<1>6. run.status \notin Terminal => Awaits(Recovered(run), Q)
  BY DEF Recovered
<1>7. QED BY <1>1, <1>2, <1>3, <1>4, <1>5, <1>6

LEMMA NewRunWaits == \A Q : Awaits(NewRun, Q) /\ NewRun.status \notin Terminal
<1>1. NewRun.status = "queued"
  BY DEF NewRun
<1>2. \A s \in Steps : s \in Approval \cap Active => NewRun.appr[s] = "pending"
  BY DEF NewRun
<1>3. Approval \cap Active \subseteq Steps
  BY LedgerAssumption DEF Steps
<1>. HIDE DEF NewRun
<1>4. QED BY <1>1, <1>2, <1>3 DEF Awaits, Terminal

\* How the invariant follows when every copy is an old one, the stored run, or a new run.
LEMMA WaitsFollow ==
  ASSUME TypeOK, WaitInv, Asked \subseteq Asked',
         row' = row \/ (SaveAccepts(row') /\ Awaits(row', Asked')),
         \A v \in Workers :
           /\ copy'[v] \in {copy[v], row', NewRun}
           /\ pc'[v] \in {"executing", "recording"} => copy'[v].status \in {"running", "canceled"}
           /\ pc'[v] = "answering" => PausedLoop(copy'[v]),
         \A c \in Clerks :
           /\ ccopy'[c] \in {ccopy[c], row', NewRun}
           /\ cpc'[c] = "loaded" /\ op'[c] \in {"recover", "force"} => ccopy'[c].status = "running"
  PROVE  WaitInv'
<1>1. /\ Awaits(row, Asked')
      /\ \A v \in Workers : Awaits(copy[v], Asked')
      /\ \A c \in Clerks : Awaits(ccopy[c], Asked')
  BY DEF WaitInv, Awaits
<1>2. Awaits(NewRun, Asked') /\ NewRun.status \notin Terminal
  BY NewRunWaits
<1>3. Awaits(row', Asked')
  BY <1>1
<1>4. row.status \in Terminal => row'.status = row.status
  BY DEF SaveAccepts
<1>5. ASSUME NEW v \in Workers
      PROVE  /\ Awaits(copy'[v], Asked')
             /\ copy'[v].status \in Terminal => row'.status = copy'[v].status
  BY <1>1, <1>2, <1>3, <1>4 DEF WaitInv
<1>6. ASSUME NEW c \in Clerks
      PROVE  /\ Awaits(ccopy'[c], Asked')
             /\ ccopy'[c].status \in Terminal => row'.status = ccopy'[c].status
  BY <1>1, <1>2, <1>3, <1>4 DEF WaitInv
<1>7. QED BY <1>3, <1>5, <1>6 DEF WaitInv, PausedLoop

\* persist_run
LEMMA PersistWaits ==
  ASSUME TypeOK, WaitInv, NEW w \in Workers, NEW run \in Runs,
         NEW l \in {"top", "planning", "leaving", "executing", "completing", "asking"},
         Persist(w, run, l),
         SaveAccepts(run) /\ copy[w].status \notin Terminal => Awaits(run, Asked'),
         l = "executing" => run.status = "running"
  PROVE  /\ row' = row \/ (SaveAccepts(row') /\ Awaits(row', Asked'))
         /\ copy'[w] \in {copy[w], row', NewRun}
         /\ pc'[w] \in {"executing", "recording"} => copy'[w].status \in {"running", "canceled"}
         /\ pc'[w] # "answering"
<1>1. pc'[w] \in {l, "leaving", "erring"}
  BY DEF Persist, GiveUp, Goto, TypeOK
<1>2. CASE SaveRun(run) /\ copy' = [copy EXCEPT ![w] = run]
  <2>1. row' = run /\ SaveAccepts(run) /\ copy'[w] = run
    BY <1>2 DEF SaveRun, TypeOK
  <2>2. copy[w].status \in Terminal => run.status \in Terminal
    BY <2>1 DEF SaveAccepts, WaitInv
  <2>3. Awaits(run, Asked')
    BY <2>1, <2>2, StatusFacts DEF Awaits
  <2>4. QED BY <1>1, <2>1, <2>3
<1>3. CASE row.status = "canceled" /\ copy' = [copy EXCEPT ![w] = row] /\ UNCHANGED row
  BY <1>1, <1>3 DEF TypeOK
<1>4. CASE GiveUp(w) /\ UNCHANGED <<row, copy>>
  <2>1. pc'[w] \in {"leaving", "erring"}
    BY <1>4 DEF GiveUp, Goto, TypeOK
  <2>2. QED BY <1>4, <2>1
<1>5. QED BY <1>2, <1>3, <1>4 DEF Persist

\* The steps of a thread that do not rewrite the run.
LEMMA QuietWaits ==
  ASSUME TypeOK, WaitInv, NEW w \in Workers,
         \/ \E f \in BOOLEAN : Load(w, f)
         \/ Answer(w) \/ Enter(w) \/ Lease(w) \/ Top(w) \/ Executed(w) \/ Report(w)
         \/ Leave(w) \/ MarkLoad(w) \/ MarkClear(w)
  PROVE  /\ row' = row
         /\ copy'[w] \in {copy[w], row, NewRun}
         /\ pc'[w] \in {"executing", "recording"} => copy'[w].status \in {"running", "canceled"}
         /\ pc'[w] = "answering" => PausedLoop(copy'[w])
<1>1. Rest(w) \/ Fail(w) => /\ copy'[w] \in {copy[w], NewRun}
                            /\ pc'[w] \in {"idle", "marking"}
  BY DEF Rest, Fail, Goto, TypeOK
<1>2. ASSUME NEW f \in BOOLEAN, Load(w, f)
      PROVE  /\ row' = row /\ copy'[w] = row /\ pc'[w] \in {"answering", "entering"}
             /\ pc'[w] = "answering" => PausedLoop(row)
  BY <1>2 DEF Load, Goto, ledgerVars, TypeOK
<1>3. CASE Answer(w) \/ Enter(w) \/ Lease(w) \/ Top(w) \/ Leave(w) \/ MarkLoad(w) \/ MarkClear(w)
  <2>1. row' = row /\ copy'[w] \in {copy[w], row, NewRun}
    BY <1>1, <1>3 DEF Answer, Enter, Lease, Top, Leave, MarkLoad, MarkClear, ledgerVars, TypeOK
  <2>2. pc'[w] \notin {"executing", "recording", "answering"}
    BY <1>1, <1>3 DEF Answer, Enter, Lease, Top, Leave, MarkLoad, MarkClear, Goto, TypeOK
  <2>3. QED BY <2>1, <2>2
<1>4. CASE Executed(w)
  BY <1>4 DEF Executed, Goto, ledgerVars, TypeOK, WaitInv
<1>5. CASE Report(w)
  BY <1>5 DEF Report, GiveUp, Goto, TypeOK
<1>6. QED BY <1>2, <1>3, <1>4, <1>5

\* The steps of a thread that rewrite the run.
LEMMA RewritingWaits ==
  ASSUME WellFormed, TypeOK, PlanInv, WaitInv, Asked \subseteq Asked', NEW w \in Workers,
         ResumeLoop(w) \/ Conclude(w) \/ (\E s \in Steps : Plan(w, s)) \/ Record(w)
  PROVE  /\ row' = row \/ (SaveAccepts(row') /\ Awaits(row', Asked'))
         /\ copy'[w] \in {copy[w], row', NewRun}
         /\ pc'[w] \in {"executing", "recording"} => copy'[w].status \in {"running", "canceled"}
         /\ pc'[w] # "answering"
<1>1. /\ copy[w] \in Runs /\ at[w] \in Steps
      /\ Awaits(copy[w], Asked) /\ Awaits(copy[w], Asked')
      /\ Planned(copy[w])
  BY DEF TypeOK, WaitInv, Awaits, PlanInv
<1> DEFINE run == copy[w]
<1>2. ASSUME GiveUp(w), UNCHANGED <<row, copy>>
      PROVE  /\ row' = row /\ copy'[w] = copy[w] /\ pc'[w] \in {"leaving", "erring"}
  BY <1>2 DEF GiveUp, Goto, TypeOK
<1>3. CASE ResumeLoop(w)
  <2>1. run.cur \in Steps /\ run.status \notin Terminal
    BY <1>3, StatusFacts DEF ResumeLoop, PausedLoop
  <2>2. Requeued(run, run.cur) \in Runs /\ Awaits(Requeued(run, run.cur), Asked')
    BY <1>1, <2>1, RunOperators, WaitingRewritings
  <2>3. \/ GiveUp(w) /\ UNCHANGED <<row, copy>>
        \/ Persist(w, Requeued(run, run.cur), "planning")
    BY <1>3 DEF ResumeLoop
  <2>4. QED BY <1>2, <2>2, <2>3, PersistWaits
<1>4. CASE Conclude(w)
  <2>1. PICK new \in Runs : /\ Persist(w, new, "leaving")
                            /\ run.status \notin Terminal => Awaits(new, Asked')
    BY <1>1, <1>4, WholeRunOperators, WaitingRewritings DEF Conclude
  <2>2. QED BY <2>1, PersistWaits
<1>5. ASSUME NEW s \in Steps, Plan(w, s)
      PROVE  /\ row' = row \/ (SaveAccepts(row') /\ Awaits(row', Asked'))
             /\ copy'[w] \in {copy[w], row', NewRun}
             /\ pc'[w] \in {"executing", "recording"} => copy'[w].status \in {"running", "canceled"}
             /\ pc'[w] # "answering"
  <2>1. run.step[s] = "pending" /\ s \in Active
    BY <1>1, <1>5 DEF Plan, IsNext, Ready, Planned
  <2>2. CASE Persist(w, WithStep(run, s, "skipped"), "top")
    <3>1. WithStep(run, s, "skipped") \in Runs /\ Awaits(WithStep(run, s, "skipped"), Asked')
      BY <1>1, <2>1, RunOperators, WaitingRewritings DEF StepStatus
    <3>2. QED BY <2>2, <3>1, PersistWaits
  <2>3. CASE s \in Approval /\ ~Approved(run, s) /\ Persist(w, Blocked(run, s), "leaving")
    <3>1. run.status \notin Terminal => run.appr[s] = "pending"
      <4>1. s \in Approval \cap Active
        BY <2>1, <2>3
      <4>2. IsRecordFor(s, s)
        BY <4>1 DEF WellFormed, DistinctApprovals, IsRecordFor, Steps
      <4>3. run.appr[s] # "approved"
        BY <2>3, <4>2 DEF Approved
      <4>4. QED BY <1>1, <4>1, <4>3 DEF Awaits
    <3>2. run.status \notin Terminal => Awaits(Blocked(run, s), Asked')
      BY <1>1, <2>1, <2>3, <3>1, WaitingRewritings
    <3>3. Blocked(run, s) \in Runs
      BY <1>1, RunOperators
    <3>4. QED BY <2>3, <3>2, <3>3, PersistWaits
  <2>4. CASE Persist(w, Started(run, s), "executing")
    <3>1. Started(run, s) \in Runs /\ Started(run, s).status = "running"
      BY <1>1, RunOperators DEF Started, WithStep, Runs
    <3>2. run.status \notin Terminal => Awaits(Started(run, s), Asked')
      BY <1>1, WaitingRewritings
    <3>3. QED BY <2>4, <3>1, <3>2, PersistWaits
  <2>5. CASE GiveUp(w) /\ UNCHANGED <<row, age, copy>>
    BY <1>2, <2>5
  <2>6. QED BY <1>5, <2>2, <2>3, <2>4, <2>5 DEF Plan
<1>6. CASE Record(w)
  <2>1. run.status # "waiting" /\ UNCHANGED at
    BY <1>6 DEF Record, WaitInv
  <2>2. ASSUME NEW st \in {"succeeded", "skipped"}, NEW l \in {"completing", "top"},
               Persist(w, WithStep(run, at[w], st), l)
        PROVE  /\ row' = row \/ (SaveAccepts(row') /\ Awaits(row', Asked'))
               /\ copy'[w] \in {copy[w], row', NewRun}
               /\ pc'[w] \in {"executing", "recording"} => copy'[w].status \in {"running", "canceled"}
               /\ pc'[w] # "answering"
    <3>1. st \in StepStatus
      BY DEF StepStatus
    <3>2. WithStep(run, at[w], st) \in Runs /\ Awaits(WithStep(run, at[w], st), Asked')
      BY <1>1, <2>1, <3>1, RunOperators, WaitingRewritings
    <3>3. QED BY <2>2, <3>2, PersistWaits
  <2>3. CASE at[w] \in Feedback /\ Persist(w, Blocked(run, at[w]), "asking")
    <3>1. SaveRun(Blocked(run, at[w])) /\ copy' = [copy EXCEPT ![w] = Blocked(run, at[w])]
            => at[w] \in Asked'
      <4>1. SUFFICES ASSUME SaveRun(Blocked(run, at[w])),
                            copy' = [copy EXCEPT ![w] = Blocked(run, at[w])]
                     PROVE  at[w] \in Asked'
        OBVIOUS
      <4>2. copy'[w].step[at[w]] = "waiting"
        BY <1>1, <4>1 DEF Blocked, WithStep, Runs, TypeOK
      <4>3. CASE Goto(w, "asking")
        <5>1. pc'[w] = "asking" /\ at'[w] = at[w]
          BY <2>1, <4>3 DEF Goto, TypeOK
        <5>2. QED BY <5>1 DEF Asked
      <4>4. CASE GiveUp(w)
        <5>1. pc'[w] \in {"leaving", "erring"}
          BY <4>4 DEF GiveUp, Goto, TypeOK
        <5>2. at[w] \in lost'
          BY <1>6, <4>2, <5>1 DEF Record, Silenced
        <5>3. QED BY <5>2 DEF Asked
      <4>5. CASE UNCHANGED row /\ copy' = [copy EXCEPT ![w] = row] /\ Goto(w, "asking")
        BY <4>3, <4>5
      <4>6. QED BY <2>3, <4>3, <4>4, <4>5 DEF Persist
    <3>2. Blocked(run, at[w]) \in Runs
      BY <1>1, RunOperators
    <3>3. CASE at[w] \in Asked'
      <4>1. run.status \notin Terminal => Awaits(Blocked(run, at[w]), Asked')
        BY <1>1, <2>3, <3>3, WaitingRewritings
      <4>2. QED BY <2>3, <3>2, <4>1, PersistWaits
    <3>4. CASE UNCHANGED row /\ copy'[w] \in {copy[w], row} /\ pc'[w] \in {"asking", "leaving", "erring"}
      BY <3>4
    <3>5. QED
      <4>1. at[w] \notin Asked' =>
              /\ UNCHANGED row /\ copy'[w] \in {copy[w], row}
              /\ pc'[w] \in {"asking", "leaving", "erring"}
        BY <2>3, <3>1 DEF Persist, GiveUp, Goto, TypeOK
      <4>2. QED BY <3>3, <3>4, <4>1
  <2>4. CASE Persist(w, FailedAt(run, at[w]), "leaving")
    <3>1. FailedAt(run, at[w]) \in Runs /\ Awaits(FailedAt(run, at[w]), Asked')
      BY <1>1, RunOperators, WaitingRewritings
    <3>2. QED BY <2>4, <3>1, PersistWaits
  <2>5. CASE GiveUp(w) /\ UNCHANGED <<row, age, copy>>
    BY <1>2, <2>5
  <2>6. \/ Persist(w, WithStep(run, at[w], "succeeded"), "completing")
        \/ at[w] \in Feedback /\ Persist(w, Blocked(run, at[w]), "asking")
        \/ Persist(w, WithStep(run, at[w], "skipped"), "top")
        \/ Persist(w, FailedAt(run, at[w]), "leaving")
        \/ GiveUp(w) /\ UNCHANGED <<row, age, copy>>
    BY <1>6 DEF Record
  <2>7. QED BY <2>2, <2>3, <2>4, <2>5, <2>6
<1>7. QED BY <1>3, <1>4, <1>5, <1>6

LEMMA SavingFailureWaits ==
  ASSUME TypeOK, WaitInv, Asked \subseteq Asked', NEW w \in Workers, MarkSave(w)
  PROVE  /\ row' = row \/ (SaveAccepts(row') /\ Awaits(row', Asked'))
         /\ copy'[w] \in {copy[w], row', NewRun}
         /\ pc'[w] \notin {"executing", "recording", "answering"}
<1>1. copy[w] \in Runs /\ Awaits(copy[w], Asked')
  BY DEF TypeOK, WaitInv, Awaits
<1>2. Awaits(MarkedFailed(copy[w]), Asked')
  BY <1>1, WaitingRewritings
<1>3. QED BY <1>2 DEF MarkSave, SaveRun, Rest, Goto, TypeOK

\* The steps of the callers.
LEMMA CallersWait ==
  ASSUME TypeOK, WaitInv, Asked \subseteq Asked', NEW c \in Clerks,
         \/ ClerkStep(c) \/ ClerkDies(c)
         \/ \E o \in Commands : Request(c, o) \/ Select(c, o)
  PROVE  WaitInv'
<1>1. UNCHANGED <<pc, copy>>
  BY DEF ClerkStep, Reload, ClerkSave, ClerkClear, ClerkDies, Request, Select, workerVars
<1>2. ASSUME row' = row \/ (SaveAccepts(row') /\ Awaits(row', Asked')),
             \A d \in Clerks :
               /\ ccopy'[d] \in {ccopy[d], row', NewRun}
               /\ cpc'[d] = "loaded" /\ op'[d] \in {"recover", "force"} => ccopy'[d].status = "running"
      PROVE  WaitInv'
  BY <1>1, <1>2, WaitsFollow DEF WaitInv
<1>3. \A d \in Clerks \ {c} : cpc'[d] = cpc[d] /\ op'[d] = op[d] /\ ccopy'[d] = ccopy[d]
  BY DEF ClerkStep, Reload, ClerkSave, ClerkClear, ClerkDies, Request, Select, ClerkRest, TypeOK
<1>4. ClerkRest(c) => cpc'[c] = "idle" /\ ccopy'[c] = NewRun
  BY DEF ClerkRest, TypeOK
<1>5. CASE ClerkDies(c) \/ ClerkClear(c) \/ (\E o \in Commands : Request(c, o) \/ Select(c, o))
  <2>1. row' = row /\ ccopy'[c] \in {ccopy[c], row, NewRun}
    BY <1>4, <1>5 DEF ClerkDies, ClerkClear, Request, Select, ledgerVars, TypeOK
  <2>2. cpc'[c] = "loaded" => op'[c] \notin {"recover", "force"}
    BY <1>4, <1>5 DEF ClerkDies, ClerkClear, Request, Select, TypeOK
  <2>3. QED BY <1>2, <1>3, <2>1, <2>2 DEF WaitInv
<1>6. CASE Reload(c)
  <2>1. row' = row /\ ccopy'[c] \in {ccopy[c], row, NewRun}
    BY <1>4, <1>6 DEF Reload, ledgerVars, TypeOK
  <2>2. cpc'[c] = "loaded" /\ op'[c] \in {"recover", "force"} => ccopy'[c].status = "running"
    <3>1. CASE StillActionable(op[c], row)
      BY <1>6, <3>1 DEF Reload, StillActionable, TypeOK
    <3>2. CASE ~StillActionable(op[c], row)
      BY <1>4, <1>6, <3>2 DEF Reload
    <3>3. QED BY <3>1, <3>2
  <2>3. QED BY <1>2, <1>3, <2>1, <2>2 DEF WaitInv
<1>7. CASE ClerkSave(c)
  <2>1. PICK run \in Rewrites(op[c], ccopy[c]) :
          \/ /\ SaveRun(run)
             /\ \/ cpc' = [cpc EXCEPT ![c] = "clearing"] /\ UNCHANGED <<op, ccopy>>
                \/ ClerkRest(c)
          \/ ClerkRest(c) /\ UNCHANGED row
    BY <1>7 DEF ClerkSave
  <2>2. cpc'[c] # "loaded" /\ ccopy'[c] \in {ccopy[c], NewRun}
    BY <1>4, <2>1 DEF TypeOK
  <2>3. SaveRun(run) => Awaits(run, Asked')
    <3>1. SUFFICES ASSUME SaveAccepts(run) PROVE Awaits(run, Asked')
      BY DEF SaveRun
    <3>2. CASE ccopy[c].status \in Terminal
      BY <3>1, <3>2, StatusFacts DEF WaitInv, SaveAccepts, Awaits
    <3>3. CASE ccopy[c].status \notin Terminal
      <4>1. ccopy[c] \in Runs /\ Awaits(ccopy[c], Asked') /\ op[c] \in Commands
        BY DEF TypeOK, WaitInv, Awaits
      <4>2. ASSUME NEW a \in Decidable(ccopy[c])
            PROVE  /\ Awaits(ApprovedStep(ccopy[c], a), Asked')
                   /\ Awaits(RejectedStep(ccopy[c], a), Asked')
        <5>1. ccopy[c].cur \in Steps
          BY <4>1, DecisionOperators
        <5>2. QED BY <3>3, <4>1, <5>1, StatusFacts
              DEF Awaits, ApprovedStep, RejectedStep, Requeued, WithStep, Runs
      <4>3. QED BY <3>3, <4>1, <4>2, WaitingRewritings DEF Rewrites, Commands
    <3>4. QED BY <3>2, <3>3
  <2>4. row' = row \/ (SaveAccepts(row') /\ Awaits(row', Asked'))
    BY <2>1, <2>3 DEF SaveRun
  <2>5. QED BY <1>2, <1>3, <2>2, <2>4 DEF WaitInv
<1>8. QED BY <1>5, <1>6, <1>7 DEF ClerkStep

LEMMA WaitsAreKept ==
  ASSUME WellFormed, TypeOK, PlanInv, WaitInv, [Next]_vars
  PROVE  WaitInv'
<1>1. Asked \subseteq Asked'
  BY AskedGrows
<1>2. CASE UNCHANGED vars
  BY <1>1, <1>2, WaitsFollow DEF vars, WaitInv
<1>3. ASSUME NEW w \in Workers, WorkerStep(w) \/ \E f \in BOOLEAN : Load(w, f) PROVE WaitInv'
  <2>1. /\ row' = row \/ (SaveAccepts(row') /\ Awaits(row', Asked'))
        /\ copy'[w] \in {copy[w], row', NewRun}
        /\ pc'[w] \in {"executing", "recording"} => copy'[w].status \in {"running", "canceled"}
        /\ pc'[w] = "answering" => PausedLoop(copy'[w])
    BY <1>1, <1>3, QuietWaits, RewritingWaits, SavingFailureWaits DEF WorkerStep
  <2>2. \A v \in Workers \ {w} : pc'[v] = pc[v] /\ copy'[v] = copy[v]
    BY <1>3, OneThreadMoves
  <2>3. UNCHANGED <<cpc, op, ccopy>>
    BY <1>3 DEF WorkerStep, Load, Answer, Enter, Lease, Top, ResumeLoop, Conclude, Plan,
       Executed, Record, Report, Leave, MarkLoad, MarkSave, MarkClear, clerkVars
  <2>4. QED BY <1>1, <2>1, <2>2, <2>3, WaitsFollow DEF WaitInv
<1>4. ASSUME NEW p \in Procs, Crash(p) PROVE WaitInv'
  <2>1. UNCHANGED <<row, cpc, op, ccopy>>
    BY <1>4 DEF Crash, clerkVars
  <2>2. \A v \in Workers : \/ pc'[v] = "dead" /\ copy'[v] = NewRun
                           \/ pc'[v] = pc[v] /\ copy'[v] = copy[v]
    BY <1>4 DEF Crash, TypeOK
  <2>3. QED BY <1>1, <2>1, <2>2, WaitsFollow DEF WaitInv
<1>5. CASE (\E w \in Workers : Renew(w)) \/ Expire \/ Age
  <2>1. UNCHANGED <<row, cpc, op, ccopy, pc, copy>>
    BY <1>5 DEF Renew, Expire, Age, clerkVars, workerVars
  <2>2. QED BY <1>1, <2>1, WaitsFollow DEF WaitInv
<1>6. QED BY <1>1, <1>2, <1>3, <1>4, <1>5, CallersWait DEF Next

\* The part that holds as long as only queued, finished and paused runs were resumed.
InShape ==
  /\ Shape(row)
  /\ \A w \in Workers : Fits(pc[w], copy[w], at[w])
  /\ \A c \in Clerks : Shape(ccopy[c])

\* The steps of a thread that do not rewrite the run.
LEMMA QuietShape ==
  ASSUME TypeOK, WaitInv, InShape, ~strayed', NEW w \in Workers,
         \/ \E f \in BOOLEAN : Load(w, f)
         \/ Answer(w) \/ Enter(w) \/ Lease(w) \/ Top(w) \/ Executed(w) \/ Report(w)
         \/ Leave(w) \/ MarkLoad(w) \/ MarkClear(w)
  PROVE  row' = row /\ Fits(pc'[w], copy'[w], at'[w])
<1>1. Fits(pc[w], copy[w], at[w]) /\ Shape(row)
  BY DEF InShape
<1>2. \A run, s : \A l \in {"idle", "marking", "leaving", "erring"} : Fits(l, run, s)
  BY DEF Fits, Acting, Before
<1>3. /\ Rest(w) \/ Fail(w) => pc'[w] \in {"idle", "marking"}
      /\ GiveUp(w) => pc'[w] \in {"leaving", "erring"}
  BY DEF Rest, Fail, GiveUp, Goto, TypeOK
<1>4. ASSUME NEW f \in BOOLEAN, Load(w, f) PROVE row' = row /\ Fits(pc'[w], copy'[w], at'[w])
  <2>1. /\ row' = row /\ copy'[w] = row /\ pc'[w] \in {"answering", "entering"}
        /\ PausedLoop(row) \/ row.status \in Terminal \cup {"queued"}
    BY <1>4 DEF Load, Goto, ledgerVars, TypeOK
  <2>2. Calm(row) /\ (row.status = "waiting" => row.cur \in Feedback)
    BY <1>1, <2>1, StatusFacts DEF Calm, Shape, PausedLoop
  <2>3. QED BY <1>1, <2>1, <2>2 DEF Fits, Acting, Before
<1>5. CASE Answer(w) \/ Leave(w) \/ MarkClear(w)
  <2>1. UNCHANGED row
    BY <1>5 DEF Answer, Leave, MarkClear
  <2>2. CASE Answer(w) /\ pc' = [pc EXCEPT ![w] = "entering"] /\ UNCHANGED copy
    <3>1. PausedLoop(copy[w]) /\ Shape(copy[w]) /\ pc'[w] = "entering"
      BY <1>1, <2>2 DEF Answer, WaitInv, Fits, TypeOK
    <3>2. Calm(copy[w])
      BY <3>1 DEF Calm, Shape, PausedLoop
    <3>3. QED BY <2>1, <2>2, <3>1, <3>2 DEF Fits, Acting, Before, PausedLoop
  <2>3. CASE Rest(w) \/ Fail(w)
    BY <1>2, <1>3, <2>1, <2>3
  <2>4. QED BY <1>5, <2>2, <2>3 DEF Answer, Leave, MarkClear, Goto
<1>6. CASE Enter(w) \/ Lease(w) \/ Top(w)
  <2>1. UNCHANGED row
    BY <1>6 DEF Enter, Lease, Top, ledgerVars
  <2>2. CASE Rest(w) \/ Fail(w)
    BY <1>2, <1>3, <2>1, <2>2
  <2>3. CASE ~Rest(w) /\ ~Fail(w)
    <3>1. /\ pc[w] \in {"entering", "leasing", "top"} /\ copy'[w] = copy[w]
          /\ pc'[w] \in {"leasing", "top", "planning", "leaving"}
          /\ pc[w] = "entering" => copy[w].status \notin Terminal
      BY <1>6, <2>3 DEF Enter, Lease, Top, Goto, TypeOK
    <3>2. QED BY <1>1, <2>1, <3>1, StatusFacts DEF Fits, Acting, Before
  <2>4. QED BY <2>2, <2>3
<1>7. CASE Executed(w)
  <2>1. /\ pc[w] = "executing" /\ UNCHANGED <<row, copy, at>>
        /\ pc'[w] = "leaving" \/ (pc'[w] = "recording" /\ row.status # "canceled")
    BY <1>7 DEF Executed, SeesCanceled, Goto, ledgerVars, TypeOK
  <2>2. copy[w].status = "canceled" => row.status = "canceled"
    BY StatusFacts DEF WaitInv
  <2>3. QED BY <1>1, <1>2, <2>1, <2>2 DEF Fits, Acting, Before
<1>8. CASE Report(w)
  <2>1. UNCHANGED <<row, copy, at>>
    BY <1>8 DEF Report
  <2>2. \/ pc'[w] \in {"leaving", "erring"}
        \/ pc[w] = "completing" /\ pc'[w] = "top"
    BY <1>8 DEF Report, GiveUp, Goto, TypeOK
  <2>3. QED BY <1>1, <1>2, <2>1, <2>2 DEF Fits, Acting, Before
<1>9. CASE MarkLoad(w)
  <2>1. CASE Rest(w)
    BY <1>2, <1>3, <1>9, <2>1 DEF MarkLoad, ledgerVars
  <2>2. CASE ~Rest(w)
    <3>1. row' = row /\ copy'[w] = row /\ pc'[w] = "failing"
      BY <1>9, <2>2 DEF MarkLoad, Goto, ledgerVars, TypeOK
    <3>2. QED BY <1>1, <3>1 DEF Fits, Acting, Before
  <2>3. QED BY <2>1, <2>2
<1>10. QED BY <1>4, <1>5, <1>6, <1>7, <1>8, <1>9

\* The steps that do.
LEMMA RewritingShape ==
  ASSUME WellFormed, TypeOK, PlanInv, WaitInv, InShape, NEW w \in Workers,
         \/ ResumeLoop(w) \/ Conclude(w) \/ (\E s \in Steps : Plan(w, s)) \/ Record(w)
         \/ MarkSave(w)
  PROVE  Shape(row') /\ Fits(pc'[w], copy'[w], at'[w])
<1>1. /\ Fits(pc[w], copy[w], at[w]) /\ Shape(row) /\ copy[w] \in Runs
      /\ copy[w].status \in Terminal => row.status = copy[w].status
  BY DEF InShape, WaitInv, TypeOK
<1>2. \A run, s : \A l \in {"idle", "leaving", "erring", "clearing"} : Fits(l, run, s)
  BY DEF Fits, Acting, Before
<1>3. CASE MarkSave(w)
  <2>1. Shape(copy[w])
    BY <1>1, <1>3 DEF MarkSave, Fits
  <2>2. Shape(MarkedFailed(copy[w]))
    BY <1>1, <2>1, EndedShape
  <2>3. pc'[w] \in {"idle", "clearing"} /\ row' \in {row, MarkedFailed(copy[w])}
    BY <1>3 DEF MarkSave, SaveRun, Rest, Goto, TypeOK
  <2>4. QED BY <1>1, <1>2, <2>2, <2>3
<1>4. CASE ~MarkSave(w)
  <2>1. Follows(w)
    <3>1. CASE Record(w)
      BY <1>1, <3>1, RecordFollows DEF Record
    <3>2. CASE ~Record(w)
      <4>1. pc[w] = "planning"
        BY <1>4, <3>2 DEF ResumeLoop, Conclude, Plan
      <4>2. QED BY <1>1, <1>4, <3>2, <4>1, PlanFollows
    <3>3. QED BY <3>1, <3>2
  <2>2. CASE GiveUp(w) /\ UNCHANGED <<row, age, copy>>
    <3>1. pc'[w] \in {"leaving", "erring"}
      BY <2>2 DEF GiveUp, Goto, TypeOK
    <3>2. QED BY <1>1, <1>2, <2>2, <3>1
  <2>3. ASSUME NEW run \in Runs, NEW l \in Onward, Moves(w, run, l)
        PROVE  Shape(row') /\ Fits(pc'[w], copy'[w], at'[w])
    <3>1. GiveUp(w) => pc'[w] \in {"leaving", "erring"}
      BY DEF GiveUp, Goto, TypeOK
    <3>2. CASE SaveRun(run) /\ copy' = [copy EXCEPT ![w] = run] /\ (Goto(w, l) \/ GiveUp(w))
      <4>1. row' = run /\ copy'[w] = run /\ Shape(run) /\ Fits(l, run, at'[w])
        BY <2>3, <3>2 DEF Moves, SaveRun, TypeOK
      <4>2. pc'[w] \in {l, "leaving", "erring"}
        BY <3>1, <3>2 DEF Goto, TypeOK
      <4>3. QED BY <1>2, <4>1, <4>2
    <3>3. CASE row.status = "canceled" /\ copy' = [copy EXCEPT ![w] = row] /\ Goto(w, l) /\ UNCHANGED row
      <4>1. copy'[w] = row /\ pc'[w] = l /\ Calm(row)
        BY <1>1, <3>3 DEF Goto, TypeOK, Calm, Shape
      <4>2. l \in {"top", "planning", "leaving", "executing", "completing", "asking"}
        BY <2>3 DEF Onward
      <4>3. QED BY <1>1, <3>3, <4>1, <4>2 DEF Fits
    <3>4. CASE GiveUp(w) /\ UNCHANGED <<row, age, copy>>
      BY <1>1, <1>2, <3>1, <3>4
    <3>5. QED BY <2>3, <3>2, <3>3, <3>4 DEF Moves, Persist
  <2>4. QED BY <2>1, <2>2, <2>3 DEF Follows
<1>5. QED BY <1>3, <1>4

\* The steps of the callers.
LEMMA CallersShape ==
  ASSUME WellFormed, TypeOK, WaitInv, InShape, NEW c \in Clerks,
         \/ ClerkStep(c) \/ ClerkDies(c)
         \/ \E o \in Commands : Request(c, o) \/ Select(c, o)
  PROVE  InShape'
<1>1. UNCHANGED <<pc, copy, at>>
  BY DEF ClerkStep, Reload, ClerkSave, ClerkClear, ClerkDies, Request, Select, workerVars
<1>2. \A d \in Clerks : ccopy'[d] \in {ccopy[d], row, NewRun}
  BY DEF ClerkStep, Reload, ClerkSave, ClerkClear, ClerkDies, ClerkRest, Request, Select, TypeOK
<1>3. Shape(row')
  <2>1. CASE ClerkSave(c)
    <3>1. PICK run \in Rewrites(op[c], ccopy[c]) : row' = run \/ UNCHANGED row
      BY <2>1 DEF ClerkSave, SaveRun
    <3>2. /\ ccopy[c] \in Runs /\ Shape(ccopy[c]) /\ op[c] \in Commands
          /\ op[c] \in {"recover", "force"} => ccopy[c].status = "running"
      BY <2>1 DEF TypeOK, InShape, WaitInv, ClerkSave
    <3>3. Shape(run)
      BY <3>2, EndedShape, RecoveredShape, DecidedShape DEF Rewrites, Commands
    <3>4. QED BY <3>1, <3>3 DEF InShape
  <2>2. CASE ~ClerkSave(c)
    <3>1. UNCHANGED row
      BY <2>2 DEF ClerkStep, Reload, ClerkClear, ClerkDies, Request, Select, ledgerVars
    <3>2. QED BY <3>1 DEF InShape
  <2>3. QED BY <2>1, <2>2
<1>4. QED BY <1>1, <1>2, <1>3, NewRunInShape DEF InShape

LEMMA ShapeIsKept ==
  ASSUME WellFormed, TypeOK, PlanInv, WaitInv, ~strayed => InShape, [Next]_vars
  PROVE  (~strayed => InShape)'
<1>1. SUFFICES ASSUME ~strayed' PROVE InShape'
  OBVIOUS
<1>2. CASE UNCHANGED vars
  <2>1. UNCHANGED <<row, pc, copy, at, ccopy>> /\ ~strayed
    BY <1>1, <1>2 DEF vars, countVars
  <2>2. QED BY <2>1 DEF InShape
<1>3. ASSUME NEW w \in Workers, WorkerStep(w) \/ \E f \in BOOLEAN : Load(w, f) PROVE InShape'
  <2>0. UNCHANGED ccopy
    BY <1>3 DEF WorkerStep, Load, Answer, Enter, Lease, Top, ResumeLoop, Conclude, Plan,
       Executed, Record, Report, Leave, MarkLoad, MarkSave, MarkClear, clerkVars
  <2>1. ~strayed
    <3>1. CASE \E f \in BOOLEAN : Load(w, f)
      BY <1>1, <3>1 DEF Load
    <3>2. CASE ~\E f \in BOOLEAN : Load(w, f)
      <4>1. UNCHANGED strayed
        BY <1>3, <3>2 DEF WorkerStep, Answer, Enter, Lease, Top, ResumeLoop, Conclude, Plan,
           Executed, Record, Report, Leave, MarkLoad, MarkSave, MarkClear, countVars
      <4>2. QED BY <1>1, <4>1
    <3>3. QED BY <3>1, <3>2
  <2>2. Shape(row') /\ Fits(pc'[w], copy'[w], at'[w])
    BY <1>1, <1>3, <2>1, QuietShape, RewritingShape DEF WorkerStep, InShape
  <2>3. \A v \in Workers \ {w} : pc'[v] = pc[v] /\ copy'[v] = copy[v] /\ at'[v] = at[v]
    BY <1>3, OneThreadMoves
  <2>4. QED BY <2>0, <2>1, <2>2, <2>3 DEF InShape
<1>4. ASSUME NEW c \in Clerks,
             \/ ClerkStep(c) \/ ClerkDies(c)
             \/ \E o \in Commands : Request(c, o) \/ Select(c, o)
      PROVE  InShape'
  <2>1. ~strayed
    BY <1>1, <1>4 DEF ClerkStep, Reload, ClerkSave, ClerkClear, ClerkDies, Request, Select, countVars
  <2>2. QED BY <1>4, <2>1, CallersShape
<1>5. ASSUME NEW p \in Procs, Crash(p) PROVE InShape'
  <2>1. ~strayed /\ UNCHANGED <<row, ccopy>>
    BY <1>1, <1>5 DEF Crash, clerkVars
  <2>2. \A v \in Workers : \/ pc'[v] = "dead"
                           \/ pc'[v] = pc[v] /\ copy'[v] = copy[v] /\ at'[v] = at[v]
    BY <1>5 DEF Crash, TypeOK
  <2>3. \A run, s : Fits("dead", run, s)
    BY DEF Fits, Acting, Before
  <2>4. QED BY <2>1, <2>2, <2>3 DEF InShape
<1>6. CASE (\E w \in Workers : Renew(w)) \/ Expire \/ Age
  <2>1. UNCHANGED <<row, pc, copy, at, ccopy>> /\ ~strayed
    BY <1>1, <1>6 DEF Renew, Expire, Age, workerVars, clerkVars, countVars
  <2>2. QED BY <2>1 DEF InShape
<1>7. QED BY <1>2, <1>3, <1>4, <1>5, <1>6 DEF Next

\* For every package, any number of threads with stale copies, any resumption, command
\* and crash: a waiting run waits for something that can still be given, unless its
\* question was lost, or it was resumed when a step showed as running or waited for an
\* approval and has no current step.
THEOREM WaitingRunsAreAnswerable ==
  ASSUME WellFormed PROVE Spec => []WaitingIsAnswerable
<1>1. Init => WaitInv /\ InShape
  <2>1. SUFFICES ASSUME Init PROVE WaitInv /\ InShape
    OBVIOUS
  <2>2. \A run, s : \A l \in {"idle", "spawned"} : Fits(l, run, s)
    BY DEF Fits, Acting, Before
  <2>3. QED BY <2>1, <2>2, NewRunWaits, NewRunInShape DEF Init, LedgerInit, WaitInv, InShape
<1>2. TypeOK /\ PlanInv /\ WaitInv /\ (~strayed => InShape) /\ [Next]_vars
        => WaitInv' /\ (~strayed => InShape)'
  BY WaitsAreKept, ShapeIsKept
<1>3. ASSUME TypeOK, WaitInv, ~strayed => InShape PROVE WaitingIsAnswerable
  <2>1. SUFFICES ASSUME row.status = "waiting"
                 PROVE  \/ row.cur = NoStep /\ strayed
                        \/ /\ row.cur # NoStep /\ row.step[row.cur] = "waiting"
                           /\ \/ Decidable(row) # {}
                              \/ /\ row.cur \in Feedback
                                 /\ \/ row.cur \in questions \cup resolved \cup lost
                                    \/ Asking(row.cur)
    BY DEF WaitingIsAnswerable
  <2>2. CASE row.cur = NoStep
    BY <1>3, <2>1, <2>2 DEF InShape, Shape
  <2>3. CASE row.cur # NoStep
    <3>1. /\ row.cur \in Steps /\ row.step[row.cur] = "waiting"
          /\ \/ row.cur \in Approval \cap Active /\ row.appr[row.cur] = "pending"
             \/ row.cur \in Feedback \cap Asked
      BY <1>3, <2>1, <2>3 DEF WaitInv, Awaits, TypeOK, LedgerTypeOK, Runs
    <3>2. CASE row.cur \in Approval \cap Active /\ row.appr[row.cur] = "pending"
      <4>1. IsRecordFor(row.cur, row.cur)
        BY <3>1, <3>2 DEF WellFormed, DistinctApprovals, IsRecordFor, Steps
      <4>2. row.cur \in Decidable(row)
        BY <2>3, <3>1, <3>2, <4>1 DEF Decidable
      <4>3. QED BY <2>3, <3>1, <4>2
    <3>3. CASE row.cur \in Feedback \cap Asked
      BY <2>3, <3>1, <3>3 DEF Asked, Asking
    <3>4. QED BY <3>1, <3>2, <3>3
  <2>4. QED BY <2>2, <2>3
<1>4. TypeOK /\ WaitInv /\ (~strayed => InShape) => WaitingIsAnswerable
  BY <1>3
<1>5. QED BY <1>1, <1>2, <1>4, TypeCorrect, PlanIsKept, PTL DEF Spec

=============================================================================
