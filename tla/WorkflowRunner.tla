--------------------------- MODULE WorkflowRunner ---------------------------
(***************************************************************************)
(* One workflow run and everybody who acts on it: the runner threads of    *)
(* src/src/workflow/runner.rs that execute its steps under the lease of    *)
(* the ledger, the background dispatcher and the resume commands of        *)
(* src/src/app/commands.rs that start such threads, and the commands that  *)
(* change the run from outside (approve, reject, cancel, recover, and the  *)
(* sweep that fails abandoned runs).  A runner works on a private copy of  *)
(* the run which it loaded before it took the lease.                       *)
(***************************************************************************)
EXTENDS LocalRuns

CONSTANTS
  Deps,         \* depends_on
  Conditional,  \* steps with a `when' condition
  Tolerant,     \* steps with on_failure "continue"
  Feedback,     \* loop steps with pause_for_feedback
  EndsWith,     \* <<a, s>>: the approval id of step a ends with the id of s
  Partial,      \* completion_mode is "partial"
  Exit,         \* exit_step_id of the execution plan
  Workers,      \* runner threads
  ProcOf,       \* the process of each thread
  Dispatcher,   \* the thread spawned when the run was created
  Clerks,       \* callers of the commands
  May           \* the commands each of them issues

CONSTANTS
  Mortal,       \* processes that may be killed
  Naps,         \* a live process may fail to renew its lease in time
  Serial,       \* a session begins only when no other one is open
  ResumeFrom,   \* statuses in which somebody asks to resume the run
  MaxSessions,  \* bound on the resumed sessions
  MaxCommands   \* bound on the commands other than the sweep

Commands == {"approve", "reject", "cancel", "recover", "force", "abandon"}

ASSUME RunnerAssumption ==
  /\ Deps \in [Steps -> SUBSET Steps]
  /\ Conditional \subseteq Steps /\ Tolerant \subseteq Steps
  /\ Feedback \subseteq Steps
  /\ EndsWith \subseteq Steps \X Steps
  /\ Partial \in BOOLEAN /\ Exit \in Steps
  /\ ProcOf \in [Workers -> Procs] /\ Dispatcher \in Workers
  /\ May \in [Clerks -> SUBSET Commands]
  /\ Mortal \subseteq Procs /\ Naps \in BOOLEAN /\ Serial \in BOOLEAN
  /\ ResumeFrom \subseteq RunStatus
  /\ MaxSessions \in Nat /\ MaxCommands \in Nat

VARIABLES
  pc,          \* where each runner thread is
  copy,        \* its LocalRun
  at,          \* the step it has in hand
  background,  \* it runs under dispatch_run_in_background
  cpc,         \* where each caller is
  op,          \* its command
  ccopy,       \* its LocalRun
  granted,     \* history: steps whose approval was recorded as given
  sessions, commands

VARIABLES
  resolved,    \* steps whose latest QuestionRequested event is resolved
  lost,        \* history: steps that were saved and whose event never followed
  strayed      \* history: a run was resumed that was neither queued nor paused

workerVars == <<pc, copy, at, background>>
clerkVars  == <<cpc, op, ccopy>>
eventVars  == <<resolved, lost>>
countVars  == <<sessions, commands, eventVars, strayed>>
vars == <<row, age, lease, alive, questions, outputs, pc, copy, at,
          background, cpc, op, ccopy, granted, countVars>>

\* The locations in which a thread holds a RunLeaseGuard.
InSession == {"top", "planning", "executing", "recording", "completing",
              "asking", "leaving", "erring"}
Locations == InSession \cup {"spawned", "idle", "answering", "entering",
              "leasing", "marking", "failing", "clearing", "dead"}

TypeOK ==
  /\ LedgerTypeOK
  /\ pc \in [Workers -> Locations]
  /\ copy \in [Workers -> Runs]
  /\ at \in [Workers -> Steps]
  /\ background \in [Workers -> BOOLEAN]
  /\ cpc \in [Clerks -> {"idle", "selected", "loaded", "clearing"}]
  /\ op \in [Clerks -> Commands]
  /\ ccopy \in [Clerks -> Runs]
  /\ granted \subseteq Steps
  /\ sessions \in 0..MaxSessions
  /\ commands \in 0..MaxCommands
  /\ resolved \cup lost \subseteq Steps /\ strayed \in BOOLEAN

Init ==
  /\ LedgerInit
  /\ pc = [w \in Workers |-> IF w = Dispatcher THEN "spawned" ELSE "idle"]
  /\ copy = [w \in Workers |-> NewRun]
  /\ at = [w \in Workers |-> 1]
  /\ background = [w \in Workers |-> w = Dispatcher]
  /\ cpc = [c \in Clerks |-> "idle"]
  /\ op = [c \in Clerks |-> "cancel"]
  /\ ccopy = [c \in Clerks |-> NewRun]
  /\ granted = {}
  /\ sessions = 0
  /\ commands = 0
  /\ resolved = {} /\ lost = {} /\ strayed = FALSE

-----------------------------------------------------------------------------
(* What the runner computes from its copy.                                 *)

\* The steps next_ready_step considers.
Ready(run) == {s \in Steps : /\ run.step[s] = "pending"
                             /\ \A d \in Deps[s] : run.step[d] \in Settled}

\* next_ready_step: the first of them in package order.
IsNext(run, s) == s \in Ready(run) /\ \A t \in Ready(run) : s <= t

\* The approval record that stands for step s: the first one whose id ends
\* with the id of s.
IsRecordFor(a, s) ==
  /\ a \in Approval \cap Active /\ <<a, s>> \in EndsWith
  /\ \A b \in Approval \cap Active : <<b, s>> \in EndsWith => a <= b

\* mutant: the existence of a record counts as approval
ApprovedByPresence(run, s) == \E a \in Steps : IsRecordFor(a, s)

Approved(run, s) == \E a \in Steps : IsRecordFor(a, s) /\ run.appr[a] = "approved"

\* execution_plan_exit_reached
\* mutant: the exit of the plan is not looked at
ExitIgnored(run) == FALSE

ExitReached(run) == Partial /\ run.step[Exit] \in Settled

\* A run that waits for the answer to a feedback question.
PausedLoop(run) == run.status = "waiting" /\ run.cur \in Feedback

WithStep(run, s, st) == [run EXCEPT !.step[s] = st]

\* mutant: the run does not take over the status of its step
StartedInQueue(run, s) == [WithStep(run, s, "running") EXCEPT !.cur = s]

Started(run, s) ==
  [WithStep(run, s, "running") EXCEPT !.status = "running", !.cur = s]

Blocked(run, s) ==
  [WithStep(run, s, "waiting") EXCEPT !.status = "waiting", !.cur = s]

\* mutant: the run takes over the status of its step
FailedAtSkipped(run, s) ==
  [WithStep(run, s, "skipped") EXCEPT !.status = "skipped", !.cur = NoStep]

FailedAt(run, s) ==
  [WithStep(run, s, "failed") EXCEPT !.status = "failed", !.cur = NoStep]

\* Step s of a waiting run becomes pending and the run queued again.
Requeued(run, s) ==
  [WithStep(run, s, "pending") EXCEPT !.status = "queued", !.cur = NoStep]

\* The run when no step is ready; verified is the result of verify_run.
Concluded(run, verified) ==
  [run EXCEPT !.cur = NoStep, !.status =
     IF \A s \in Steps : run.step[s] \in Settled
     THEN IF Partial \/ verified THEN "succeeded" ELSE "failed"
     ELSE IF \E s \in Steps : run.step[s] = "failed" THEN "failed"
     ELSE "waiting"]

\* finish_partial_run
PartiallyDone(run) ==
  [run EXCEPT !.cur = NoStep,
     !.step = [s \in Steps |-> IF s \in Active /\ run.step[s] = "pending"
                               THEN "skipped" ELSE run.step[s]],
     !.status = IF \E s \in Steps : run.step[s] = "failed"
                THEN "failed" ELSE "succeeded"]

\* WorkflowRunner::cancel
Canceled(run) ==
  [run EXCEPT !.status = "canceled", !.cur = NoStep,
     !.step = [s \in Steps |->
        IF run.step[s] \in {"succeeded", "failed", "canceled"}
        THEN run.step[s] ELSE "canceled"],
     !.appr = [s \in Steps |-> IF run.appr[s] = "pending"
                               THEN "interrupted" ELSE run.appr[s]]]

\* The records approve_step and reject_step may decide: the one found for the
\* current step, if it is pending.
Decidable(run) == {a \in Steps : /\ run.cur # NoStep
                                 /\ IsRecordFor(a, run.cur)
                                 /\ run.appr[a] = "pending"}

\* mutant: the approved step stays waiting
ApprovedRunOnly(run, a) ==
  [run EXCEPT !.status = "queued", !.cur = NoStep, !.appr[a] = "approved"]

ApprovedStep(run, a) == [Requeued(run, run.cur) EXCEPT !.appr[a] = "approved"]

RejectedStep(run, a) ==
  [WithStep(run, run.cur, "canceled") EXCEPT
     !.status = "canceled", !.cur = NoStep, !.appr[a] = "rejected"]

-----------------------------------------------------------------------------
(* Steps of a runner thread.                                               *)

Goto(w, l) == pc' = [pc EXCEPT ![w] = l]

\* A thread that is done forgets its copy.
Rest(w) == /\ Goto(w, "idle")
           /\ copy' = [copy EXCEPT ![w] = NewRun]
           /\ at' = [at EXCEPT ![w] = 1]
           /\ background' = [background EXCEPT ![w] = FALSE]

\* An error returned by run_ready: the background dispatcher records it
\* with mark_run_failed, a resumed run only logs it.
Fail(w) == IF background[w]
           THEN Goto(w, "marking") /\ UNCHANGED <<copy, at, background>>
           ELSE Rest(w)

\* run_ready is about to return an error, which only the background
\* dispatcher acts upon.
GiveUp(w) == Goto(w, IF background[w] THEN "erring" ELSE "leaving")

\* persist_run: the run is saved and projected, and an event is appended; these
\* two may fail after the save.  When the ledger refuses because the run was
\* canceled the thread adopts the canceled run and carries on.
Persist(w, run, next) ==
  \/ /\ SaveRun(run)
     /\ copy' = [copy EXCEPT ![w] = run]
     /\ Goto(w, next) \/ GiveUp(w)
  \/ /\ ~SaveAccepts(run) /\ row.status = "canceled"
     /\ copy' = [copy EXCEPT ![w] = row]
     /\ Goto(w, next)
     /\ UNCHANGED <<row, age>>
  \/ /\ ~SaveAccepts(run) /\ row.status # "canceled"
     /\ GiveUp(w)
     /\ UNCHANGED <<row, age, copy>>

SeesCanceled == row.status = "canceled"

\* The thread spawned with the run starts; or somebody resumes the run, with
\* or without feedback for its loop.  The run is loaded here; nobody asks for
\* its status.
Load(w, withFeedback) ==
  /\ alive[ProcOf[w]]
  /\ \/ pc[w] = "spawned" /\ ~withFeedback /\ UNCHANGED sessions
     \/ /\ pc[w] = "idle" /\ sessions < MaxSessions
        /\ IF withFeedback THEN PausedLoop(row) ELSE row.status \in ResumeFrom
        /\ sessions' = sessions + 1
  /\ Serial => \A v \in Workers \ {w} : pc[v] \in {"idle", "dead"}
  /\ copy' = [copy EXCEPT ![w] = row]
  /\ Goto(w, IF withFeedback THEN "answering" ELSE "entering")
  /\ strayed' = (strayed \/ ~(PausedLoop(row) \/ row.status \in Terminal \cup {"queued"}))
  /\ UNCHANGED <<ledgerVars, at, background, clerkVars, granted, commands, eventVars>>

\* record_loop_feedback, unless the preflight before it is not ready or the
\* question is no longer open.
Answer(w) ==
  /\ pc[w] = "answering"
  /\ \/ /\ copy[w].cur \in questions
        /\ questions' = questions \ {copy[w].cur}
        /\ resolved' = resolved \cup {copy[w].cur}
        /\ Goto(w, "entering") /\ UNCHANGED <<copy, at, background>>
     \/ Fail(w) /\ UNCHANGED <<questions, resolved>>
  /\ UNCHANGED <<row, age, lease, alive, outputs, clerkVars, granted, sessions,
                 commands, lost, strayed>>

\* The entry of run_ready: an unready preflight or an invalid package is an
\* error, a terminal copy is returned, and acquire_run_lease reads the stored
\* status.
Enter(w) ==
  /\ pc[w] = "entering"
  /\ \/ Fail(w)
     \/ copy[w].status \in Terminal /\ Rest(w)
     \/ /\ copy[w].status \notin Terminal
        /\ IF Leasable THEN Goto(w, "leasing") /\ UNCHANGED <<copy, at, background>>
                       ELSE Fail(w)
  /\ UNCHANGED <<ledgerVars, clerkVars, granted, countVars>>

\* The upsert of acquire_run_lease.
Lease(w) ==
  /\ pc[w] = "leasing"
  /\ \/ /\ TakeLease(ProcOf[w])
        /\ Goto(w, "top") /\ UNCHANGED <<copy, at, background>>
     \/ ~LeaseFree(ProcOf[w]) /\ Fail(w) /\ UNCHANGED lease
  /\ UNCHANGED <<row, age, alive, questions, outputs, clerkVars, granted, countVars>>

\* The top of the loop: has the run been canceled?
Top(w) ==
  /\ pc[w] = "top"
  /\ Goto(w, IF SeesCanceled THEN "leaving" ELSE "planning")
  /\ UNCHANGED <<ledgerVars, copy, at, background, clerkVars, granted, countVars>>

\* resume_feedback_loop
ResumeLoop(w) ==
  /\ pc[w] = "planning" /\ PausedLoop(copy[w])
  /\ IF copy[w].cur \in questions
     THEN GiveUp(w) /\ UNCHANGED <<row, age, copy>>
     ELSE Persist(w, Requeued(copy[w], copy[w].cur), "planning")
  /\ UNCHANGED <<lease, alive, questions, outputs, at, background, clerkVars,
                 granted, countVars>>

\* The exit of a partial plan is reached, or no step is ready.
Conclude(w) ==
  /\ pc[w] = "planning" /\ ~PausedLoop(copy[w])
  /\ IF ExitReached(copy[w])
     THEN Persist(w, PartiallyDone(copy[w]), "leaving")
     ELSE /\ Ready(copy[w]) = {}
          /\ \E verified \in BOOLEAN :
               Persist(w, Concluded(copy[w], verified), "leaving")
  /\ UNCHANGED <<lease, alive, questions, outputs, at, background, clerkVars,
                 granted, countVars>>

\* The next step: its condition is false or cannot be evaluated, or it needs an
\* approval it does not have, or it starts.
Plan(w, s) ==
  /\ pc[w] = "planning" /\ ~PausedLoop(copy[w]) /\ ~ExitReached(copy[w])
  /\ IsNext(copy[w], s)
  /\ \/ /\ s \in Conditional
        /\ \/ Persist(w, WithStep(copy[w], s, "skipped"), "top")
           \/ GiveUp(w) /\ UNCHANGED <<row, age, copy>>
     \/ /\ s \in Approval /\ ~Approved(copy[w], s)
        /\ Persist(w, Blocked(copy[w], s), "leaving")
     \/ /\ s \in Approval => Approved(copy[w], s)
        /\ Persist(w, Started(copy[w], s), "executing")
  /\ at' = [at EXCEPT ![w] = s]
  /\ UNCHANGED <<lease, alive, questions, outputs, background, clerkVars,
                 granted, countVars>>

\* The executor returns and the thread looks for a cancellation.
Executed(w) ==
  /\ pc[w] = "executing"
  /\ Goto(w, IF SeesCanceled THEN "leaving" ELSE "recording")
  /\ UNCHANGED <<ledgerVars, copy, at, background, clerkVars, granted, countVars>>

\* The session ends between the save of the step and the event that tells of it.
Silenced(w) == /\ pc'[w] \in {"leaving", "erring"}
               /\ copy'[w].step[at[w]] \in {"succeeded", "waiting"}

\* The result is recorded: success, a pause for feedback, a failure, or an
\* error of the bookkeeping (candidate, artifacts) that is only returned.
Record(w) ==
  /\ pc[w] = "recording"
  /\ \/ Persist(w, WithStep(copy[w], at[w], "succeeded"), "completing")
     \/ /\ at[w] \in Feedback
        /\ Persist(w, Blocked(copy[w], at[w]), "asking")
     \/ IF at[w] \in Tolerant
        THEN Persist(w, WithStep(copy[w], at[w], "skipped"), "top")
        ELSE Persist(w, FailedAt(copy[w], at[w]), "leaving")
     \/ GiveUp(w) /\ UNCHANGED <<row, age, copy>>
  /\ lost' = IF Silenced(w) THEN lost \cup {at[w]} ELSE lost
  /\ UNCHANGED <<lease, alive, questions, outputs, at, background, clerkVars,
                 granted, sessions, commands, resolved, strayed>>

\* mutant: the event is not appended
ReportSilently(w) ==
  /\ pc[w] \in {"completing", "asking"}
  /\ Goto(w, IF pc[w] = "asking" THEN "leaving" ELSE "top")
  /\ UNCHANGED <<row, age, lease, alive, questions, outputs, copy, at, background,
                 clerkVars, granted, countVars>>

\* The ToolCompleted or QuestionRequested event, appended after the save; or
\* appending it fails, and the step stays saved without it.
Report(w) ==
  /\ \/ /\ pc[w] = "completing"
        /\ outputs' = outputs \cup {at[w]}
        /\ Goto(w, "top") /\ UNCHANGED <<questions, eventVars>>
     \/ /\ pc[w] = "asking"
        /\ questions' = questions \cup {at[w]} /\ resolved' = resolved \ {at[w]}
        /\ Goto(w, "leaving") /\ UNCHANGED <<outputs, lost>>
     \/ /\ pc[w] \in {"completing", "asking"}
        /\ lost' = lost \cup {at[w]}
        /\ GiveUp(w) /\ UNCHANGED <<questions, outputs, resolved>>
  /\ UNCHANGED <<row, age, lease, alive, copy, at, background, clerkVars,
                 granted, sessions, commands, strayed>>

\* run_ready returns: the guard is dropped.
Leave(w) ==
  /\ pc[w] \in {"leaving", "erring"}
  /\ ReleaseLease(ProcOf[w])
  /\ IF pc[w] = "leaving" THEN Rest(w) ELSE Fail(w)
  /\ UNCHANGED <<row, age, alive, questions, outputs, clerkVars, granted, countVars>>

\* mark_run_failed, called by the background dispatcher: load, save, clear.
MarkLoad(w) ==
  /\ pc[w] = "marking"
  /\ IF row.status \in Terminal
     THEN Rest(w)
     ELSE /\ copy' = [copy EXCEPT ![w] = row]
          /\ Goto(w, "failing") /\ UNCHANGED <<at, background>>
  /\ UNCHANGED <<ledgerVars, clerkVars, granted, countVars>>

MarkSave(w) ==
  /\ pc[w] = "failing"
  /\ \/ /\ SaveRun(MarkedFailed(copy[w]))
        /\ Goto(w, "clearing") /\ UNCHANGED <<copy, at, background>>
     \/ /\ ~SaveAccepts(MarkedFailed(copy[w]))
        /\ Rest(w) /\ UNCHANGED <<row, age>>
  /\ UNCHANGED <<lease, alive, questions, outputs, clerkVars, granted, countVars>>

MarkClear(w) ==
  /\ pc[w] = "clearing"
  /\ ClearLease
  /\ Rest(w)
  /\ UNCHANGED <<row, age, alive, questions, outputs, clerkVars, granted, countVars>>

\* The renewal thread of the guard; its failures are only logged.
Renew(w) ==
  /\ pc[w] \in InSession /\ ~lease.live
  /\ RenewLease(ProcOf[w])
  /\ UNCHANGED <<row, age, alive, questions, outputs, workerVars, clerkVars,
                 granted, countVars>>

WorkerStep(w) ==
  \/ pc[w] = "spawned" /\ Load(w, FALSE)
  \/ Answer(w) \/ Enter(w) \/ Lease(w) \/ Top(w) \/ ResumeLoop(w)
  \/ Conclude(w) \/ (\E s \in Steps : Plan(w, s)) \/ Executed(w) \/ Record(w)
  \/ Report(w) \/ Leave(w) \/ MarkLoad(w) \/ MarkSave(w) \/ MarkClear(w)

-----------------------------------------------------------------------------
(* Steps of the callers.                                                   *)

ClerkRest(c) == /\ cpc' = [cpc EXCEPT ![c] = "idle"]
                /\ op' = [op EXCEPT ![c] = "cancel"]
                /\ ccopy' = [ccopy EXCEPT ![c] = NewRun]

\* Approve, reject and cancel load the run and check what they need.
Request(c, o) ==
  /\ cpc[c] = "idle" /\ o \in May[c] \cap {"approve", "reject", "cancel"}
  /\ commands < MaxCommands /\ commands' = commands + 1
  /\ IF o = "cancel" THEN row.status \notin Terminal
                     ELSE Decidable(row) # {}
  /\ cpc' = [cpc EXCEPT ![c] = "loaded"]
  /\ op' = [op EXCEPT ![c] = o]
  /\ ccopy' = [ccopy EXCEPT ![c] = row]
  /\ UNCHANGED <<ledgerVars, workerVars, granted, sessions, eventVars, strayed>>

\* The maintenance commands select the run; the sweep is not counted.
Select(c, o) ==
  /\ cpc[c] = "idle" /\ o \in May[c] \cap {"recover", "force", "abandon"}
  /\ IF o = "abandon"
     THEN AbandonSelects /\ UNCHANGED commands
     ELSE /\ RecoverSelects(o = "force")
          /\ commands < MaxCommands /\ commands' = commands + 1
  /\ cpc' = [cpc EXCEPT ![c] = "selected"]
  /\ op' = [op EXCEPT ![c] = o]
  /\ UNCHANGED <<ledgerVars, workerVars, ccopy, granted, sessions, eventVars, strayed>>

\* ... and load it again.
Reload(c) ==
  /\ cpc[c] = "selected"
  /\ IF StillActionable(op[c], row)
     THEN /\ cpc' = [cpc EXCEPT ![c] = "loaded"]
          /\ ccopy' = [ccopy EXCEPT ![c] = row]
          /\ UNCHANGED op
     ELSE ClerkRest(c)
  /\ UNCHANGED <<ledgerVars, workerVars, granted, countVars>>

\* The run a command writes back.
Rewrites(o, run) ==
  CASE o = "cancel"             -> {Canceled(run)}
    [] o = "abandon"            -> {Abandoned(run)}
    [] o \in {"recover", "force"} -> {Recovered(run)}
    [] o = "approve"            -> {ApprovedStep(run, a) : a \in Decidable(run)}
    [] o = "reject"             -> {RejectedStep(run, a) : a \in Decidable(run)}

\* The save; a refused one ends the command.
ClerkSave(c) ==
  /\ cpc[c] = "loaded"
  /\ \E run \in Rewrites(op[c], ccopy[c]) :
       \/ /\ SaveRun(run)
          /\ granted' = IF op[c] = "approve"
                        THEN granted \cup {ccopy[c].cur} ELSE granted
          /\ IF op[c] \in {"recover", "force", "abandon"}
             THEN cpc' = [cpc EXCEPT ![c] = "clearing"] /\ UNCHANGED <<op, ccopy>>
             ELSE ClerkRest(c)
       \/ ~SaveAccepts(run) /\ ClerkRest(c) /\ UNCHANGED <<row, age, granted>>
  /\ UNCHANGED <<lease, alive, questions, outputs, workerVars, countVars>>

\* clear_run_lease: whoever owns it.
ClerkClear(c) ==
  /\ cpc[c] = "clearing"
  /\ ClearLease
  /\ ClerkRest(c)
  /\ UNCHANGED <<row, age, alive, questions, outputs, workerVars, granted, countVars>>

ClerkStep(c) == Reload(c) \/ ClerkSave(c) \/ ClerkClear(c)

-----------------------------------------------------------------------------
(* The environment.                                                        *)

\* A process is killed: its threads stop where they are.
Crash(p) ==
  /\ p \in Mortal /\ alive[p]
  /\ alive' = [alive EXCEPT ![p] = FALSE]
  /\ pc' = [w \in Workers |-> IF ProcOf[w] = p THEN "dead" ELSE pc[w]]
  /\ copy' = [w \in Workers |-> IF ProcOf[w] = p THEN NewRun ELSE copy[w]]
  /\ at' = [w \in Workers |-> IF ProcOf[w] = p THEN 1 ELSE at[w]]
  /\ lost' = lost \cup {at[w] : w \in {v \in Workers :
                 ProcOf[v] = p /\ pc[v] \in {"completing", "asking"}}}
  /\ UNCHANGED <<row, age, lease, questions, outputs, background, clerkVars,
                 granted, sessions, commands, resolved, strayed>>

\* The process of a caller is killed between two of its transactions.
ClerkDies(c) ==
  /\ cpc[c] # "idle" /\ Mortal # {}
  /\ commands < MaxCommands /\ commands' = commands + 1
  /\ ClerkRest(c)
  /\ UNCHANGED <<ledgerVars, workerVars, granted, sessions, eventVars, strayed>>

\* expires_at passes: nobody renewed the lease for RUN_LEASE_TTL_SECONDS.
Expire ==
  /\ lease.live /\ (Naps \/ ~OwnerAlive)
  /\ lease' = [lease EXCEPT !.live = FALSE]
  /\ UNCHANGED <<row, age, alive, questions, outputs, workerVars, clerkVars,
                 granted, countVars>>

\* Time passes since the last save.
Age ==
  /\ row.status \in {"queued", "running"} /\ age < 2
  /\ age' = age + 1
  /\ UNCHANGED <<row, lease, alive, questions, outputs, workerVars, clerkVars,
                 granted, countVars>>

Next ==
  \/ \E w \in Workers : WorkerStep(w) \/ Renew(w)
                        \/ \E f \in BOOLEAN : pc[w] = "idle" /\ Load(w, f)
  \/ \E c \in Clerks : \/ ClerkStep(c) \/ ClerkDies(c)
                       \/ \E o \in Commands : Request(c, o) \/ Select(c, o)
  \/ \E p \in Procs : Crash(p)
  \/ Expire \/ Age

Spec == Init /\ [][Next]_vars

\* Threads get processor time, executors return, started commands finish, the
\* scheduler keeps sweeping, and clocks advance.  Nobody has to resume a run or
\* issue a command, and processes may die at any time.
Fairness ==
  /\ \A w \in Workers : WF_vars(WorkerStep(w))
  /\ \A c \in Clerks : WF_vars(ClerkStep(c)) /\ WF_vars(Select(c, "abandon"))
  /\ WF_vars(Expire /\ ~OwnerAlive)
  /\ WF_vars(Age)

FairSpec == Spec /\ Fairness

-----------------------------------------------------------------------------
(* Properties.                                                             *)

Executing(w) == pc[w] = "executing"

\* A finished run keeps its verdict: no late save of a runner, a command or the
\* sweep changes a terminal status (the guard of save_run).
FinalIsFinal == [][row.status \in Terminal => row'.status = row.status]_vars

\* A step that requires approval is executed only after its own approval was
\* recorded, whatever stale copies, restarts and concurrent commands do
\* (run_ready_internal, approve_step).
ApprovedBeforeExecution ==
  \A w \in Workers : Executing(w) /\ at[w] \in Approval => at[w] \in granted

\* At most one thread executes a step of the run at any time (the purpose of
\* RunLeaseGuard).
OneExecutor ==
  \A v, w \in Workers : Executing(v) /\ Executing(w) => v = w

\* While a thread executes a step of an unfinished run the ledger says so: the
\* row is that thread's copy, with the step running as the current one and its
\* dependencies settled (persist_run before execute in run_ready_internal).
RowTellsExecution ==
  \A w \in Workers : Executing(w) /\ row.status \notin Terminal =>
     /\ row = copy[w] /\ row.status = "running" /\ row.cur = at[w]
     /\ row.step[at[w]] = "running"
     /\ \A d \in Deps[at[w]] : row.step[d] \in Settled

\* A finished run shows a consistent picture: a succeeded run has no step left
\* over, and no finished run shows a running step (finish, cancel,
\* mark_run_failed, abandon_stale_runs).
FinalRowsAreSettled ==
  /\ row.status = "succeeded" => \A s \in Steps : row.step[s] \in Settled
  /\ row.status \in Terminal => \A s \in Steps : row.step[s] # "running"

\* What the ledger shows of a run, while it executes and when it is over, is what
\* happens to it.
RowIsTruthful == RowTellsExecution /\ FinalRowsAreSettled

\* A waiting run waits for something that can still be given, in whatever order
\* people resume, approve, answer and recover: an approval of its current step is
\* pending, or the question of its loop is open or answered.  Two things break
\* that.  A question is lost when its session ends between the save of the step
\* and the event.  And a run that is resumed while a step shows as running, or
\* while it waits for an approval, ends up waiting without a current step, which
\* approve_step and record_loop_feedback refuse (run_ready_internal).
Asking(s) == \E w \in Workers : pc[w] = "asking" /\ at[w] = s

WaitingIsAnswerable ==
  row.status = "waiting" =>
     \/ row.cur = NoStep /\ strayed
     \/ /\ row.cur # NoStep /\ row.step[row.cur] = "waiting"
        /\ \/ Decidable(row) # {}
           \/ /\ row.cur \in Feedback
              /\ row.cur \in questions \cup resolved \cup lost \/ Asking(row.cur)

\* A step that succeeded is not executed again while the run goes on: recovery,
\* approval and resumption keep what is done.
NoRework ==
  [][\A s \in Steps : row.step[s] = "succeeded" /\ row'.status \notin Terminal
                        => row'.step[s] = "succeeded"]_vars

\* An approval that was recorded stays recorded as long as the run is open, so
\* nobody is asked twice.
GrantsKept ==
  row.status \notin Terminal => \A s \in granted : row.appr[s] = "approved"

\* The execution plan bounds the run: a step outside of it is never executed,
\* and nothing is executed once the thread knows that the exit of a partial plan
\* is reached.  (A thread whose save of a started step is refused because the run
\* was canceled executes the step with the canceled run in its hands, whatever
\* that shows of the exit: persist_run.)
PlanIsRespected ==
  \A w \in Workers : Executing(w) =>
     /\ at[w] \in Active
     /\ Partial /\ copy[w].status = "running" => copy[w].step[Exit] \notin Settled

\* A step is executed only when the recorded outputs of its succeeded
\* dependencies can be passed to it, although a thread may have loaded its copy
\* while another one had saved a step and not yet recorded its output
\* (workflow_context_value reads them from the ToolCompleted events).  An output
\* is missing only for good: the process died between the save of its step and
\* the event, or queueing the projection or appending the event failed.
OutputsKnown ==
  \A w \in Workers : Executing(w) /\ copy[w].status = "running" =>
     \A d \in Deps[at[w]] : copy[w].step[d] = "succeeded" => d \in outputs \cup lost

\* No zombies: a queued or running run eventually waits for a person or ends,
\* even when its process dies at the worst moment.
NoZombie == (row.status \in {"queued", "running"})
               ~> (row.status \in {"waiting"} \cup Terminal)
=============================================================================
