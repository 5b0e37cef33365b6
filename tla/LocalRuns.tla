----------------------------- MODULE LocalRuns -----------------------------
(***************************************************************************)
(* The local run ledger, src/src/store/local_runs.rs, as the workflow      *)
(* runner uses it for one run: the row of local_runs, the row of           *)
(* local_run_leases and the two facts of the event log that later          *)
(* decisions read.  Every SQLite transaction of the code is one operator   *)
(* here, so the modules that EXTEND this one interleave at transactions.   *)
(***************************************************************************)
EXTENDS Integers, FiniteSets

CONSTANTS
  NumSteps,     \* number of steps of the package; a step is its position
  Approval,     \* the steps declared approval_required
  Active,       \* the steps of the execution plan
  Procs,        \* operating system processes (identified by their pid)
  NoProc        \* no lease owner

ASSUME LedgerAssumption ==
  /\ NumSteps \in Nat \ {0}
  /\ Approval \subseteq 1..NumSteps
  /\ Active \subseteq 1..NumSteps
  /\ NoProc \notin Procs

Steps  == 1..NumSteps
NoStep == 0                \* the empty current_step_id

RunStatus  == {"queued", "running", "waiting", "succeeded", "failed", "canceled"}
StepStatus == {"pending", "running", "waiting", "succeeded", "failed",
               "canceled", "skipped"}
ApprovalStatus == {"none", "pending", "approved", "rejected", "interrupted"}

\* LocalRunStatus::is_terminal
Terminal == {"succeeded", "failed", "canceled"}
\* The step states that satisfy a dependency.
Settled  == {"succeeded", "skipped"}

\* LocalRun: what is serialised into local_runs.payload_json.
Runs == [status : RunStatus, cur : Steps \cup {NoStep},
         step : [Steps -> StepStatus], appr : [Steps -> ApprovalStatus]]

\* A run just created by WorkflowRunner::start_with_parent_kind.  A step
\* outside the execution plan starts out skipped, and only the active steps
\* that require approval have an approval record.
NewRun ==
  [status |-> "queued", cur |-> NoStep,
   step |-> [s \in Steps |-> IF s \in Active THEN "pending" ELSE "skipped"],
   appr |-> [s \in Steps |-> IF s \in Approval \cap Active
                             THEN "pending" ELSE "none"]]

VARIABLES
  row,        \* the stored run
  age,        \* of its updated_at: 0 fresh, 1 past the grace, 2 past 15 graces
  lease,      \* owner, and whether expires_at is still in the future
  alive,      \* the processes that run
  questions,  \* steps whose latest QuestionRequested event is unresolved
  outputs     \* steps with a ToolCompleted event

ledgerVars == <<row, age, lease, alive, questions, outputs>>

NoLease == [owner |-> NoProc, live |-> FALSE]

LedgerTypeOK ==
  /\ row \in Runs
  /\ age \in 0..2
  /\ lease \in [owner : Procs \cup {NoProc}, live : BOOLEAN]
  /\ alive \in [Procs -> BOOLEAN]
  /\ questions \subseteq Steps
  /\ outputs \subseteq Steps

LedgerInit ==
  /\ row = NewRun
  /\ age = 0
  /\ lease = NoLease
  /\ alive = [p \in Procs |-> TRUE]
  /\ questions = {}
  /\ outputs = {}

-----------------------------------------------------------------------------
(* save_run: one immediate transaction that compares the stored status and *)
(* then writes the whole payload.  The last writer wins, except that a     *)
(* terminal status never changes.                                          *)

\* mutant: save_run without its status check
SaveAcceptsAll(run) == TRUE

SaveAccepts(run) == row.status \in Terminal => run.status = row.status

SaveRun(run) ==
  /\ SaveAccepts(run)
  /\ row' = run
  /\ age' = 0

(* The lease.  Its owner string is built from the pid and the run id, so   *)
(* all threads of a process are one owner.                                 *)

\* First statement of acquire_run_lease.
Leasable == row.status \in {"queued", "running", "waiting"}

\* Condition of its upsert: no row, our own row, or an expired one.
\* mutant: the upsert without its WHERE clause
LeaseFreeAlways(p) == TRUE

LeaseFree(p) == lease.owner \in {NoProc, p} \/ ~lease.live

TakeLease(p)    == LeaseFree(p) /\ lease' = [owner |-> p, live |-> TRUE]
RenewLease(p)   == lease.owner = p /\ lease' = [lease EXCEPT !.live = TRUE]
ReleaseLease(p) == lease' = IF lease.owner = p THEN NoLease ELSE lease
ClearLease      == lease' = NoLease

OwnerAlive == lease.owner # NoProc /\ alive[lease.owner]

(* The three maintenance operations first select the row, then load it     *)
(* again, save it and clear the lease, in separate transactions.           *)

\* recover_running_runs(force): the SELECT and the owner check.
RecoverSelects(force) ==
  /\ row.status = "running"
  /\ force \/ (lease.owner # NoProc /\ ~lease.live /\ ~OwnerAlive)

\* abandon_stale_runs: the SELECT and the owner check.
\* mutant of AbandonSelects: JOIN instead of LEFT JOIN, so a run without lease is not found
AbandonSelectsLeased ==
  /\ row.status \in {"running", "queued"}
  /\ lease.owner # NoProc /\ ~lease.live
  /\ age >= (IF row.status = "queued" THEN 2 ELSE 1)
  /\ ~OwnerAlive

AbandonSelects ==
  /\ row.status \in {"running", "queued"}
  /\ ~lease.live
  /\ age >= (IF row.status = "queued" THEN 2 ELSE 1)
  /\ ~OwnerAlive

\* What the second load of each operation accepts.
StillActionable(op, run) ==
  CASE op \in {"recover", "force"} -> run.status = "running"
    [] op = "abandon"              -> run.status \in {"running", "queued"}

\* recover_running_runs: interrupted steps become pending, the run queued.
\* mutant: the whole run starts over
RecoveredFromScratch(run) ==
  [run EXCEPT !.status = "queued", !.cur = NoStep, !.step = NewRun.step]

\* mutant: the run is rebuilt with its steps only
RecoveredStepsOnly(run) ==
  [NewRun EXCEPT !.step = [s \in Steps |-> IF run.step[s] = "running"
                                           THEN "pending" ELSE run.step[s]]]

Recovered(run) ==
  [run EXCEPT !.status = "queued", !.cur = NoStep,
     !.step = [s \in Steps |-> IF run.step[s] = "running"
                               THEN "pending" ELSE run.step[s]]]

\* mark_run_failed: interrupted steps fail with the run.
MarkedFailed(run) ==
  [run EXCEPT !.status = "failed", !.cur = NoStep,
     !.step = [s \in Steps |-> IF run.step[s] = "running"
                               THEN "failed" ELSE run.step[s]]]

\* abandon_stale_runs: as above, and the pending steps of a run nobody
\* dispatched are shown as skipped.
Abandoned(run) ==
  [run EXCEPT !.status = "failed", !.cur = NoStep,
     !.step = [s \in Steps |->
        IF run.step[s] = "running" THEN "failed"
        ELSE IF run.step[s] = "pending" /\ run.status = "queued" THEN "skipped"
        ELSE run.step[s]]]
=============================================================================
