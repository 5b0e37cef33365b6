--------------------------- MODULE ApprovalBridge ---------------------------
(***************************************************************************)
(* The approval of workflow steps: the approval manager composed with the  *)
(* bridge of src/src/app/workflow_approval.rs that turns waiting runs into *)
(* requests and decisions into run transitions, and with the commands of   *)
(* src/src/main.rs and src/src/app/commands.rs by which a person approves, *)
(* rejects or cancels.  A caller of the manager is here the coordinator    *)
(* thread of one run in one process; its approval id stands for the run.   *)
(***************************************************************************)
EXTENDS Integers, Sequences, FiniteSets

CONSTANTS Procs, Single, Listers, Mortal, Callers, Home, IdOf, Modes, Surfaces,
          Place, MaxFacts, MaxPending, MaxWords

CONSTANTS
  Consoles,   \* surfaces that are a command line
  Cancelers   \* surfaces that cancel runs

\* The first line is the bridge's, the others are the manager's.
ASSUME BridgeAssumption ==
  /\ Consoles \subseteq Surfaces /\ Cancelers \subseteq Surfaces
  /\ Single \subseteq Procs /\ Listers \subseteq Procs /\ Mortal \subseteq Procs
  /\ Home \in [Callers -> Procs] /\ Place \in [Surfaces -> Procs]
  /\ Modes \in [Callers -> SUBSET {"manual", "approve", "deny"}]
  /\ MaxFacts \in Nat \ {0} /\ MaxPending \in Nat /\ MaxWords \in Nat
  /\ \A c, d \in Callers : c # d /\ IdOf[c] = IdOf[d] => Home[c] # Home[d]

VARIABLES facts, proc, pending, doomed, pc, chan, result, late, say, words, yes

Runs == {IdOf[c] : c \in Callers}

VARIABLES
  run,        \* status of each stored run; it was saved waiting for its approval
  applying,   \* whether a coordinator is about to save its decision, or did
  task,       \* what each surface does besides the approval manager
  told,       \* history: verdicts a surface accepted, and requests to cancel
  overruled   \* history: runs that a console decided when it was refused

Waiting(r) == run[r] = "waiting"

\* Every coordinator has a cancellation callback that looks at the stored run.
M == INSTANCE Approvals WITH
       wanted <- [c \in Callers |-> Waiting(IdOf[c])],
       Stable <- Callers, Timed <- {}, Fickle <- Callers,
       Interrupts <- Cancelers # {}

bridgeVars == <<run, applying, task, told, overruled>>
managerVars == <<facts, proc, pending, doomed, pc, chan, result, late, say, words, yes>>
vars == <<managerVars, bridgeVars>>

NoTask == [do |-> "none"]

Init ==
  /\ run = [r \in Runs |-> "waiting"]
  /\ M!Init
  /\ applying = [c \in Callers |-> "nothing"]
  /\ task = [s \in Surfaces |-> NoTask]
  /\ told = [r \in Runs |-> {}] /\ overruled = {}

Verdict(word) == IF word = "yes" THEN "approved" ELSE "rejected"

\* approve_step and reject_step: the status of the run after the transition.
Decided(word) == IF word = "yes" THEN "queued" ELSE "canceled"

\* save_run: a terminal status does not change.
Saves(r, status) == run[r] = "canceled" => status = "canceled"
Save(r, status)  == run' = [run EXCEPT ![r] = IF Saves(r, status) THEN status ELSE @]

-----------------------------------------------------------------------------
(* The bridge.                                                             *)

\* The scan finds a waiting run that has no coordinator.
Scan(c) ==
  /\ Waiting(IdOf[c]) /\ applying[c] = "nothing"
  /\ UNCHANGED bridgeVars /\ M!Ask(c)

\* The coordinator has a decision and loads the run; there may be nothing left
\* to do.
\* mutant: only an approval is carried out
LoadApproved(c) ==
  /\ pc[c] = "done" /\ applying[c] = "nothing"
  /\ applying' = [applying EXCEPT ![c] =
       IF result[c] = "yes" /\ Waiting(IdOf[c]) THEN "loaded" ELSE "applied"]
  /\ UNCHANGED <<managerVars, run, task, told, overruled>>

Load(c) ==
  /\ pc[c] = "done" /\ applying[c] = "nothing"
  /\ applying' = [applying EXCEPT ![c] =
       IF result[c] \in {"yes", "no"} /\ Waiting(IdOf[c]) THEN "loaded"
                                                         ELSE "applied"]
  /\ UNCHANGED <<managerVars, run, task, told, overruled>>

\* approve_and_resume_workflow, reject_workflow: the run is saved.
Apply(c) ==
  /\ applying[c] = "loaded"
  /\ Save(IdOf[c], Decided(result[c]))
  /\ applying' = [applying EXCEPT ![c] = "applied"]
  /\ UNCHANGED <<managerVars, task, told, overruled>>

\* The coordinator ends; the run may be scanned again.
Finish(c) ==
  /\ applying[c] = "applied"
  /\ applying' = [applying EXCEPT ![c] = "nothing"]
  /\ UNCHANGED <<run, task, told, overruled>> /\ M!Again(c)

-----------------------------------------------------------------------------
(* The commands.                                                           *)

\* The answer of a surface to a request that is open.
Answer(s, r, word) ==
  /\ task[s] = NoTask
  /\ told' = [told EXCEPT ![r] = @ \cup {Verdict(word)}]
  /\ UNCHANGED <<run, applying, task, overruled>> /\ M!Respond(s, r, word)

\* respond is refused at a console, which then falls back to the run itself.
Refused(s, r, word) ==
  /\ s \in Consoles /\ M!Up(Place[s]) /\ task[s] = NoTask /\ say[s] = <<>>
  /\ M!StatusOf(r) # "pending"
  /\ words < MaxWords /\ words' = words + 1
  /\ task' = [task EXCEPT ![s] = [do |-> "refused", run |-> r, word |-> word]]
  /\ UNCHANGED <<run, applying, told, overruled, facts, proc, pending, doomed, pc,
                 chan, result, late, say, yes>>

\* The run is loaded and must wait for the approval of the step ...
FallBack(s) ==
  /\ task[s].do = "refused"
  /\ task' = [task EXCEPT ![s] =
                IF Waiting(@.run) THEN [@ EXCEPT !.do = "fallback"] ELSE NoTask]
  /\ UNCHANGED <<managerVars, run, applying, told, overruled>>

\* ... and the transition is saved.
FallBackSave(s) ==
  /\ task[s].do = "fallback"
  /\ LET r == task[s].run
         status == Decided(task[s].word)
     IN /\ Save(r, status)
        /\ told' = IF Saves(r, status)
                   THEN [told EXCEPT ![r] = @ \cup {Verdict(task[s].word)}] ELSE told
        /\ overruled' = overruled \cup {r}
  /\ task' = [task EXCEPT ![s] = NoTask]
  /\ UNCHANGED <<managerVars, applying>>

\* Cancel loads the run, saves it as canceled, and interrupts the request of the
\* step it was at when loaded: a run that waited has one, a resumed run may.
Cancel(s, r) ==
  /\ s \in Cancelers /\ M!Up(Place[s]) /\ task[s] = NoTask /\ say[s] = <<>>
  /\ run[r] # "canceled"
  /\ task' = [task EXCEPT ![s] = [do |-> "cancel", run |-> r, waited |-> Waiting(r)]]
  /\ told' = [told EXCEPT ![r] = @ \cup {"canceled"}]
  /\ UNCHANGED <<managerVars, run, applying, overruled>>

CancelSave(s) ==
  /\ task[s].do = "cancel"
  /\ Save(task[s].run, "canceled")
  /\ \E next \in {[do |-> "interrupt", run |-> task[s].run]}
                 \cup (IF task[s].waited THEN {} ELSE {NoTask}) :
        task' = [task EXCEPT ![s] = next]
  /\ UNCHANGED <<managerVars, applying, told, overruled>>

CancelInterrupt(s) ==
  /\ task[s].do = "interrupt"
  /\ task' = [task EXCEPT ![s] = NoTask]
  /\ UNCHANGED <<run, applying, told, overruled>> /\ M!Interrupt(s, task[s].run)

-----------------------------------------------------------------------------
(* Together.                                                               *)

\* A process is killed, with its coordinators and its surfaces.
Crash(p) ==
  /\ applying' = [c \in Callers |-> IF Home[c] = p THEN "nothing" ELSE applying[c]]
  /\ task' = [s \in Surfaces |-> IF Place[s] = p THEN NoTask ELSE task[s]]
  /\ UNCHANGED <<run, told, overruled>> /\ M!Crash(p)

CoordinatorStep(c) ==
  \/ UNCHANGED bridgeVars /\ M!CallerStep(c)
  \/ Scan(c) \/ Load(c) \/ Apply(c) \/ Finish(c)

Next ==
  \/ \E c \in Callers : CoordinatorStep(c)
  \/ \E s \in Surfaces :
        \/ UNCHANGED bridgeVars /\ M!Send(s)
        \/ FallBack(s) \/ FallBackSave(s) \/ CancelSave(s) \/ CancelInterrupt(s)
        \/ \E r \in Runs : \/ Cancel(s, r)
                           \/ \E w \in {"yes", "no"} : Answer(s, r, w) \/ Refused(s, r, w)
  \/ \E p \in Procs :
        \/ UNCHANGED bridgeVars /\ (M!Look(p) \/ M!Dispose(p) \/ M!Start(p))
        \/ Crash(p)

Spec == Init /\ [][Next]_vars

\* The bridge scans every second, its coordinators run, and the desktop is
\* started again after it was killed.  Nobody has to decide.
Fairness ==
  /\ \A c \in Callers : WF_vars(CoordinatorStep(c))
  /\ \A p \in Procs : WF_vars(UNCHANGED bridgeVars /\ M!Start(p))

FairSpec == Spec /\ Fairness

-----------------------------------------------------------------------------
(* Properties.                                                             *)

\* What a status means for the approval.
Outcome(status) == CASE status = "waiting"  -> "open"
                     [] status = "queued"   -> "granted"
                     [] status = "canceled" -> "ended"

\* A rule approves before the request is published.
Accepted(r) == told[r] \cup (IF r \in yes THEN {"approved"} ELSE {})

D(r) == INSTANCE ApprovalDecision WITH told <- Accepted(r), outcome <- Outcome(run[r])

\* The composition of bridge, manager and windows keeps the promise of
\* ApprovalDecision for every run: of all that answer, expire or interrupt a
\* request one verdict is accepted, and only what was accepted happens to the run
\* (request_workflow_approval_with_cancel, approve_and_resume_workflow,
\* reject_workflow, cancel_workflow_run).  Only a console that was refused may
\* overrule the verdict of its run: it falls back to the run itself.
KeepsPromise ==
  /\ \A r \in Runs : D(r)!Init
  /\ [][\A r \in Runs \ overruled' : [D(r)!Next]_<<Accepted(r), run[r]>>]_vars

\* An accepted verdict reaches its run, even when the desktop is killed between
\* the two: the next coordinator finds the durable fact
\* (request_workflow_approval_with_cancel).
DecisionIsApplied ==
  \A r \in Runs :
     (Accepted(r) \cap {"approved", "rejected"} # {} /\ Waiting(r)) ~> ~Waiting(r)
=============================================================================
