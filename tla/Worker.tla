------------------------------- MODULE Worker -------------------------------
(***************************************************************************)
(* The worker of the desktop (worker/mod.rs, execute_task and report_task  *)
(* of main.rs, store/outbox.rs) on top of its credential.  The thread of   *)
(* the heartbeat is the worker as AgentCredential has it; the main thread  *)
(* connects, replays the reports it could not send, polls for tasks and    *)
(* executes them.  A report is sent with the credential of the moment; one *)
(* that fails is stored in a directory and replayed when the worker        *)
(* connects again.                                                         *)
(***************************************************************************)
EXTENDS AgentCredential

CONSTANTS
  Tasks,         \* numbers, in the order of their ids
  MaxExecutions  \* bound: how often the dashboard offers each task

ASSUME WorkerAssumption == Tasks \subseteq Nat /\ MaxExecutions \in [Tasks -> Nat \ {0}]

VARIABLES
  board,   \* the dashboard: the execution of each task and its status
  main,    \* what the main thread does
  with,    \* the credential it polls with
  hand,    \* the task it executes and the report it makes
  queue,   \* the reports it replays
  outbox   \* the stored reports

VARIABLE
  dropped  \* history: executions whose report died with the process, or was too large

taskVars == <<board, main, with, hand, queue, outbox, dropped>>

Executions == UNION {1 .. MaxExecutions[t] : t \in Tasks}
Statuses   == {"running", "done"}
Reports    == [task : Tasks, exec : Executions, status : Statuses]
NoHand     == [do |-> "nothing"]
Hands      == {NoHand} \cup
  [do : {"post", "store", "prune", "clean", "work"}, task : Tasks, exec : Executions,
   status : Statuses]

SameExecution(r, s) == r.task = s.task /\ r.exec = s.exec
Making(t, e) == \E w \in Workers : hand[w] # NoHand /\ hand[w].task = t /\ hand[w].exec = e

\* Without a death in between an execution has one report in the outbox at most,
\* when no report is being made.
WorkerTypeOK ==
  /\ board \in [Tasks -> [exec : Executions, status : {"open", "leased"} \cup Statuses]]
  /\ main \in [Workers -> {"connecting", "replaying", "polling"}]
  /\ with \in [Workers -> {None} \cup Credentials]
  /\ hand \in [Workers -> Hands]
  /\ queue \in [Workers -> SUBSET Reports] /\ outbox \subseteq Reports
  /\ \A r, s \in outbox : (SameExecution(r, s) /\ r # s) =>
       Making(r.task, r.exec) \/ <<r.task, r.exec>> \in dropped
  /\ dropped \subseteq Tasks \X Executions

WorkerInit ==
  /\ Init
  /\ board = [t \in Tasks |-> [exec |-> 1, status |-> "open"]]
  /\ main = [w \in Workers |-> "connecting"] /\ with = [w \in Workers |-> None]
  /\ hand = [w \in Workers |-> NoHand] /\ queue = [w \in Workers |-> {}]
  /\ outbox = {} /\ dropped = {}

-----------------------------------------------------------------------------
(* What the dashboard does with a report.                                  *)

\* A report of an execution that ended or was superseded is a conflict.
Current(r) == board[r.task].exec = r.exec /\ board[r.task].status # "done"

Known(r) == board' = [board EXCEPT ![r.task].status = r.status]

\* The report is accepted; it is refused; no answer comes, whether it arrived or not.
Accepted(w, r) == server = copy[w].credential /\ Current(r) /\ Known(r) /\ UNCHANGED faults
Conflict(w, r) == server = copy[w].credential /\ ~Current(r) /\ UNCHANGED <<board, faults>>
Denied(w, r)   == server # copy[w].credential /\ UNCHANGED <<board, faults>>
Lost(w, r)     == /\ Fault
                  /\ \/ UNCHANGED board
                     \/ server = copy[w].credential /\ Current(r) /\ Known(r)

-----------------------------------------------------------------------------
(* The main thread: run_loop, flush_report_outbox.                         *)

\* The reports are listed once, when the heartbeat has shown the credential valid.
Connect(w) ==
  /\ main[w] = "connecting" /\ phase[w] = "online"
  /\ main' = [main EXCEPT ![w] = "replaying"]
  /\ with' = [with EXCEPT ![w] = copy[w].credential]
  /\ queue' = [queue EXCEPT ![w] = outbox]
  /\ UNCHANGED <<vars, board, hand, outbox, dropped>>

\* The order of the file names: task, execution, and "finished" before "running".
Before(r, s) ==
  \/ r.task < s.task
  \/ r.task = s.task /\ r.exec < s.exec
  \/ r.task = s.task /\ r.exec = s.exec /\ (r.status = "done" \/ s = r)

\* mutant: a conflict ends the replay
GoesOnOnSuccess(w, r) == Accepted(w, r)

GoesOn(w, r) == Accepted(w, r) \/ Conflict(w, r)

\* What was accepted and what is stale is removed; any other failure ends the replay.
Replay(w) ==
  /\ main[w] = "replaying"
  /\ \/ /\ queue[w] = {} /\ main' = [main EXCEPT ![w] = "polling"]
        /\ UNCHANGED <<board, queue, outbox, faults>>
     \/ \E r \in queue[w] :
          /\ \A s \in queue[w] : Before(r, s)
          /\ \/ /\ GoesOn(w, r) /\ outbox' = outbox \ {r}
                /\ queue' = [queue EXCEPT ![w] = @ \ {r}] /\ UNCHANGED main
             \/ /\ Denied(w, r) \/ Lost(w, r)
                /\ queue' = [queue EXCEPT ![w] = {}]
                /\ main' = [main EXCEPT ![w] = "polling"] /\ UNCHANGED outbox
  /\ UNCHANGED <<server, file, phase, copy, polls, renewed, late, made, base, forfeited,
                 with, hand, dropped>>

Poll(w) ==
  /\ main[w] = "polling" /\ hand[w] = NoHand /\ with[w] = server
  /\ \E t \in Tasks :
       /\ board[t].status = "open"
       /\ board' = [board EXCEPT ![t].status = "leased"]
       /\ hand' = [hand EXCEPT ![w] =
            [do |-> "post", task |-> t, exec |-> board[t].exec, status |-> "running"]]
  /\ UNCHANGED <<vars, main, with, queue, outbox, dropped>>

\* The identity changed, the poll is refused, or the worker is started again.  Once
\* the heartbeat thread fell silent polling goes on, until that credential is refused.
Reconnect(w) ==
  /\ main[w] = "polling" /\ hand[w] = NoHand /\ phase[w] # "silent"
  /\ main' = [main EXCEPT ![w] = "connecting"]
  /\ UNCHANGED <<vars, board, with, hand, queue, outbox, dropped>>

-----------------------------------------------------------------------------
(* execute_task, and report_task within it.                                *)

Busy(w, what) == hand[w].do = what
Report(w)     == [task |-> hand[w].task, exec |-> hand[w].exec, status |-> hand[w].status]
Does(w, what) == hand' = [hand EXCEPT ![w].do = what]
Ends(w)       == hand' = [hand EXCEPT ![w] = NoHand]
Same(h)       == {r \in outbox : r.task = h.task /\ r.exec = h.exec}

PostReport(w) ==
  /\ Busy(w, "post")
  /\ \/ Accepted(w, Report(w)) /\ Does(w, "clean")
     \/ /\ Conflict(w, Report(w)) \/ Denied(w, Report(w)) \/ Lost(w, Report(w))
        /\ Does(w, "store")
  /\ UNCHANGED <<server, file, phase, copy, polls, renewed, late, made, base, forfeited,
                 main, with, queue, outbox, dropped>>

\* The task goes on after its first report, and ends with the last one.
AfterReport(w) == IF hand[w].status = "running" THEN Does(w, "work") ELSE Ends(w)

\* store_report; a report that is too large or a full disk is an error of the task.
Store(w) ==
  /\ Busy(w, "store")
  /\ \/ /\ outbox' = outbox \cup {Report(w)} /\ Does(w, "prune")
        /\ UNCHANGED <<faults, dropped>>
     \/ /\ Fault /\ Ends(w) /\ UNCHANGED outbox
        /\ dropped' = dropped \cup {<<hand[w].task, hand[w].exec>>}
  /\ UNCHANGED <<server, file, phase, copy, polls, renewed, late, made, base, forfeited,
                 board, main, with, queue>>

\* mutant: nothing is removed
PrunedNothing(w) == {}

\* mutant: the report that was just stored is removed as well
PrunedAll(w) == Same(hand[w])

\* remove_reports_for_execution, but for the one that was just stored.
Pruned(w) == Same(hand[w]) \ {Report(w)}

Prune(w) ==
  /\ Busy(w, "prune") /\ outbox' = outbox \ Pruned(w) /\ AfterReport(w)
  /\ UNCHANGED <<vars, board, main, with, queue, dropped>>

Clean(w) ==
  /\ Busy(w, "clean") /\ outbox' = outbox \ Same(hand[w]) /\ AfterReport(w)
  /\ UNCHANGED <<vars, board, main, with, queue, dropped>>

\* The task comes to its end; or it is refused or cannot be read, without a report.
Finish(w) ==
  /\ Busy(w, "work")
  /\ \/ hand' = [hand EXCEPT ![w].do = "post", ![w].status = "done"] /\ UNCHANGED dropped
     \/ Ends(w) /\ dropped' = dropped \cup {<<hand[w].task, hand[w].exec>>}
  /\ UNCHANGED <<vars, board, main, with, queue, outbox>>

-----------------------------------------------------------------------------

\* The lease of an execution ends; the dashboard offers the task again.
Expire(t) ==
  /\ board[t].status \in {"leased", "running"} /\ board[t].exec < MaxExecutions[t]
  /\ board' = [board EXCEPT ![t] = [exec |-> @.exec + 1, status |-> "open"]]
  /\ UNCHANGED <<vars, main, with, hand, queue, outbox, dropped>>

\* The process dies with both threads.
Die(w) ==
  /\ Crash(w)
  /\ main' = [main EXCEPT ![w] = "connecting"] /\ queue' = [queue EXCEPT ![w] = {}]
  /\ Ends(w)
  /\ dropped' = dropped \cup
       (IF hand[w] = NoHand THEN {} ELSE {<<hand[w].task, hand[w].exec>>})
  /\ UNCHANGED <<board, with, outbox>>

MainStep(w) ==
  \/ Connect(w) \/ Replay(w) \/ Poll(w)
  \/ PostReport(w) \/ Store(w) \/ Prune(w) \/ Clean(w) \/ Finish(w)

WorkerNext ==
  \/ UNCHANGED taskVars /\ (\E c \in Clients : Step(c) \/ (c \notin Workers /\ Crash(c)))
  \/ UNCHANGED taskVars /\ (\E r \in late : Arrives(r))
  \/ \E w \in Workers : MainStep(w) \/ Reconnect(w) \/ Die(w)
  \/ \E t \in Tasks : Expire(t)

\* The threads of the worker go on.  It connects again at the latest when its
\* credential is rotated, every 30 days, but for a heartbeat thread that fell silent.
WorkerSpec ==
  /\ WorkerInit /\ [][WorkerNext]_<<vars, taskVars>>
  /\ \A w \in Workers :
       /\ WF_<<vars, taskVars>>((Work(w) \/ Leave(w)) /\ UNCHANGED taskVars)
       /\ WF_<<vars, taskVars>>(MainStep(w)) /\ WF_<<vars, taskVars>>(Reconnect(w))

-----------------------------------------------------------------------------
(* Properties.                                                             *)

Told(t, e)   == board[t].exec > e \/ board[t].status = "done"
Stored(t, e) == \E r \in outbox : r.task = t /\ r.exec = e /\ r.status = "done"

\* What the worker did for the dashboard is never forgotten: an execution that
\* was leased is still in hand, or its end is known to the dashboard or stored,
\* unless the process died in it, it ended without a report, or the report could
\* not be stored.
EndIsKept ==
  \A t \in Tasks : \A e \in 1 .. board[t].exec :
    \/ e = board[t].exec /\ board[t].status = "open"
    \/ Told(t, e) \/ Stored(t, e) \/ Making(t, e) \/ <<t, e>> \in dropped

\* A stored result reaches the dashboard, unless its execution is superseded
\* first, the device lost its credential, or the heartbeat thread of the worker
\* fell silent, so that it polls and does not connect again.
ResultArrives ==
  \A t \in Tasks, e \in Executions :
    Stored(t, e) ~> \/ ~Stored(t, e) /\ Told(t, e)
                    \/ forfeited # {} \/ (\E p \in Pages : Unsaved(p))
                    \/ \E w \in Workers : phase[w] = "silent" /\ polls[w] = server
=============================================================================
