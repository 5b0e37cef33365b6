----------------------------- MODULE Scheduler -----------------------------
(***************************************************************************)
(* The schedules of src/src/scheduler.rs: one file of schedules, the       *)
(* thread of the desktop that dispatches what is due, and the windows,     *)
(* consoles and MCP processes that list, set and delete schedules.  Nobody *)
(* locks the file: everybody loads all of it, changes his copy, and saves  *)
(* all of it.                                                              *)
(***************************************************************************)
EXTENDS Integers, Sequences, FiniteSets

CONSTANTS
  Schedules,   \* the ids of schedules, in the order of the file
  Flow,        \* the workflow a schedule starts
  Every,       \* the distance of its occurrences (its cron expression)
  Clients,     \* the windows, consoles and MCP processes
  Recent,      \* how many runs, by their last save, the busy check looks at
  MaxTime,     \* bound: clock
  MaxCalls,    \* bound: calls of list, set and delete
  MaxActs,     \* bound: these calls and the runs that a person starts
  MaxFaults    \* bound: crashes of the desktop and dispatches that fail

ASSUME SchedulerAssumption ==
  /\ Schedules \subseteq Nat \ {0}
  /\ Every \in [Schedules -> Nat \ {0}]
  /\ {Recent, MaxTime, MaxCalls, MaxActs, MaxFaults} \subseteq Nat

VARIABLES
  now,      \* the clock
  file,     \* the stored schedules
  runs,     \* the runs of the ledger, in the order in which they began
  tick,     \* the scheduler thread, with its copy of the file
  client    \* the clients, with their copies

VARIABLES
  calls, starts, faults,  \* counters for the bounds
  served,   \* history: the occurrences that were attempted
  cut,      \* history: ticks cut off by a crash
  over,     \* history: saves over a newer file
  unread    \* history: dispatches without an answer of the ledger

clientSide == <<client, calls>>
vars == <<now, file, runs, tick, clientSide, starts, faults, served, cut, over, unread>>

Flows   == {Flow[s] : s \in Schedules}
Gone    == [stored |-> FALSE]   \* no schedule of this id
Nothing == [s \in Schedules |-> Gone]
Unset   == 0                    \* next_run_at is empty
NoRun   == 0                    \* last_run_id is empty
NoItem  == 0                    \* no schedule is being dispatched
Person  == 0                    \* a run that no schedule started

\* CronExpression::next_after: the first occurrence after t.
NextAfter(s, t) == (t \div Every[s] + 1) * Every[s]

Present(f) == {s \in Schedules : f[s] # Gone}
Due(item, t) == item.enabled /\ item.next # Unset /\ item.next <= t

Statuses  == {"running", "waiting", "ended"}   \* queued counts as running
Live(run) == run.status # "ended"

\* list_runs: the runs that were saved last; of those saved in one second any.
Newest ==
  {R \in SUBSET DOMAIN runs :
     /\ Cardinality(R) = IF Len(runs) < Recent THEN Len(runs) ELSE Recent
     /\ \A i \in R, k \in DOMAIN runs \ R : runs[k].saved <= runs[i].saved}

\* mutant: nobody asks the ledger.
BusyNever(flow, R) == FALSE

\* busy_run_in: an unfinished run of this workflow among those read.
Busy(flow, R) == \E i \in R : runs[i].flow = flow /\ Live(runs[i])

\* History: the unfinished runs of the workflow that need not be among those
\* read, since as many others were saved no earlier.
Overlooked(flow) ==
  {i \in DOMAIN runs :
     /\ runs[i].flow = flow /\ Live(runs[i])
     /\ Cardinality({k \in DOMAIN runs \ {i} : runs[k].saved >= runs[i].saved}) >= Recent}

Schedule == [stored : {TRUE}, enabled : BOOLEAN, next : Nat, run : Nat, postponed : BOOLEAN,
             status : {"", "accepted", "failed"} \cup Statuses, edit : 0 .. MaxCalls]
Files    == [Schedules -> Schedule \cup {Gone}]

\* Every copy is a file, only what is due is dispatched, and a schedule names a
\* run that it started itself: the states of run_due, list, set and delete.
TypeOK ==
  /\ now \in 0 .. MaxTime
  /\ file \in Files /\ tick.copy \in Files /\ tick.read \in Files
  /\ \A i \in DOMAIN runs :
       runs[i] \in [flow : Flows, by : Schedules \cup {Person}, due : 0 .. MaxTime,
                    edit : 0 .. MaxCalls, status : Statuses,
                    saved : 0 .. MaxTime, threaded : BOOLEAN, missed : SUBSET Nat]
  /\ \A s \in Present(file) :
       file[s].run = NoRun \/ (file[s].run \in DOMAIN runs /\ runs[file[s].run].by = s)
  /\ tick.at \in {"asleep", "scan", "dispatch"} /\ tick.todo \subseteq Schedules
  /\ tick.at = "dispatch" => tick.item \in tick.todo /\ Due(tick.copy[tick.item], tick.now)
  /\ \A c \in Clients : client[c].at \in {"idle", "save"} /\ client[c].copy \in Files
  /\ cut \in 0 .. MaxFaults /\ unread \in 0 .. MaxFaults /\ over \in Nat

Asleep == [at |-> "asleep", now |-> 0, read |-> Nothing, copy |-> Nothing,
           todo |-> {}, item |-> NoItem, changed |-> FALSE, missed |-> {}]
Idle   == [at |-> "idle", read |-> Nothing, copy |-> Nothing]

\* A schedule as set() leaves it at time t; what is known of its runs stays.
SetAt(s, old, on, t, edit) ==
  LET base == IF old = Gone
              THEN [stored |-> TRUE, enabled |-> on, next |-> Unset, run |-> NoRun,
                    postponed |-> FALSE, status |-> "", edit |-> edit]
              ELSE old
  IN [base EXCEPT !.enabled = on, !.next = NextAfter(s, t), !.postponed = FALSE, !.edit = edit]

\* The schedules exist; some have no next occurrence yet (a migrated file).
Init ==
  /\ now = 0
  /\ \E unset \in SUBSET Schedules :
       file = [s \in Schedules |-> IF s \in unset
                                   THEN [SetAt(s, Gone, TRUE, 0, 0) EXCEPT !.next = Unset]
                                   ELSE SetAt(s, Gone, TRUE, 0, 0)]
  /\ runs = <<>>
  /\ tick = Asleep /\ client = [c \in Clients |-> Idle]
  /\ calls = 0 /\ starts = 0 /\ faults = 0
  /\ served = {} /\ cut = 0 /\ over = 0 /\ unread = 0

\* save(): the whole file is replaced, whatever happened to it since it was read.
Save(read, copy) ==
  /\ file' = copy
  /\ over' = IF file = read THEN over ELSE over + 1

NewRun(flow, by, due, edit, threaded, missed) ==
  [flow |-> flow, by |-> by, due |-> due, edit |-> edit, status |-> "running", saved |-> now,
   threaded |-> threaded, missed |-> missed]

-----------------------------------------------------------------------------
(* The scheduler thread: run_due.                                          *)

\* The file is read, and what the clock alone decides is decided: a schedule
\* without a next occurrence gets one and does not fire in this tick.
Completed(s, t) == IF file[s] # Gone /\ file[s].next = Unset
                   THEN [file[s] EXCEPT !.next = NextAfter(s, t)] ELSE file[s]

Wake ==
  LET copy == [s \in Schedules |-> Completed(s, now)] IN
  /\ tick.at = "asleep" /\ Present(file) # {}
  /\ tick' = [at |-> "scan", now |-> now, read |-> file, copy |-> copy,
              todo |-> {s \in Present(file) : Due(file[s], now)},
              item |-> NoItem, changed |-> copy # file, missed |-> {}]
  /\ UNCHANGED <<now, file, runs, clientSide, starts, faults, served, cut, over, unread>>

\* A schedule is done with: it is written to the copy.
Scanned(s, item, changed) ==
  [tick EXCEPT !.at = "scan", !.copy[s] = item, !.todo = @ \ {s}, !.item = NoItem,
               !.changed = @ \/ changed, !.missed = {}]

\* The loop goes through the file, which is sorted by id.
IsNext(s) == tick.at = "scan" /\ s \in tick.todo /\ \A other \in tick.todo : s <= other

\* mutant: what cannot start now is skipped.
PostponedByOne(s, noted) ==
  Scanned(s, [tick.copy[s] EXCEPT !.postponed = TRUE, !.next = NextAfter(s, tick.now)], TRUE)

\* A run of the workflow is unfinished: the occurrence waits, next_run_at stays.
\* A note that names the same run already is not written again.
Postponed(s, noted) == Scanned(s, [tick.copy[s] EXCEPT !.postponed = TRUE], ~noted)

Postpone(s) ==
  /\ IsNext(s)
  /\ \E R \in Newest : Busy(Flow[s], R)
  /\ \E noted \in {FALSE, tick.copy[s].postponed} : tick' = Postponed(s, noted)
  /\ UNCHANGED <<now, file, runs, clientSide, starts, faults, served, cut, over, unread>>

Claim(s) ==
  /\ IsNext(s)
  /\ \E R \in Newest : ~Busy(Flow[s], R)
  /\ tick' = [tick EXCEPT !.at = "dispatch", !.item = s, !.missed = Overlooked(Flow[s])]
  /\ UNCHANGED <<now, file, runs, clientSide, starts, faults, served, cut, over, unread>>

\* The ledger cannot be read, which keeps nobody from dispatching.
ClaimUnread(s) ==
  /\ IsNext(s)
  /\ faults < MaxFaults /\ faults' = faults + 1
  /\ unread' = unread + 1
  /\ tick' = [tick EXCEPT !.at = "dispatch", !.item = s]
  /\ UNCHANGED <<now, file, runs, clientSide, starts, served, cut, over>>

\* mutants: the dispatch does not advance the schedule...
DispatchedInPlace(s, run, status) ==
  Scanned(s, [tick.copy[s] EXCEPT !.run = run, !.status = status, !.postponed = FALSE], TRUE)

\* ... or names the last run it saw.
DispatchedByGuess(s, run, status) ==
  Scanned(s, [tick.copy[s] EXCEPT !.run = Len(runs), !.status = status, !.postponed = FALSE,
                                  !.next = NextAfter(s, tick.now)], TRUE)

\* The schedule after its dispatch: the next occurrence is after the tick.
Dispatched(s, run, status) ==
  Scanned(s, [tick.copy[s] EXCEPT !.run = run, !.status = status, !.postponed = FALSE,
                                  !.next = NextAfter(s, tick.now)], TRUE)

Occurrence(s) == <<s, tick.copy[s].edit, tick.copy[s].next>>

\* Preflight, the run's row, and the thread that executes it.
Dispatch(s) ==
  /\ tick.at = "dispatch" /\ s = tick.item
  /\ runs' = Append(runs, NewRun(Flow[s], s, tick.copy[s].next, tick.copy[s].edit, TRUE,
                                tick.missed))
  /\ tick' = Dispatched(s, Len(runs'), "accepted")
  /\ served' = served \cup {Occurrence(s)}
  /\ UNCHANGED <<now, file, clientSide, starts, faults, cut, over, unread>>

\* The preset it refers to is gone or unreadable: the occurrence is over, and
\* nobody asks whether a run is unfinished.
Skip(s) ==
  /\ IsNext(s)
  /\ faults < MaxFaults /\ faults' = faults + 1
  /\ tick' = Dispatched(s, NoRun, "failed")
  /\ served' = served \cup {Occurrence(s)}
  /\ UNCHANGED <<now, file, runs, clientSide, starts, cut, over, unread>>

\* The dispatch fails (preflight, database): the occurrence is over.
DispatchFails(s) ==
  /\ tick.at = "dispatch" /\ s = tick.item
  /\ faults < MaxFaults /\ faults' = faults + 1
  /\ tick' = Dispatched(s, NoRun, "failed")
  /\ served' = served \cup {Occurrence(s)}
  /\ UNCHANGED <<now, file, runs, clientSide, starts, cut, over, unread>>

\* The database is locked once the row is saved: dispatch_with_retry starts over
\* and leaves behind a queued run that no thread executes.
DispatchRetries(s) ==
  /\ tick.at = "dispatch" /\ s = tick.item
  /\ faults < MaxFaults /\ faults' = faults + 1
  /\ runs' = Append(runs, NewRun(Flow[s], s, tick.copy[s].next, tick.copy[s].edit, FALSE,
                                tick.missed))
  /\ UNCHANGED <<now, file, tick, clientSide, starts, served, cut, over, unread>>

SaveTick ==
  /\ tick.at = "scan" /\ tick.todo = {}
  /\ IF tick.changed THEN Save(tick.read, tick.copy) ELSE UNCHANGED <<file, over>>
  /\ tick' = Asleep
  /\ UNCHANGED <<now, runs, clientSide, starts, faults, served, cut, unread>>

\* The desktop dies in a tick and is started again; what it had dispatched is in
\* the ledger, and the file does not know.
CrashTick ==
  /\ tick.at # "asleep"
  /\ faults < MaxFaults /\ faults' = faults + 1
  /\ tick' = Asleep /\ cut' = cut + 1
  /\ UNCHANGED <<now, file, runs, clientSide, starts, served, over, unread>>

-----------------------------------------------------------------------------
(* The clients: list, set, delete.                                         *)

\* list(): completes next_run_at, and copies the state of the last run.
Listed(s, t) ==
  LET item   == file[s]
      timed  == IF item.next = Unset THEN [item EXCEPT !.next = NextAfter(s, t)] ELSE item
  IN IF timed.run = NoRun THEN timed
     ELSE [timed EXCEPT !.status = runs[timed.run].status, !.postponed = FALSE]

List(c) ==
  LET copy == [s \in Schedules |-> IF file[s] = Gone THEN Gone ELSE Listed(s, now)] IN
  /\ client[c].at = "idle" /\ calls < MaxCalls /\ calls + starts < MaxActs /\ calls' = calls + 1
  /\ copy # file
  /\ client' = [client EXCEPT ![c] = [at |-> "save", read |-> file, copy |-> copy]]
  /\ UNCHANGED <<now, file, runs, tick, starts, faults, served, cut, over, unread>>

Set(c, s) ==
  \E on \in BOOLEAN :
    /\ client[c].at = "idle" /\ calls < MaxCalls /\ calls + starts < MaxActs /\ calls' = calls + 1
    /\ client' = [client EXCEPT ![c] =
         [at |-> "save", read |-> file,
          copy |-> [file EXCEPT ![s] = SetAt(s, @, on, now, calls')]]]
    /\ UNCHANGED <<now, file, runs, tick, starts, faults, served, cut, over, unread>>

Delete(c, s) ==
  /\ client[c].at = "idle" /\ calls < MaxCalls /\ calls + starts < MaxActs /\ calls' = calls + 1
  /\ file[s] # Gone
  /\ client' = [client EXCEPT ![c] =
       [at |-> "save", read |-> file, copy |-> [file EXCEPT ![s] = Gone]]]
  /\ UNCHANGED <<now, file, runs, tick, starts, faults, served, cut, over, unread>>

SaveClient(c) ==
  /\ client[c].at = "save"
  /\ Save(client[c].read, client[c].copy)
  /\ client' = [client EXCEPT ![c] = Idle]
  /\ UNCHANGED <<now, runs, tick, calls, starts, faults, served, cut, unread>>

-----------------------------------------------------------------------------
(* The world: a person starts a workflow, runs go on, time passes.         *)

StartRun(flow) ==
  /\ calls + starts < MaxActs /\ starts' = starts + 1
  /\ runs' = Append(runs, NewRun(flow, Person, 0, 0, TRUE, {}))
  /\ UNCHANGED <<now, file, tick, clientSide, faults, served, cut, over, unread>>

\* An unfinished run is saved: it goes on, waits for a person, is answered, or
\* ends.  A row without a thread only ends (the sweep, or a person), and nobody
\* saves a run that goes on waiting.
SaveRun(i, status) ==
  /\ i \in DOMAIN runs /\ Live(runs[i])
  /\ runs[i].threaded \/ status = "ended"
  /\ status = runs[i].status => status = "running" /\ runs[i].saved < now
  /\ runs' = [runs EXCEPT ![i].status = status, ![i].saved = now]
  /\ UNCHANGED <<now, file, tick, clientSide, starts, faults, served, cut, over, unread>>

Pass ==
  /\ now < MaxTime /\ now' = now + 1
  /\ UNCHANGED <<file, runs, tick, clientSide, starts, faults, served, cut, over, unread>>

Ticker ==
  Wake \/ (\E s \in Schedules : Postpone(s) \/ Claim(s) \/ Dispatch(s)) \/ SaveTick

Next ==
  \/ Wake \/ SaveTick \/ CrashTick
  \/ \E s \in Schedules : \/ Postpone(s) \/ Claim(s) \/ Dispatch(s)
                         \/ ClaimUnread(s) \/ Skip(s) \/ DispatchFails(s) \/ DispatchRetries(s)
  \/ \E c \in Clients : List(c) \/ SaveClient(c)
  \/ \E c \in Clients, s \in Schedules : Set(c, s) \/ Delete(c, s)
  \/ \E flow \in Flows : StartRun(flow)
  \/ \E i \in DOMAIN runs, status \in Statuses : SaveRun(i, status)
  \/ Pass

Spec == Init /\ [][Next]_vars

\* A run that is queued or running ends or waits for a person at last: threads
\* return, and the sweep fails what nobody executes.  It leaves waiting runs alone.
Settle(flow) ==
  \E i \in DOMAIN runs, status \in {"waiting", "ended"} :
    runs[i].flow = flow /\ runs[i].status = "running" /\ SaveRun(i, status)

\* The thread of the desktop ticks forever, a client saves what it changed, and
\* time passes.  No person has to answer a run that waits.
FairSpec ==
  /\ Spec /\ WF_vars(Ticker) /\ WF_vars(Pass)
  /\ \A c \in Clients : WF_vars(SaveClient(c))
  /\ \A flow \in Flows : WF_vars(Settle(flow))

-----------------------------------------------------------------------------
(* Properties.                                                             *)

\* Two scheduled runs of one workflow never execute together, although two
\* schedules may start it, saves overwrite each other, the desktop restarts and
\* dispatches are retried: run_due asks the ledger before each dispatch.  It
\* dispatches all the same if it gets no answer, or if so many other runs were
\* saved since the last save of the unfinished one that the search, which reads
\* the newest by updated_at, did not have to reach it (a run that waits is not
\* saved).
NoOverlap ==
  unread = 0 =>
    \A i, j \in DOMAIN runs :
      /\ i < j /\ runs[i].flow = runs[j].flow /\ Live(runs[i]) /\ Live(runs[j])
      /\ runs[i].threaded /\ runs[j].threaded
      /\ runs[i].by # Person /\ runs[j].by # Person
      => i \in runs[j].missed

\* One occurrence of a schedule starts one execution; each further one needs a
\* loss, that is a tick cut off by a crash or a save over a newer file.
OncePerDue ==
  \A i \in DOMAIN runs :
    runs[i].by # Person =>
      Cardinality({j \in DOMAIN runs : /\ runs[j].by = runs[i].by /\ runs[j].threaded
                                       /\ runs[j].due = runs[i].due
                                       /\ runs[j].edit = runs[i].edit}) <= 1 + cut + over

\* "Postponed, not skipped": an occurrence that is due is attempted at last,
\* through crashes of the desktop and failures, unless its schedule is changed or
\* deleted or a newer file was overwritten.  Its workflow must stop waiting for
\* persons, though: a run that waits and that nobody answers, or that waits again
\* and again, postpones the occurrence for ever, since nothing ends it.
Waits(s, e, d) == file[s] # Gone /\ file[s].edit = e /\ file[s].next = d /\ Due(file[s], now)

NeedsPerson(flow) == \E i \in DOMAIN runs : runs[i].flow = flow /\ runs[i].status = "waiting"

DueIsServed ==
  \A s \in Schedules, e \in 0 .. MaxCalls :
  \A d \in {t \in 1 .. MaxTime : t % Every[s] = 0} :
    \/ []<>NeedsPerson(Flow[s])
    \/ Waits(s, e, d) ~> (<<s, e, d>> \in served \/ file[s] = Gone \/ file[s].edit # e \/ over > 0)
=============================================================================
