------------------------- MODULE ProjectionOutbox -------------------------
(***************************************************************************)
(* How the state of a local run reaches the dashboard.  Whoever saves a    *)
(* run then queues a projection of it (agent_core_service.rs) in a table   *)
(* of the ledger (store/local_runs.rs), one row per run and second; the    *)
(* loop of the desktop and the drain of a console send batches of it       *)
(* (agent_core_projection.rs).  The table is the only thing they share.    *)
(***************************************************************************)
EXTENDS Integers, Sequences, FiniteSets, Functions

CONSTANTS
  Runs,
  Answers,     \* what the dashboard may answer to the projections of a run
  Flushers,    \* the loop of the desktop, and drains
  Loops,       \* the flushers that never end
  Batch,       \* PROJECTION_BATCH_LIMIT
  Last,        \* bound: the number of states of a run
  MaxTime,     \* bound: seconds
  MaxTrouble,  \* bound: crashes, dead letters put back, and states queued twice
  MaxBatches   \* bound: max_batches, the batches of all drains

Answer == {"accepted", "lost", "transient", "permanent"}

ASSUME ProjectionAssumption ==
  /\ Answers \in [Runs -> (SUBSET Answer) \ {{}}]
  /\ Loops \subseteq Flushers
  /\ Batch \in Nat \ {0}
  /\ Last \in [Runs -> Nat] /\ {MaxTime, MaxTrouble, MaxBatches} \subseteq Nat

Versions == UNION {1 .. Last[r] : r \in Runs}

VARIABLES
  clock,
  state,      \* each run: its version, the second it was saved in, and whether it is queued
  rows,       \* projection_outbox, by id
  flush,      \* the flushers, with the batch they read
  delivered   \* the versions the dashboard has

VARIABLES
  trouble, batches,
  cut,        \* history: runs whose saver died before it queued
  raced       \* history: rows that were queued again while a flusher held them

vars == <<clock, state, rows, flush, delivered, trouble, batches, cut, raced>>

\* The runs whose projections the dashboard takes at last.
Healthy == {r \in Runs : "accepted" \in Answers[r] /\ "permanent" \notin Answers[r]}

Taken == [id : Nat, run : Runs, version : Nat, waits : BOOLEAN]
Rows       == [run : Runs, second : 0 .. MaxTime, version : Versions,
               status : {"pending", "projected", "dead_letter"}, waits : BOOLEAN]

\* A row projects a state that its run really had, no two rows have one key, and
\* a batch is a part of the table in the order of its ids.
TypeOK ==
  /\ clock \in 0 .. MaxTime
  /\ state \in [Runs -> [version : {0} \cup Versions, second : 0 .. MaxTime, queued : BOOLEAN]]
  /\ rows \in Seq(Rows)
  /\ \A i \in DOMAIN rows : rows[i].version <= state[rows[i].run].version
  /\ \A i, j \in DOMAIN rows :
       rows[i].run = rows[j].run /\ rows[i].second = rows[j].second => i = j
  /\ \A f \in Flushers :
       /\ flush[f].batch \in Seq(Taken) /\ Len(flush[f].batch) <= Batch
       /\ \A i \in DOMAIN flush[f].batch :
            /\ flush[f].batch[i].id \in DOMAIN rows
            /\ i > 1 => flush[f].batch[i].id > flush[f].batch[i - 1].id
       /\ flush[f].answer \in Answer \cup {""}
  /\ delivered \subseteq Runs \X Versions
  /\ cut \subseteq Runs /\ raced \subseteq DOMAIN rows

Idle == [batch |-> <<>>, answer |-> ""]

Init ==
  /\ clock = 0
  /\ state = [r \in Runs |-> [version |-> 0, second |-> 0, queued |-> TRUE]]
  /\ rows = <<>> /\ flush = [f \in Flushers |-> Idle] /\ delivered = {}
  /\ trouble = 0 /\ batches = 0 /\ cut = {} /\ raced = {}

-----------------------------------------------------------------------------
(* The saver of a run: save_run, then project.                             *)

Save(r) ==
  /\ state[r].queued /\ state[r].version < Last[r]
  /\ state' = [state EXCEPT ![r] =
       [version |-> @.version + 1, second |-> clock, queued |-> FALSE]]
  /\ UNCHANGED <<clock, rows, flush, delivered, trouble, batches, cut, raced>>

\* mutant: the key of a row is the state that it projects, not its second
RowOfState(r) == {i \in DOMAIN rows : rows[i].run = r /\ rows[i].version = state[r].version}

\* The rows with the key of the run's state: its second is updated_at.
RowOf(r) == {i \in DOMAIN rows : rows[i].run = r /\ rows[i].second = state[r].second}

Held(i) == \E f \in Flushers : \E t \in Range(flush[f].batch) : t.id = i

Pending(r) == [run |-> r, second |-> state[r].second, version |-> state[r].version,
               status |-> "pending", waits |-> FALSE]

\* enqueue_projection on a key that exists: the row gets the new payload.
Queued(r) == [i \in DOMAIN rows |-> IF i \in RowOf(r) THEN Pending(r) ELSE rows[i]]

Enqueue(r) ==
  /\ ~state[r].queued
  /\ state' = [state EXCEPT ![r].queued = TRUE]
  /\ rows' = IF RowOf(r) = {} THEN Append(rows, Pending(r)) ELSE Queued(r)
  /\ raced' = raced \cup {i \in RowOf(r) : Held(i)}
  /\ cut' = cut \ {r}
  /\ UNCHANGED <<clock, flush, delivered, trouble, batches>>

\* A state is projected again; sent_at makes the payload a new one or not.
EnqueueAgain(r) ==
  /\ trouble < MaxTrouble /\ trouble' = trouble + 1
  /\ state[r].queued /\ \E i \in RowOf(r) : rows[i].version = state[r].version
  /\ \E same \in BOOLEAN :
       rows' = [i \in DOMAIN rows |->
         IF i \notin RowOf(r) THEN rows[i]
         ELSE IF same /\ rows[i].status = "projected" THEN rows[i] ELSE Pending(r)]
  /\ rows' # rows
  /\ UNCHANGED <<clock, state, flush, delivered, batches, cut, raced>>

SaverDies(r) ==
  /\ ~state[r].queued
  /\ trouble < MaxTrouble /\ trouble' = trouble + 1
  /\ state' = [state EXCEPT ![r].queued = TRUE] /\ cut' = cut \cup {r}
  /\ UNCHANGED <<clock, rows, flush, delivered, batches, raced>>

-----------------------------------------------------------------------------
(* A flusher: flush_pending_projections.                                   *)

PendingIds == {i \in DOMAIN rows : rows[i].status = "pending"}

\* pending_projections: the oldest rows, those that wait for a retry included.
Oldest(ids) == {i \in ids : Cardinality({j \in ids : j < i}) < Batch}

InOrder(ids) ==
  [n \in 1 .. Cardinality(ids) |->
     CHOOSE i \in ids : Cardinality({j \in ids : j < i}) = n - 1]

Taking ==
  LET ids == InOrder(Oldest(PendingIds))
  IN  [n \in DOMAIN ids |-> [id |-> ids[n], run |-> rows[ids[n]].run,
                             version |-> rows[ids[n]].version, waits |-> rows[ids[n]].waits]]

Read(f) ==
  LET taking == Taking IN
  /\ flush[f] = Idle /\ taking # <<>>
  /\ IF f \in Loops THEN UNCHANGED batches
     ELSE batches < MaxBatches /\ batches' = batches + 1
  /\ flush' = [flush EXCEPT ![f].batch = taking]
  /\ UNCHANGED <<clock, state, rows, delivered, trouble, cut, raced>>

\* The record that a flusher is at.
Current(f) == Head(flush[f].batch)
Working(f) == flush[f].batch # <<>>

\* mutant: the first projection that fails ends the batch
RestAfter(f) == IF flush[f].answer = "accepted" THEN Tail(flush[f].batch) ELSE <<>>

\* The records that are left when the current one is done.
Rest(f) == Tail(flush[f].batch)

\* A record that waits for its retry is skipped, unless its time has come since
\* it was read.
Skip(f) ==
  /\ Working(f) /\ flush[f].answer = "" /\ Current(f).waits
  /\ flush' = [flush EXCEPT ![f].batch = Rest(f)]
  /\ UNCHANGED <<clock, state, rows, delivered, trouble, batches, cut, raced>>

\* deliver_projection: the dashboard may take it although the answer is lost.
Send(f, answer) ==
  /\ Working(f) /\ flush[f].answer = ""
  /\ answer \in Answers[Current(f).run]
  /\ flush' = [flush EXCEPT ![f].answer = IF answer = "lost" THEN "transient" ELSE answer]
  /\ delivered' = IF answer \in {"accepted", "lost"}
                  THEN delivered \cup {<<Current(f).run, Current(f).version>>} ELSE delivered
  /\ UNCHANGED <<clock, state, rows, trouble, batches, cut, raced>>

\* mutant: any answer counts as a success
MarkedGenerously(row, answer) == [row EXCEPT !.status = "projected", !.waits = FALSE]

\* mark_projection_projected, _failed and _dead_letter, whatever the row is now.
Marked(row, answer) ==
  [row EXCEPT !.status = IF answer = "accepted" THEN "projected"
                         ELSE IF answer = "permanent" THEN "dead_letter" ELSE "pending",
              !.waits = answer \notin {"accepted", "permanent"}]

Mark(f) ==
  /\ Working(f) /\ flush[f].answer # ""
  /\ rows' = [rows EXCEPT ![Current(f).id] = Marked(@, flush[f].answer)]
  /\ flush' = [flush EXCEPT ![f] = [batch |-> Rest(f), answer |-> ""]]
  /\ UNCHANGED <<clock, state, delivered, trouble, batches, cut, raced>>

FlusherDies(f) ==
  /\ Working(f)
  /\ trouble < MaxTrouble /\ trouble' = trouble + 1
  /\ flush' = [flush EXCEPT ![f] = Idle]
  /\ UNCHANGED <<clock, state, rows, delivered, batches, cut, raced>>

\* requeue_dead_letter_projections, by a person.
Requeue ==
  /\ trouble < MaxTrouble /\ trouble' = trouble + 1
  /\ \E i \in DOMAIN rows : rows[i].status = "dead_letter"
  /\ rows' = [i \in DOMAIN rows |->
       IF rows[i].status = "dead_letter" THEN [rows[i] EXCEPT !.status = "pending"] ELSE rows[i]]
  /\ UNCHANGED <<clock, state, flush, delivered, batches, cut, raced>>

-----------------------------------------------------------------------------

Tick ==
  /\ clock < MaxTime /\ clock' = clock + 1
  /\ UNCHANGED <<state, rows, flush, delivered, trouble, batches, cut, raced>>

\* next_attempt_at of a row passes.
Elapse(i) ==
  /\ i \in DOMAIN rows /\ rows[i].waits
  /\ rows' = [rows EXCEPT ![i].waits = FALSE]
  /\ UNCHANGED <<clock, state, flush, delivered, trouble, batches, cut, raced>>

Sends(f) == \E answer \in Answer : Send(f, answer)
Arrival(f, r) == Working(f) /\ Current(f).run = r /\ Send(f, "accepted")

Next ==
  \/ \E r \in Runs : Save(r) \/ Enqueue(r) \/ EnqueueAgain(r) \/ SaverDies(r)
  \/ \E f \in Flushers : Read(f) \/ Skip(f) \/ Sends(f) \/ Mark(f) \/ FlusherDies(f)
  \/ \E i \in DOMAIN rows : Elapse(i)
  \/ Requeue \/ Tick

Spec == Init /\ [][Next]_vars

\* A saver queues what it saved, the loop of the desktop goes on, a wait ends,
\* and a healthy projection that is sent again and again is accepted once.
FairSpec ==
  /\ Spec
  /\ \A r \in Healthy : WF_vars(Enqueue(r))
  /\ \A f \in Loops : WF_vars(Read(f) \/ Skip(f) \/ Sends(f) \/ Mark(f))
  /\ \A f \in Loops, r \in Healthy : SF_vars(Arrival(f, r))
  /\ \A r \in Healthy : WF_vars(\E i \in DOMAIN rows : rows[i].run = r /\ Elapse(i))

-----------------------------------------------------------------------------
(* Properties.                                                             *)

\* What is marked as projected has reached the dashboard in the state that the
\* row holds, with two flushers at one table, lost answers, crashes and dead
\* letters put back.  It fails only for a row that was queued again, in the same
\* second, under a flusher: mark_projection_projected knows the id alone.
ProjectedWasSent ==
  \A i \in DOMAIN rows \ raced :
    rows[i].status = "projected" => <<rows[i].run, rows[i].version>> \in delivered

\* The last state of a run reaches the dashboard, however many projections of
\* other runs fail or are refused before it, unless its saver died first or the
\* row was raced.
Arrives ==
  \A r \in Healthy :
    []<>(\/ state[r].version = 0 \/ ~state[r].queued
         \/ <<r, state[r].version>> \in delivered
         \/ r \in cut \/ RowOf(r) \cap raced # {})
=============================================================================
