----------------------------- MODULE Approvals -----------------------------
(***************************************************************************)
(* The approval manager, src/src/approval/manager.rs: the file of approval *)
(* facts that all processes share under a file lock, the queue of waiting  *)
(* callers that each process keeps in memory, the callers that wait for a  *)
(* decision, the surfaces on which a person decides, and the popup watcher *)
(* that lists what is pending.  Every action holds at most one lock of the *)
(* code once; two locks taken one after the other are two actions.         *)
(***************************************************************************)
EXTENDS Integers, Sequences, SequencesExt

CONSTANTS
  Procs,       \* processes, each with its ApprovalManager; a restart is another one
  Single,      \* desktop processes, of which one runs at a time
  Listers,     \* processes with a popup watcher
  Mortal,      \* processes that may be killed
  Callers,     \* threads that ask for approval
  Home,        \* the process of each caller
  IdOf,        \* the approval id each caller uses
  Stable,      \* callers whose id is fixed by the workflow run and the step
  Timed,       \* callers with a timeout
  Fickle,      \* callers with a cancellation callback
  Modes,       \* what the rules and the profile may answer to each caller
  Surfaces,    \* places where a person decides
  Place,       \* the process of each surface
  Interrupts,  \* whether surfaces also interrupt requests
  MaxFacts,    \* facts kept in the file (1000)
  MaxPending,  \* entries of a queue (MAX_PENDING_APPROVALS)
  MaxWords     \* bound on the decisions of the surfaces

ASSUME ApprovalsAssumption ==
  /\ Single \subseteq Procs /\ Listers \subseteq Procs /\ Mortal \subseteq Procs
  /\ Home \in [Callers -> Procs] /\ Place \in [Surfaces -> Procs]
  /\ Stable \subseteq Callers /\ Timed \subseteq Callers \ Stable
  /\ Fickle \subseteq Callers
  /\ Modes \in [Callers -> SUBSET {"manual", "approve", "deny"}]
  /\ Interrupts \in BOOLEAN
  /\ MaxFacts \in Nat \ {0} /\ MaxPending \in Nat /\ MaxWords \in Nat
  /\ \A c, d \in Callers : c # d /\ IdOf[c] = IdOf[d] => Home[c] # Home[d]

Ids == {IdOf[c] : c \in Callers}

\* A fact keeps its id, its owner process and its expiry; all three follow from
\* the caller it was written for.
FactStatus == {"pending", "approved", "rejected", "expired", "interrupted"}
Facts == [by : Callers, status : FactStatus]

VARIABLES
  facts,    \* approval-requests.json, oldest first
  proc,     \* whether each process is not yet started, up or dead
  pending,  \* the callers in the queue of each process
  doomed,   \* facts a list_pending is about to resolve
  pc,       \* where each caller is
  chan,     \* its channel
  result,   \* what it returned
  late,     \* callers whose deadline has passed
  wanted,   \* what the cancellation callback of each caller finds
  say,      \* what each surface is doing
  words,    \* decisions taken so far
  yes       \* history: ids a person or a rule approved

callerVars == <<pc, chan, result, late>>
vars == <<facts, proc, pending, doomed, callerVars, wanted, say, words, yes>>

\* The queue holds waiting callers only, on every path a caller can leave by, so
\* it is not used up by requests that are over (remove_pending, list_pending).
QueueHoldsWaiters == \A p \in Procs : \A c \in pending[p] : pc[c] = "waiting"

\* The state is well typed, the file keeps its limit, and the queue is clean.
TypeOK ==
  /\ facts \in Seq(Facts) /\ Len(facts) <= MaxFacts
  /\ proc \in [Procs -> {"new", "up", "dead"}]
  /\ pending \in [Procs -> SUBSET Callers]
  /\ doomed \in [Procs -> SUBSET [id : Ids, to : {"expired", "interrupted"}]]
  /\ pc \in [Callers -> {"idle", "asking", "reviving", "watching", "queueing",
                         "refusing", "waiting", "expiring", "withdrawing",
                         "broken", "done", "dead"}]
  /\ chan \in [Callers -> {"empty", "yes", "no", "closed"}]
  /\ result \in [Callers -> {"none", "yes", "no", "canceled", "error"}]
  /\ late \subseteq Timed
  /\ wanted \in [Callers -> BOOLEAN]
  /\ say \in [Surfaces -> {<<>>} \cup (Ids \X {"yes", "no"})]
  /\ words \in 0..MaxWords
  /\ yes \subseteq Ids
  /\ QueueHoldsWaiters

Init ==
  /\ facts = <<>>
  /\ proc = [p \in Procs |-> "new"]
  /\ pending = [p \in Procs |-> {}]
  /\ doomed = [p \in Procs |-> {}]
  /\ pc = [c \in Callers |-> "idle"]
  /\ chan = [c \in Callers |-> "empty"]
  /\ result = [c \in Callers |-> "none"]
  /\ late = {}
  /\ wanted = [c \in Callers |-> TRUE]
  /\ say = [s \in Surfaces |-> <<>>]
  /\ words = 0
  /\ yes = {}

-----------------------------------------------------------------------------
(* The facts file.                                                         *)

Up(p) == proc[p] = "up"

\* The position of the last fact with an id, 0 if there is none.
Latest(id) == SelectLastInSeq(facts, LAMBDA f : IdOf[f.by] = id)

StatusOf(id) == IF Latest(id) = 0 THEN "none" ELSE facts[Latest(id)].status

\* append_pending_fact and record_immediate_fact: the oldest fact is dropped
\* when the file is full, whatever its status.
AppendFact(c, status) ==
  LET longer == Append(facts, [by |-> c, status |-> status])
  IN  facts' = IF Len(longer) > MaxFacts THEN Tail(longer) ELSE longer

\* resolve_fact: only a pending fact is resolved.
Resolve(id, status) ==
  IF StatusOf(id) = "pending"
  THEN facts' = [facts EXCEPT ![Latest(id)].status = status]
  ELSE UNCHANGED facts

\* A pending fact whose owner process is gone.
\* mutant: a recorded owner counts as alive
OrphanNever(f) == FALSE

Orphan(f) == f.status = "pending" /\ ~Up(Home[f.by])

\* remove_pending
Unqueue(c) == pending' = [pending EXCEPT ![Home[c]] = @ \ {c}]

\* The expired entries of a queue are dropped; their callers find the channel
\* closed.
Stale(p) == pending[p] \cap late
Closed(p) == [c \in Callers |-> IF c \in Stale(p) THEN "closed" ELSE chan[c]]

Goto(c, l) == pc' = [pc EXCEPT ![c] = l]
Return(c, r) == Goto(c, "done") /\ result' = [result EXCEPT ![c] = r]

-----------------------------------------------------------------------------
(* The callers.                                                            *)

\* A request with an id of its own is checked and published; a workflow request
\* looks for the latest fact with its id first.
Ask(c) ==
  /\ pc[c] = "idle" /\ Up(Home[c])
  /\ LET st == IF c \in Stable THEN StatusOf(IdOf[c]) ELSE "none"
     IN \/ st = "approved" /\ Return(c, "yes")
        \/ st = "rejected" /\ Return(c, "no")
        \/ st = "pending" /\ UNCHANGED result
           /\ Goto(c, IF Orphan(facts[Latest(IdOf[c])]) THEN "reviving" ELSE "watching")
        \/ st \in {"none", "expired", "interrupted"} /\ UNCHANGED result
           /\ Goto(c, "asking")
  /\ UNCHANGED <<facts, proc, pending, doomed, chan, late, wanted, say, words, yes>>

\* The fact of a dead owner is interrupted before the request is published anew.
Revive(c) ==
  /\ pc[c] = "reviving"
  /\ Resolve(IdOf[c], "interrupted")
  /\ Goto(c, "asking")
  /\ UNCHANGED <<proc, pending, doomed, chan, result, late, wanted, say, words, yes>>

\* request_with_policy_cancel_using_id up to its first write: it is canceled,
\* the rules decide, or a pending fact is appended.
Publish(c) ==
  /\ pc[c] = "asking"
  /\ \/ ~wanted[c] /\ Return(c, "canceled") /\ UNCHANGED <<facts, yes>>
     \/ /\ wanted[c] /\ "approve" \in Modes[c]
        /\ AppendFact(c, "approved") /\ Return(c, "yes") /\ yes' = yes \cup {IdOf[c]}
     \/ /\ wanted[c] /\ "deny" \in Modes[c]
        /\ AppendFact(c, "rejected") /\ Return(c, "no") /\ UNCHANGED yes
     \/ /\ wanted[c] /\ "manual" \in Modes[c]
        /\ AppendFact(c, "pending") /\ Goto(c, "queueing") /\ UNCHANGED <<result, yes>>
  /\ UNCHANGED <<proc, pending, doomed, chan, late, wanted, say, words>>

\* The caller joins the queue of its process, unless it is full.
Enqueue(c) ==
  /\ pc[c] = "queueing"
  /\ LET p == Home[c]
         live == pending[p] \ late
     IN /\ chan' = [Closed(p) EXCEPT ![c] = "empty"]
        /\ IF Cardinality(live) >= MaxPending
           THEN pending' = [pending EXCEPT ![p] = live] /\ Goto(c, "refusing")
           ELSE pending' = [pending EXCEPT ![p] = live \cup {c}] /\ Goto(c, "waiting")
  /\ UNCHANGED <<facts, proc, doomed, result, late, wanted, say, words, yes>>

\* ... in which case the request is rejected.
Refuse(c) ==
  /\ pc[c] = "refusing"
  /\ Resolve(IdOf[c], "rejected")
  /\ Return(c, "error")
  /\ UNCHANGED <<proc, pending, doomed, chan, late, wanted, say, words, yes>>

\* The waiting loop notices a cancellation or the deadline and leaves the queue.
GiveUp(c) ==
  /\ pc[c] = "waiting"
  /\ \/ ~wanted[c] /\ Goto(c, "withdrawing")
     \/ c \in late /\ Goto(c, "expiring")
  /\ Unqueue(c)
  /\ UNCHANGED <<facts, proc, doomed, chan, result, late, wanted, say, words, yes>>

\* The waiting loop receives from its channel.
Receive(c) ==
  /\ pc[c] = "waiting" /\ chan[c] # "empty"
  /\ IF chan[c] = "closed" THEN Goto(c, "broken") /\ UNCHANGED result
                           ELSE Return(c, chan[c])
  /\ Unqueue(c)
  /\ UNCHANGED <<facts, proc, doomed, chan, late, wanted, say, words, yes>>

\* The waiting loop reads the facts file, where another process may have decided.
\* mutant: the caller returns without leaving the queue
PollAndStay(c) ==
  /\ pc[c] = "waiting" /\ StatusOf(IdOf[c]) \in FactStatus \ {"pending"}
  /\ Return(c, IF StatusOf(IdOf[c]) = "approved" THEN "yes" ELSE "no")
  /\ UNCHANGED <<facts, proc, pending, doomed, chan, late, wanted, say, words, yes>>

\* mutant: only approvals are recognised
PollApproved(c) ==
  /\ pc[c] = "waiting" /\ StatusOf(IdOf[c]) = "approved"
  /\ Return(c, "yes")
  /\ Unqueue(c)
  /\ UNCHANGED <<facts, proc, doomed, chan, late, wanted, say, words, yes>>

Poll(c) ==
  /\ pc[c] = "waiting" /\ StatusOf(IdOf[c]) \in FactStatus \ {"pending"}
  /\ Return(c, IF StatusOf(IdOf[c]) = "approved" THEN "yes" ELSE "no")
  /\ Unqueue(c)
  /\ UNCHANGED <<facts, proc, doomed, chan, late, wanted, say, words, yes>>

\* A caller that left the queue resolves its fact, if nobody else has, and
\* returns.
Settle(c) ==
  /\ \/ pc[c] = "expiring" /\ Resolve(IdOf[c], "expired") /\ Return(c, "no")
     \/ pc[c] = "withdrawing" /\ Resolve(IdOf[c], "interrupted") /\ Return(c, "canceled")
     \/ pc[c] = "broken" /\ Resolve(IdOf[c], "interrupted") /\ Return(c, "error")
  /\ UNCHANGED <<proc, pending, doomed, chan, late, wanted, say, words, yes>>

\* wait_for_existing_decision_with_cancel
\* mutant: every resolved fact counts as an approval
WatchResolved(c) ==
  /\ pc[c] = "watching"
  /\ \/ ~wanted[c] /\ Return(c, "canceled")
     \/ StatusOf(IdOf[c]) \in FactStatus \ {"pending"} /\ Return(c, "yes")
  /\ UNCHANGED <<facts, proc, pending, doomed, chan, late, wanted, say, words, yes>>

Watch(c) ==
  /\ pc[c] = "watching"
  /\ \/ ~wanted[c] /\ Return(c, "canceled")
     \/ /\ StatusOf(IdOf[c]) \in FactStatus \ {"pending"}
        /\ Return(c, IF StatusOf(IdOf[c]) = "approved" THEN "yes" ELSE "no")
  /\ UNCHANGED <<facts, proc, pending, doomed, chan, late, wanted, say, words, yes>>

\* A workflow step may ask again.
Again(c) ==
  /\ pc[c] = "done" /\ c \in Stable
  /\ Goto(c, "idle") /\ result' = [result EXCEPT ![c] = "none"]
  /\ chan' = [chan EXCEPT ![c] = "empty"]
  /\ UNCHANGED <<facts, proc, pending, doomed, late, wanted, say, words, yes>>

CallerStep(c) ==
  \/ Revive(c) \/ Publish(c) \/ Enqueue(c) \/ Refuse(c) \/ GiveUp(c)
  \/ Receive(c) \/ Poll(c) \/ Settle(c) \/ Watch(c)

-----------------------------------------------------------------------------
(* The surfaces and the popup watcher.                                     *)

\* respond: the fact is resolved first; a refused respond changes nothing.
\* mutant: whatever the fact says
RespondAnyway(s, id, word) ==
  /\ Up(Place[s]) /\ say[s] = <<>> /\ words < MaxWords
  /\ Latest(id) # 0
  /\ facts' = [facts EXCEPT ![Latest(id)].status =
                 IF word = "yes" THEN "approved" ELSE "rejected"]
  /\ say' = [say EXCEPT ![s] = <<id, word>>]
  /\ words' = words + 1
  /\ yes' = IF word = "yes" THEN yes \cup {id} ELSE yes
  /\ UNCHANGED <<proc, pending, doomed, callerVars, wanted>>

Respond(s, id, word) ==
  /\ Up(Place[s]) /\ say[s] = <<>> /\ words < MaxWords
  /\ StatusOf(id) = "pending"
  /\ Resolve(id, IF word = "yes" THEN "approved" ELSE "rejected")
  /\ say' = [say EXCEPT ![s] = <<id, word>>]
  /\ words' = words + 1
  /\ yes' = IF word = "yes" THEN yes \cup {id} ELSE yes
  /\ UNCHANGED <<proc, pending, doomed, callerVars, wanted>>

\* interrupt resolves the fact, if it can, and goes on in either case.
Interrupt(s, id) ==
  /\ Up(Place[s]) /\ say[s] = <<>> /\ words < MaxWords /\ Interrupts
  /\ Resolve(id, "interrupted")
  /\ say' = [say EXCEPT ![s] = <<id, "no">>]
  /\ words' = words + 1
  /\ UNCHANGED <<proc, pending, doomed, callerVars, wanted, yes>>

\* ... and then the entry of the local queue, if there is one, is taken out and
\* its caller told.
Send(s) ==
  /\ say[s] # <<>>
  /\ LET addressee == {c \in pending[Place[s]] : IdOf[c] = say[s][1]}
     IN /\ pending' = [pending EXCEPT ![Place[s]] = @ \ addressee]
        /\ chan' = [c \in Callers |-> IF c \in addressee THEN say[s][2] ELSE chan[c]]
  /\ say' = [say EXCEPT ![s] = <<>>]
  /\ UNCHANGED <<facts, proc, doomed, pc, result, late, wanted, words, yes>>

\* list_pending, first part: expired entries leave the queue.
Prune(p) ==
  /\ p \in Listers /\ Up(p) /\ Stale(p) # {}
  /\ pending' = [pending EXCEPT ![p] = @ \ late]
  /\ chan' = Closed(p)
  /\ doomed' = [doomed EXCEPT ![p] = @ \cup
                  {[id |-> IdOf[c], to |-> "expired"] : c \in Stale(p)}]
  /\ UNCHANGED <<facts, proc, pc, result, late, wanted, say, words, yes>>

\* Second part: the facts of other processes that are over.
Over(p) ==
  LET others == {f \in ToSet(facts) : /\ f.status = "pending"
                                      /\ \A c \in pending[p] : IdOf[c] # IdOf[f.by]}
  IN {[id |-> IdOf[f.by], to |-> "interrupted"] : f \in {g \in others : Orphan(g)}}
     \cup {[id |-> IdOf[f.by], to |-> "expired"] :
              f \in {g \in others : ~Orphan(g) /\ g.by \in late}}

Look(p) ==
  /\ p \in Listers /\ Up(p) /\ ~(Over(p) \subseteq doomed[p])
  /\ doomed' = [doomed EXCEPT ![p] = @ \cup Over(p)]
  /\ UNCHANGED <<facts, proc, pending, callerVars, wanted, say, words, yes>>

\* ... which are resolved one by one.
Dispose(p) ==
  /\ \E d \in doomed[p] : /\ Resolve(d.id, d.to)
                          /\ doomed' = [doomed EXCEPT ![p] = @ \ {d}]
  /\ UNCHANGED <<proc, pending, callerVars, wanted, say, words, yes>>

-----------------------------------------------------------------------------
(* The environment.                                                        *)

\* A process starts: facts of dead owners are interrupted (recover_abandoned_facts).
\* mutant: the facts of all owners
StartForgetful(p) ==
  /\ proc[p] = "new" /\ (p \in Single => \A q \in Single : ~Up(q))
  /\ proc' = [proc EXCEPT ![p] = "up"]
  /\ facts' = [i \in DOMAIN facts |->
                 IF facts[i].status = "approved"
                 THEN [facts[i] EXCEPT !.status = "interrupted"] ELSE facts[i]]
  /\ UNCHANGED <<pending, doomed, callerVars, wanted, say, words, yes>>

Start(p) ==
  /\ proc[p] = "new" /\ (p \in Single => \A q \in Single : ~Up(q))
  /\ proc' = [proc EXCEPT ![p] = "up"]
  /\ facts' = [i \in DOMAIN facts |->
                 IF Orphan(facts[i]) THEN [facts[i] EXCEPT !.status = "interrupted"]
                                     ELSE facts[i]]
  /\ UNCHANGED <<pending, doomed, callerVars, wanted, say, words, yes>>

\* A process is killed.
Crash(p) ==
  /\ p \in Mortal /\ Up(p)
  /\ proc' = [proc EXCEPT ![p] = "dead"]
  /\ pending' = [pending EXCEPT ![p] = {}]
  /\ doomed' = [doomed EXCEPT ![p] = {}]
  /\ pc' = [c \in Callers |-> IF Home[c] = p THEN "dead" ELSE pc[c]]
  /\ chan' = [c \in Callers |-> IF Home[c] = p THEN "empty" ELSE chan[c]]
  /\ say' = [s \in Surfaces |-> IF Place[s] = p THEN <<>> ELSE say[s]]
  /\ UNCHANGED <<facts, result, late, wanted, words, yes>>

\* The timeout of a request passes.
Deadline(c) ==
  /\ c \in Timed \ late /\ pc[c] \in {"queueing", "waiting"}
  /\ late' = late \cup {c}
  /\ UNCHANGED <<facts, proc, pending, doomed, pc, chan, result, wanted, say, words, yes>>

\* What the callers asked for is no longer wanted, or wanted again.
Reconsider ==
  /\ wanted' \in {w \in [Callers -> BOOLEAN] : \A c \in Callers \ Fickle : w[c]}
  /\ wanted' # wanted
  /\ UNCHANGED <<facts, proc, pending, doomed, callerVars, say, words, yes>>

Next ==
  \/ \E c \in Callers : Ask(c) \/ CallerStep(c) \/ Again(c) \/ Deadline(c)
  \/ \E s \in Surfaces : \/ Send(s)
                         \/ \E id \in Ids : \/ Interrupt(s, id)
                                            \/ \E w \in {"yes", "no"} : Respond(s, id, w)
  \/ \E p \in Procs : Prune(p) \/ Look(p) \/ Dispose(p) \/ Start(p) \/ Crash(p)
  \/ Reconsider

Spec == Init /\ [][Next]_vars

\* The waiting loops turn every 250 ms, the popup watcher lists every 700 ms,
\* deadlines pass, and the desktop is started again.
Fairness ==
  /\ \A c \in Callers : WF_vars(CallerStep(c)) /\ WF_vars(Deadline(c))
  /\ \A s \in Surfaces : WF_vars(Send(s))
  /\ \A p \in Procs : WF_vars(Prune(p) \/ Look(p) \/ Dispose(p)) /\ WF_vars(Start(p))

FairSpec == Spec /\ Fairness

-----------------------------------------------------------------------------
(* Properties.                                                             *)

\* A caller proceeds only if a person, or a rule the person set, approved its
\* request: no timeout, restart, interruption, full queue or closed channel is
\* taken for an approval (wait_for_decision_with_cancel).
ApprovalIsReal == \A c \in Callers : result[c] = "yes" => IdOf[c] \in yes

\* A decision is final: once a request is approved or rejected, no expiry, sweep,
\* restart or second surface changes it while its fact is kept (resolve_fact).
VerdictIsFinal ==
  [][\A id \in Ids : StatusOf(id) \in {"approved", "rejected"}
        => StatusOf(id)' \in {StatusOf(id), "none"}]_vars

\* Everybody who waits for an answer and is given one, or has a deadline,
\* returns: also when the person decided in another process or the popup watcher
\* expired the request first (wait_for_decision_with_cancel, respond).
AnswerArrives ==
  \A c \in Callers :
     (/\ pc[c] \in {"waiting", "watching"}
      /\ c \in Timed \/ StatusOf(IdOf[c]) \in {"approved", "rejected"})
        ~> (pc[c] \in {"done", "dead"})

\* A request whose process died does not stay open for ever: the next start of
\* the desktop or its popup watcher closes it (recover_abandoned_facts,
\* list_pending).
OrphansAreClosed ==
  \A c \in Callers :
     (~Up(Home[c]) /\ \E i \in DOMAIN facts : facts[i] = [by |-> c, status |-> "pending"])
        ~> (StatusOf(IdOf[c]) # "pending" \/ Up(Home[facts[Latest(IdOf[c])].by]))
=============================================================================
