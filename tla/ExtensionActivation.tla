------------------------ MODULE ExtensionActivation ------------------------
(***************************************************************************)
(* Development versions of plugins: src/src/app/extension_activation.rs    *)
(* keeps a ledger of the active version of every extension and a journal   *)
(* per switch, under a file lock that is held for one call at a time;      *)
(* src/src/plugin_authoring.rs copies a candidate into a slot named after  *)
(* its digest, stages the switch, rewrites the registry from which plugins *)
(* are loaded (read and written under its own lock,                        *)
(* src/src/capability/plugin.rs), and commits.  What fails on the way is   *)
(* undone; the undoing puts back the whole registry, without that lock.    *)
(***************************************************************************)
EXTENDS Integers, Sequences, FiniteSets

CONSTANTS
  Activators,  \* windows, builds and consoles that activate and roll back
  Plugins,     \* the plugins of one target
  Versions,    \* digests of candidates
  MaxSwitches, \* bound: journals, of which two are there at first
  MaxFaults    \* bound: candidate tests, switches in which a write fails, and crashes

ASSUME ActivationAssumption == MaxSwitches \in Nat \ {0, 1} /\ MaxFaults \in Nat

VARIABLES
  ledger,    \* the active receipt of each plugin
  journals,  \* the journals, in the order of their transaction ids
  registry,  \* the version each plugin is loaded from
  slots,     \* the slots on disk
  act        \* the activators

VARIABLES
  faults,    \* counter for the bound
  crowded,   \* history: plugins whose switches overlapped
  incomplete, \* history: plugins whose ledger a failed switch could not undo
  torn,      \* history: plugins whose registration was not undone
  trampled,  \* history: plugins caught in a restore of the registry for another
  spoiled    \* history: slots that an activation replaced and did not commit again

disk == <<ledger, journals, registry, slots>>
history == <<crowded, incomplete, torn, trampled, spoiled>>
vars == <<disk, act, faults, history>>

None  == [sha |-> "", prev |-> ""]   \* no receipt
Blank == ""                         \* no digest
Slot(p, v) == <<p, v>>

Receipts == [sha : Versions, prev : Versions \cup {Blank}] \cup {None}
Phases   == {"staged", "committing", "committed", "rolling_back", "rolled_back"}
Final    == {"committed", "rolled_back"}
Journals == [plugin : Plugins, phase : Phases, receipt : Receipts, previous : Receipts]

Locked  == {"committing", "recorded", "rolling", "rolled"}   \* in the store
Writing == {"switching", "registering"}                      \* in the registry
Steps   == Locked \cup Writing \cup {"idle", "place", "placed", "staged", "switched", "register",
                                    "undo", "restore", "restoring", "clean"}

TypeOK ==
  /\ ledger \in [Plugins -> Receipts]
  /\ journals \in Seq(Journals) /\ Len(journals) <= MaxSwitches
  /\ registry \in [Plugins -> Versions \cup {Blank}]
  /\ slots \subseteq Plugins \X Versions /\ spoiled \subseteq Plugins \X Versions
  /\ \A a \in Activators :
       /\ act[a].at \in Steps /\ act[a].kind \in {"activate", "rollback", "test"}
       /\ act[a].at \in Locked => \A b \in Activators \ {a} : act[b].at \notin Locked
       /\ act[a].at \in Writing => \A b \in Activators \ {a} : act[b].at \notin Writing
  /\ crowded \cup incomplete \cup torn \cup trampled \subseteq Plugins

\* The registry when its file is cut off: what cannot be parsed has no entries.
Nothing == [p \in Plugins |-> Blank]

Idle == [at |-> "idle", kind |-> "activate", plugin |-> Blank, version |-> Blank,
         prev |-> Blank, journal |-> 0, snapshot |-> Nothing, seen |-> Nothing]

\* A first plugin was activated twice, so that there is something to roll back
\* to; the others were never activated.
Init ==
  \E p \in Plugins, old, new \in Versions :
    LET one == [sha |-> old, prev |-> Blank]
        two == [sha |-> new, prev |-> old]
        done(receipt, previous) == [plugin |-> p, phase |-> "committed",
                                    receipt |-> receipt, previous |-> previous]
    IN
    /\ old # new
    /\ ledger = [q \in Plugins |-> IF q = p THEN two ELSE None]
    /\ journals = <<done(one, None), done(two, one)>>
    /\ registry = [q \in Plugins |-> ledger[q].sha]
    /\ slots = {Slot(p, old), Slot(p, new)}
    /\ act = [a \in Activators |-> Idle]
    /\ faults = 0
    /\ crowded = {} /\ incomplete = {} /\ torn = {} /\ trampled = {} /\ spoiled = {}

\* mutant: the calls of the store do not exclude each other
LockFreeAlways == TRUE

\* The lock of the ledger's file.
LockFree == \A a \in Activators : act[a].at \notin Locked

At(a, step)  == act[a].at = step
Goto(a, step) == act' = [act EXCEPT ![a].at = step, ![a].seen = Nothing]
Done(a)      == act' = [act EXCEPT ![a] = Idle]
Mine(a)      == journals[act[a].journal]
Slotted(a)   == Slot(act[a].plugin, act[a].version)
SetPhase(a, phase) == journals' = [journals EXCEPT ![act[a].journal].phase = phase]
SetLedger(a, receipt) == ledger' = [ledger EXCEPT ![act[a].plugin] = receipt]

\* A write fails; what the activator does next is where it goes.
Fails(a, step) ==
  /\ faults < MaxFaults /\ faults' = faults + 1
  /\ Goto(a, step)

\* A write fails that undoes a switch; the bound counts the switch already.
FailsAgain(a, step) == Goto(a, step) /\ UNCHANGED faults

\* The person is told of an incomplete rollback.
GiveUp(a) == incomplete' = incomplete \cup {act[a].plugin} /\ UNCHANGED torn
TearOff(a) == torn' = torn \cup {act[a].plugin} /\ UNCHANGED incomplete

\* The lock of the registry's file, and who is restoring it without the lock.
RegistryFree == \A a \in Activators : act[a].at \notin Writing
Rewriters    == {a \in Activators : At(a, "restoring")}

Unfinished(p) == {t \in DOMAIN journals : journals[t].plugin = p /\ journals[t].phase \notin Final}
Users(p)      == {a \in Activators : act[a].at # "idle" /\ act[a].plugin = p}

-----------------------------------------------------------------------------
(* activate: the candidate is copied beside its slot, then renamed to it.  *)

\* Nothing keeps two switches of one plugin apart, nor a switch from a restore of
\* the registry; here it is remembered.
Enter(p) ==
  /\ crowded' = IF Unfinished(p) \cup Users(p) # {} THEN crowded \cup {p} ELSE crowded
  /\ trampled' = IF Rewriters # {} THEN trampled \cup {p} ELSE trampled

Activate(a, p, v) ==
  /\ At(a, "idle") /\ Len(journals) < MaxSwitches
  /\ act' = [act EXCEPT ![a] = [Idle EXCEPT !.at = "place", !.plugin = p, !.version = v]]
  /\ slots' = slots \ {Slot(p, v)}
  /\ spoiled' = IF Slot(p, v) \in slots THEN spoiled \cup {Slot(p, v)} ELSE spoiled
  /\ Enter(p)
  /\ UNCHANGED <<ledger, journals, registry, faults, incomplete, torn>>

Place(a) ==
  /\ At(a, "place")
  /\ Goto(a, "placed")
  /\ slots' = slots \cup {Slotted(a)}
  /\ UNCHANGED <<ledger, journals, registry, faults, history>>

PlaceFails(a) ==
  /\ At(a, "place")
  /\ faults < MaxFaults /\ faults' = faults + 1
  /\ Done(a)
  /\ UNCHANGED <<disk, history>>

\* rollback: the previous version of the active receipt, if its slot is there.
RollBack(a, p) ==
  /\ At(a, "idle") /\ Len(journals) < MaxSwitches
  /\ ledger[p] # None /\ ledger[p].prev # Blank /\ Slot(p, ledger[p].prev) \in slots
  /\ act' = [act EXCEPT ![a] =
       [Idle EXCEPT !.at = "placed", !.kind = "rollback", !.plugin = p,
                    !.version = ledger[p].prev, !.prev = ledger[p].sha, !.snapshot = registry]]
  /\ Enter(p)
  /\ UNCHANGED <<disk, faults, incomplete, torn, spoiled>>

\* ActivationStore::stage, and for an activation what it reads around it: the
\* active version before, and the snapshot of the whole registry after.
Stage(a) ==
  LET p == act[a].plugin
      activates == act[a].kind = "activate"
      prev == IF activates THEN ledger[p].sha ELSE act[a].prev
  IN
  /\ At(a, "placed") /\ LockFree
  /\ Len(journals) < MaxSwitches
  /\ journals' = Append(journals, [plugin |-> p, phase |-> "staged", previous |-> ledger[p],
                                   receipt |-> [sha |-> act[a].version, prev |-> prev]])
  /\ act' = [act EXCEPT ![a].at = "staged", ![a].journal = Len(journals'),
                        ![a].snapshot = IF activates THEN registry ELSE @]
  /\ UNCHANGED <<ledger, registry, slots, faults, history>>

\* The snapshot of a rollback is taken before, and restored when it is dropped.
StageFails(a) ==
  /\ At(a, "placed")
  /\ faults < MaxFaults /\ faults' = faults + 1
  /\ IF act[a].kind = "activate" THEN Done(a) ELSE Goto(a, "restore")
  /\ UNCHANGED <<disk, history>>

\* test: a candidate is registered for the time of its test, and what was
\* registered before is restored at the end.
Test(a, p, v) ==
  /\ At(a, "idle")
  /\ act' = [act EXCEPT ![a] = [Idle EXCEPT !.at = "register", !.kind = "test", !.plugin = p,
                                            !.version = v, !.snapshot = registry]]
  /\ faults < MaxFaults /\ faults' = faults + 1
  /\ Enter(p)
  /\ UNCHANGED <<disk, incomplete, torn, spoiled>>

\* register_development_plugin_with_mode_at: all entries are read under the lock
\* of the registry.  Who reads a file that is cut off finds none.
Read(a) ==
  /\ act[a].at \in {"staged", "register"} /\ RegistryFree
  /\ act' = [act EXCEPT ![a].at = IF @ = "staged" THEN "switching" ELSE "registering",
                        ![a].seen = registry]
  /\ trampled' = IF Rewriters # {} THEN Plugins ELSE trampled
  /\ UNCHANGED <<disk, faults, crowded, incomplete, torn, spoiled>>

\* ... and all are written back, with that of the plugin replaced.
Switch(a) ==
  /\ act[a].at \in Writing
  /\ registry' = [act[a].seen EXCEPT ![act[a].plugin] = act[a].version]
  /\ Goto(a, IF At(a, "switching") THEN "switched" ELSE "restore")
  /\ UNCHANGED <<ledger, journals, slots, faults, history>>

SwitchFails(a) ==
  /\ act[a].at \in {"staged", "register"} \cup Writing
  /\ Fails(a, IF act[a].at \in {"register", "registering"} THEN "restore" ELSE "undo")
  /\ UNCHANGED <<disk, history>>

-----------------------------------------------------------------------------
(* ActivationStore::commit: three writes under the lock.                   *)

\* mutant: a transaction that was rolled back is committed all the same
CommittableAlways(journal) == TRUE

Committable(journal) == journal.phase \in {"staged", "committing"}

Commit(a) ==
  /\ At(a, "switched") /\ LockFree
  /\ IF Committable(Mine(a))
     THEN SetPhase(a, "committing") /\ Goto(a, "committing")
     ELSE UNCHANGED journals /\ Goto(a, "undo")
  /\ UNCHANGED <<ledger, registry, slots, faults, history>>

CommitFails(a) ==
  /\ At(a, "switched") /\ LockFree
  /\ Fails(a, "undo")
  /\ UNCHANGED <<disk, history>>

Record(a) ==
  /\ At(a, "committing")
  /\ SetLedger(a, Mine(a).receipt)
  /\ Goto(a, "recorded")
  /\ UNCHANGED <<journals, registry, slots, faults, history>>

RecordFails(a) ==
  /\ At(a, "committing")
  /\ Fails(a, "undo")
  /\ UNCHANGED <<disk, history>>

Committed(a) ==
  /\ At(a, "recorded")
  /\ SetPhase(a, "committed")
  /\ Done(a)
  /\ spoiled' = spoiled \ {Slotted(a)}
  /\ UNCHANGED <<ledger, registry, slots, faults, crowded, incomplete, torn, trampled>>

\* mutant: the slot is removed although the ledger is written
HalfCommittedCleans == "clean"

\* The ledger is written and the journal is not: it is undone like the others.
HalfCommitted == "undo"

CommittedFails(a) ==
  /\ At(a, "recorded")
  /\ Fails(a, HalfCommitted)
  /\ UNCHANGED <<disk, history>>

-----------------------------------------------------------------------------
(* ActivationStore::rollback, then the registry, then the slot.            *)

\* mutant: a switch that was not committed to the end has no ledger to restore
AfterUndoAll(phase) == "rolled_back"

\* The phase a rollback starts with: a staged switch has no ledger to restore.
AfterUndo(phase) ==
  IF phase \in {"staged", "rolled_back"} THEN "rolled_back" ELSE "rolling_back"

Undo(a) ==
  LET phase == AfterUndo(Mine(a).phase) IN
  /\ At(a, "undo") /\ LockFree
  /\ SetPhase(a, phase)
  /\ Goto(a, IF phase = "rolled_back" THEN "restore" ELSE "rolling")
  /\ UNCHANGED <<ledger, registry, slots, faults, history>>

UndoFails(a) ==
  /\ At(a, "undo") /\ LockFree
  /\ FailsAgain(a, "restore")
  /\ GiveUp(a)
  /\ UNCHANGED <<disk, crowded, trampled, spoiled>>

Unrecord(a) ==
  /\ At(a, "rolling")
  /\ SetLedger(a, Mine(a).previous)
  /\ Goto(a, "rolled")
  /\ UNCHANGED <<journals, registry, slots, faults, history>>

UnrecordFails(a) ==
  /\ At(a, "rolling")
  /\ FailsAgain(a, "restore")
  /\ GiveUp(a)
  /\ UNCHANGED <<disk, crowded, trampled, spoiled>>

RolledBack(a) ==
  /\ At(a, "rolled")
  /\ SetPhase(a, "rolled_back")
  /\ Goto(a, "restore")
  /\ UNCHANGED <<ledger, registry, slots, faults, history>>

RolledBackFails(a) ==
  /\ At(a, "rolled")
  /\ FailsAgain(a, "restore")
  /\ GiveUp(a)
  /\ UNCHANGED <<disk, crowded, trampled, spoiled>>

\* mutant: the registration that was made is left in place
RestoredNot(a) == act[a].seen

Restored(a) == act[a].snapshot

\* Who else is in the middle of a registration when the restore begins, or of a
\* restore of his own, is not safe from it, nor it from him.
Caught(a) ==
  {p \in Plugins : \/ Rewriters # {}
                  \/ (p = act[a].plugin /\ ~RegistryFree)
                  \/ (p # act[a].plugin /\ Users(p) # {})}

\* DevelopmentRegistrySnapshot::restore: the whole file, without its lock, is cut
\* off and written.  What fails is tried once more when the snapshot is dropped.
Truncate(a) ==
  /\ At(a, "restore")
  /\ registry' = Nothing
  /\ act' = [act EXCEPT ![a].at = "restoring", ![a].seen = registry]
  /\ trampled' = trampled \cup Caught(a)
  /\ UNCHANGED <<ledger, journals, slots, faults, crowded, incomplete, torn, spoiled>>

\* The plugins that do not have the entry they should have in this registry.
Spilt(a, new) ==
  {p \in Plugins : new[p] # IF p = act[a].plugin THEN Restored(a)[p] ELSE act[a].seen[p]}

AfterRestore(a) == IF act[a].kind = "activate" THEN Goto(a, "clean") ELSE Done(a)

\* If somebody wrote the file meanwhile, his file may stay, or the two be mixed.
Restore(a) ==
  /\ At(a, "restoring")
  /\ \E new \in {Restored(a)} \cup (IF registry = Nothing THEN {} ELSE {registry, Nothing}) :
       registry' = new /\ trampled' = trampled \cup Spilt(a, new)
  /\ AfterRestore(a)
  /\ UNCHANGED <<ledger, journals, slots, faults, crowded, incomplete, torn, spoiled>>

RestoreFails(a) ==
  /\ At(a, "restore")
  /\ AfterRestore(a)
  /\ TearOff(a)
  /\ UNCHANGED <<disk, faults, crowded, trampled, spoiled>>

\* The entries of all plugins are lost.
RestoreCutOff(a) ==
  /\ At(a, "restoring")
  /\ AfterRestore(a)
  /\ TearOff(a)
  /\ trampled' = trampled \cup Spilt(a, registry)
  /\ UNCHANGED <<disk, faults, crowded, spoiled>>

Clean(a) ==
  /\ At(a, "clean")
  /\ slots' = slots \ {Slotted(a)}
  /\ Done(a)
  /\ UNCHANGED <<ledger, journals, registry, faults, history>>

-----------------------------------------------------------------------------

\* Between these steps a death leaves the plugin registered for a switch that
\* recover takes back, or the registry cut off; before, it is not registered yet,
\* and once the journal says so, recover commits.
Tearing == {"switched", "undo", "rolling", "rolled", "restore", "restoring"}

\* The activator's process dies; its locks go with it.
Crash(a) ==
  /\ ~At(a, "idle")
  /\ faults < MaxFaults /\ faults' = faults + 1
  /\ torn' = IF act[a].at \in Tearing THEN torn \cup {act[a].plugin} ELSE torn
  /\ trampled' = IF At(a, "restoring") THEN trampled \cup Spilt(a, registry) ELSE trampled
  /\ Done(a)
  /\ UNCHANGED <<disk, crowded, incomplete, spoiled>>

\* ActivationStore::recover: each journal is finished in its direction, in the
\* order of their ids, in one lock.
Verdict(journal) ==
  IF journal.phase \in {"committing", "committed"} THEN "committed" ELSE "rolled_back"

Recovered(journal) ==
  IF Verdict(journal) = "committed" THEN journal.receipt ELSE journal.previous

Recover ==
  LET open(p) == {t \in Unfinished(p) : journals[t].phase # "staged"} IN
  /\ LockFree /\ \E p \in Plugins : Unfinished(p) # {}
  /\ journals' = [t \in DOMAIN journals |-> [journals[t] EXCEPT !.phase = Verdict(journals[t])]]
  /\ ledger' = [p \in Plugins |->
       IF open(p) = {} THEN ledger[p]
       ELSE Recovered(journals[CHOOSE t \in open(p) : \A u \in open(p) : u <= t])]
  /\ UNCHANGED <<registry, slots, act, faults, history>>

Write(a) == Place(a) \/ Stage(a) \/ Read(a) \/ Switch(a) \/ Commit(a) \/ Record(a) \/ Committed(a)
Reverse(a) == Undo(a) \/ Unrecord(a) \/ RolledBack(a) \/ Truncate(a) \/ Restore(a) \/ Clean(a)
Failure(a) ==
  \/ PlaceFails(a) \/ StageFails(a) \/ SwitchFails(a)
  \/ CommitFails(a) \/ RecordFails(a) \/ CommittedFails(a)
  \/ UndoFails(a) \/ UnrecordFails(a) \/ RolledBackFails(a)
  \/ RestoreFails(a) \/ RestoreCutOff(a)

Next ==
  \/ \E a \in Activators, p \in Plugins : RollBack(a, p)
  \/ \E a \in Activators, p \in Plugins, v \in Versions : Activate(a, p, v) \/ Test(a, p, v)
  \/ \E a \in Activators : Write(a) \/ Reverse(a) \/ Failure(a) \/ Crash(a)
  \/ Recover

Spec == Init /\ [][Next]_vars

-----------------------------------------------------------------------------
(* Properties.                                                             *)

\* The receipt that the journals of a plugin tell: that of its last switch
\* that was not rolled back.
Told(p) ==
  LET kept == {t \in DOMAIN journals : journals[t].plugin = p /\ journals[t].phase = "committed"}
  IN IF kept = {} THEN None
     ELSE journals[CHOOSE t \in kept : \A u \in kept : u <= t].receipt

\* When every switch of a plugin is finished (by its activator or by recover),
\* the ledger shows the last committed one, through failed writes, crashes
\* between any two writes and undone switches; for a plugin whose switches never
\* overlapped, since a rollback restores what was active when it was staged.
LedgerFollowsJournals ==
  \A p \in Plugins \ crowded :
    Unfinished(p) = {} /\ LockFree => ledger[p] = Told(p)

\* A transaction that was rolled back stays so, although recover may discard a
\* switch whose activator still lives.  One that was committed is turned around by
\* its own activator only: recover (which only tests call) commits the journal
\* that a living activator failed to commit, and he, who is about to undo the
\* switch, rolls it back afterwards.
VerdictsStand ==
  [][\A t \in DOMAIN journals :
       /\ journals[t].phase = "rolled_back" => journals'[t].phase = "rolled_back"
       /\ journals[t].phase = "committed" =>
            \/ journals'[t].phase = "committed"
            \/ \E a \in Activators : act[a].journal = t /\ Undo(a)]_vars

\* When nobody works on a plugin, it is loaded from the version that the ledger
\* calls active: a switch that fails is undone in both, and one that a crash cut
\* off before its registration or after its commit began is made whole by
\* recover.  Not so if its switches overlapped (crowded), the undoing of the
\* ledger failed (incomplete), that of the registry failed or a crash came in
\* between (torn), or it was switched or restored while the registry, which is
\* restored as a whole and without its lock, was restored for another plugin, or
\* that restore was cut off (trampled).
LoadsWhatIsActive ==
  \A p \in Plugins \ (crowded \cup incomplete \cup torn \cup trampled) :
    Users(p) = {} /\ Unfinished(p) = {} /\ Rewriters = {} => registry[p] = ledger[p].sha

\* The active version has its slot, through crashes at any step: a failed
\* activation removes the slot of its candidate only after the ledger has left
\* it.  Not so if the candidate was active before, since its slot is then replaced
\* and removed as well (spoiled); if its switches overlapped (crowded); or if the
\* ledger could not be undone, since the slot is removed all the same (incomplete).
ActiveHasSlot ==
  \A p \in Plugins \ (crowded \cup incomplete) :
    ledger[p] # None => Slot(p, ledger[p].sha) \in slots \cup spoiled
=============================================================================
