---------------------------- MODULE AgentUpdate ----------------------------
(***************************************************************************)
(* Replacing the Agent by a newer version.  The desktop checks, downloads  *)
(* and stages a package (src/src/app/update_manager.rs), starts the        *)
(* updater and exits; the updater (src/src/updater.rs) replaces the bundle *)
(* of the AI Runtime, places the new version beside the old one, starts    *)
(* it, and either writes the pointer that says which version counts or     *)
(* takes back what it did and starts the old version.  The launcher starts *)
(* the version the pointer names.  Desktop and updater write one status    *)
(* file; nothing keeps the updater of one update apart from the next.      *)
(***************************************************************************)
EXTENDS Integers, FiniteSets

CONSTANTS
  Newest,      \* versions are 1 .. Newest, in the order of compare_versions
  MaxInstalls, \* bound: updaters that are started
  MaxFaults    \* bound: failing operations, exits of the desktop, power cuts

ASSUME UpdateAssumption == {Newest, MaxInstalls, MaxFaults} \subseteq Nat /\ Newest > 0

Versions == 1 .. Newest
Updaters == 1 .. MaxInstalls
Zero     == 0   \* no version

VARIABLES
  pointer,  \* the version active-version names
  dirs,     \* the versions whose directory is complete
  bundle,   \* the version of resources/runtime
  packages, \* the versions whose verified package is in the staging directory
  files,    \* the versions whose extracted files are there, all of them
  status,   \* agent-update-state.json
  agent,    \* the desktop: at most one runs at a time
  upd       \* the updaters

VARIABLES
  faults,   \* counter for the bound
  crossed,  \* history: updates that began while another updater was at work, or
            \* from a version older than the one the pointer names
  strayed,  \* history: a bundle was not brought back, or the power was cut between
            \* its exchange and the pointer, and no update succeeded since
  lost      \* history: updaters at work whose way back did not start, or whose
            \* desktop ended when they no longer looked at it

disk == <<pointer, dirs, bundle, packages, files>>
past == <<crossed, strayed, lost>>
vars == <<disk, status, agent, upd, faults, past>>

States   == {"idle", "checking", "available", "downloading", "ready", "installing", "failed", "rolled_back"}
Statuses == [st : States, avail : Versions \cup {Zero}, paths : BOOLEAN]
Steps    == {"none", "check", "wait", "runtime", "prepare", "place", "launch", "probe", "switch",
             "commit", "settle", "done", "recover", "probing", "undo", "strand", "mark", "failed", "dead"}
Over     == {"none", "done", "failed", "dead"}

\* by: the updater that started the desktop, or Zero; op: its operation under
\* the lock, with the copy of the status it will save.
Nothing == [st |-> "idle", avail |-> Zero, paths |-> FALSE]
Nobody  == [ver |-> Zero, by |-> Zero, exiting |-> FALSE, op |-> "none", copy |-> Nothing]

TypeOK ==
  /\ pointer \in Versions /\ dirs \cup packages \cup files \subseteq Versions
  /\ bundle \in Versions \cup {Zero}
  /\ status \in Statuses
  /\ agent \in [ver : Versions \cup {Zero}, by : Updaters \cup {Zero}, exiting : BOOLEAN,
                op : {"none", "checking", "fetch", "downloading"}, copy : Statuses]
  /\ upd \in [Updaters -> [at : Steps, from : Versions \cup {Zero}, target : Versions \cup {Zero},
                           replaced : BOOLEAN, backup : Versions \cup {Zero}]]
  /\ agent.ver = Zero => agent = Nobody
  /\ faults \in 0 .. MaxFaults
  /\ crossed \cup lost \subseteq Updaters /\ strayed \in BOOLEAN

Init ==
  /\ pointer = 1 /\ dirs = {1} /\ bundle = 1
  /\ packages = {} /\ files = {}
  /\ status = Nothing
  /\ agent = [Nobody EXCEPT !.ver = 1]
  /\ upd = [i \in Updaters |-> [at |-> "none", from |-> Zero, target |-> Zero,
                                replaced |-> FALSE, backup |-> Zero]]
  /\ faults = 0 /\ crossed = {} /\ strayed = FALSE /\ lost = {}

Fault == faults < MaxFaults /\ faults' = faults + 1

-----------------------------------------------------------------------------
(* The status file.                                                        *)

\* compare_versions gives Greater.
\* mutant: every other version is taken for a newer one
GreaterOther(v, w) == v # w

Greater(v, w) == v > w

Payload(s) == s.paths /\ s.avail \in packages /\ s.avail \in files

\* load as a version v of the Agent does it: what a predecessor left is judged
\* by the version that runs and by what is in the staging directory.
Unoffered(s, v) == IF s.st # "idle" /\ s.avail # Zero /\ ~Greater(s.avail, v) THEN Nothing ELSE s
Uninstalled(s) ==
  IF s.st # "installing" THEN s
  ELSE IF Payload(s) THEN [s EXCEPT !.st = "ready"]
  ELSE IF s.avail = Zero THEN Nothing
  ELSE [s EXCEPT !.st = "available", !.paths = FALSE]
Retried(s) == IF s.st \in {"rolled_back", "failed"} /\ Payload(s) THEN [s EXCEPT !.st = "ready"] ELSE s
Unready(s) == IF s.st = "ready" /\ ~Payload(s) THEN [s EXCEPT !.st = "available", !.paths = FALSE] ELSE s
Loaded(s, v) == Unready(Retried(Uninstalled(Unoffered(s, v))))

-----------------------------------------------------------------------------
(* The desktop.  Its operations hold a lock; loading does not.             *)

Runs == agent.ver # Zero
Free == Runs /\ agent.op = "none"
Hold(op, copy) == agent' = [agent EXCEPT !.op = op, !.copy = copy]
Release == agent' = [agent EXCEPT !.op = "none", !.copy = Nothing]

\* The page and the tray look at the status every few seconds.
Watch ==
  /\ Runs
  /\ status' = Loaded(status, agent.ver)
  /\ UNCHANGED <<disk, agent, upd, faults, past>>

CheckStart ==
  /\ Free
  /\ LET s == [Loaded(status, agent.ver) EXCEPT !.st = "checking"] IN status' = s /\ Hold("checking", s)
  /\ UNCHANGED <<disk, upd, faults, past>>

\* The copy that is compared was marked as checking when the check began.
KeepReady(s, v) == s.st = "ready" /\ s.avail = v /\ Payload(s)

ApplyCheck(s, v) ==
  IF KeepReady(s, v) THEN [s EXCEPT !.avail = v]
                     ELSE [st |-> "available", avail |-> v, paths |-> FALSE]

\* The source offers a version, and it may be downloaded at once; or none; or
\* it does not answer.
CheckEnd ==
  /\ Runs /\ agent.op = "checking"
  /\ \/ \E v \in Versions :
          LET s == ApplyCheck(agent.copy, v) IN
          /\ Greater(v, agent.ver) /\ status' = s
          /\ Release \/ (s.st # "ready" /\ Hold("fetch", s))
     \/ status' = Nothing /\ Release
     \/ status' = [agent.copy EXCEPT !.st = "failed"] /\ Release
  /\ UNCHANGED <<disk, upd, faults, past>>

DownloadStart ==
  /\ Free \/ (Runs /\ agent.op = "fetch")
  /\ LET s == IF Free THEN Loaded(status, agent.ver) ELSE agent.copy
         d == [s EXCEPT !.st = "downloading"]
     IN s.avail # Zero /\ status' = d /\ Hold("downloading", d)
  /\ UNCHANGED <<disk, upd, faults, past>>

\* The files are extracted beside their place, which is cleared and then taken.
Extract(v) == files' = files \cup {v}

\* Verified and extracted; failed before, or canceled; verified, and failed then;
\* failed after the place of the package or of the files was cleared.
DownloadEnd ==
  /\ Runs /\ agent.op = "downloading"
  /\ LET v == agent.copy.avail IN
     \/ /\ packages' = packages \cup {v} /\ Extract(v)
        /\ status' = [agent.copy EXCEPT !.st = "ready", !.paths = TRUE] /\ UNCHANGED faults
     \/ /\ \E st \in {"failed", "available"} : status' = [agent.copy EXCEPT !.st = st]
        /\ \/ packages' \in {packages, packages \cup {v}} /\ UNCHANGED <<files, faults>>
           \/ packages' = packages \ {v} /\ UNCHANGED files /\ Fault
           \/ packages' = packages \cup {v} /\ files' = files \ {v} /\ Fault
  /\ Release
  /\ UNCHANGED <<pointer, dirs, bundle, upd, past>>

\* What an updater still does when it no longer looks at the desktop it leaves.
After == {"switch", "commit", "settle", "probing", "undo", "mark"}

\* The desktop ends.
Leave == agent' = Nobody /\ lost' = lost \cup {i \in Updaters : upd[i].at \in After}

StartUpdater(i, v) ==
  upd' = [upd EXCEPT ![i] = [@ EXCEPT !.at = "check", !.from = agent.ver, !.target = v]]

\* An update that crosses another, or goes on from a version that was replaced.
Crossing(i) == IF agent.ver < pointer \/ \E j \in Updaters : upd[j].at \notin Over
               THEN crossed \cup {i} ELSE crossed

\* Extracts the package once more and starts the updater; the desktop exits
\* 100 ms later, before a second install could have verified the package.
\* Extracting may fail, or starting; or the desktop dies in one or between them.
Install ==
  /\ Free /\ ~agent.exiting
  /\ LET s == Loaded(status, agent.ver) IN
     /\ s.st = "ready" /\ Payload(s)
     /\ \/ \E i \in Updaters :
             /\ upd[i].at = "none" /\ \A j \in 1 .. i - 1 : upd[j].at # "none"
             /\ status' = [s EXCEPT !.st = "installing"]
             /\ \/ /\ StartUpdater(i, s.avail)
                   /\ agent' = [agent EXCEPT !.exiting = TRUE]
                   /\ crossed' = Crossing(i) /\ UNCHANGED <<faults, lost>>
                \/ /\ upd' = [upd EXCEPT ![i].at = "dead"] /\ Leave
                   /\ Fault /\ UNCHANGED crossed
             /\ UNCHANGED files
        \/ /\ Fault /\ UNCHANGED <<upd, crossed>>
           /\ \/ status' = [s EXCEPT !.st = "failed"] /\ UNCHANGED <<agent, files, lost>>
              \/ status' = s /\ files' \in {files, files \ {s.avail}} /\ UNCHANGED <<agent, lost>>
              \/ status' = s /\ files' \in {files, files \ {s.avail}} /\ Leave
  /\ UNCHANGED <<pointer, dirs, bundle, packages, strayed>>

\* mutant: the operation in hand survives the exit
ExitKeeps ==
  /\ agent.exiting /\ agent' = [agent EXCEPT !.ver = Zero, !.exiting = FALSE]
  /\ UNCHANGED <<disk, status, upd, faults, past>>

Exit ==
  /\ agent.exiting /\ Leave
  /\ UNCHANGED <<disk, status, upd, faults, crossed, strayed>>

\* A person quits the desktop, or it crashes, a version just started as well.
Quit ==
  /\ Runs /\ Leave /\ Fault
  /\ UNCHANGED <<disk, status, upd, crossed, strayed>>

\* The launcher starts the version the pointer names.
Start ==
  /\ ~Runs /\ pointer \in dirs
  /\ agent' = [Nobody EXCEPT !.ver = pointer]
  /\ UNCHANGED <<disk, status, upd, faults, past>>

-----------------------------------------------------------------------------
(* The updater.                                                            *)

At(i, step)   == upd[i].at = step
Goto(i, step) == upd' = [upd EXCEPT ![i].at = step]
Target(i)     == upd[i].target
From(i)       == upd[i].from

\* A started version runs, unless another desktop does: then it only calls that
\* one.  It does not start when its directory is gone, or for another reason.
Spawn(i, v) ==
  /\ v \in dirs /\ UNCHANGED faults
  /\ agent' = IF Runs THEN agent ELSE [Nobody EXCEPT !.ver = v, !.by = i]
SpawnFails(v) == UNCHANGED agent /\ ((v \notin dirs /\ UNCHANGED faults) \/ Fault)

Check(i) ==
  /\ At(i, "check")
  /\ Goto(i, IF Target(i) \in packages \cap files THEN "wait" ELSE "strand")
  /\ UNCHANGED <<disk, status, agent, faults, past>>

\* The old process exits, or is terminated, which may fail.
Wait(i) ==
  /\ At(i, "wait")
  /\ \/ /\ Goto(i, "runtime") /\ UNCHANGED faults
        /\ IF agent.exiting THEN Leave ELSE UNCHANGED <<agent, lost>>
     \/ Fault /\ Goto(i, "strand") /\ UNCHANGED <<agent, lost>>
  /\ UNCHANGED <<disk, status, crossed, strayed>>

\* install_runtime_bundle: the old bundle is kept as a backup of this updater.
\* When the new one cannot take its place, the old one returns, or fails to.
Runtime(i) ==
  /\ At(i, "runtime")
  /\ \/ /\ Target(i) \in files
        /\ upd' = [upd EXCEPT ![i].at = "prepare", ![i].replaced = TRUE, ![i].backup = bundle]
        /\ bundle' = Target(i) /\ UNCHANGED <<faults, strayed>>
     \/ Target(i) \notin files /\ Goto(i, "recover") /\ UNCHANGED <<bundle, faults, strayed>>
     \/ /\ Fault /\ Goto(i, "recover")
        /\ UNCHANGED <<bundle, strayed>> \/ (bundle' = Zero /\ strayed' = TRUE)
  /\ UNCHANGED <<pointer, dirs, packages, files, status, agent, crossed, lost>>

\* What removing the directory of a version leaves: nothing, or all if a client
\* holds files in it.  The executable of a running desktop cannot be removed.
Removed(v) == IF agent.ver = v THEN {dirs} ELSE {dirs \ {v}, dirs}

\* Copies the new version beside its place, then makes room for it.
Prepare(i) ==
  /\ At(i, "prepare")
  /\ \/ /\ Target(i) \in files
        /\ dirs' \in Removed(Target(i)) /\ Goto(i, IF Target(i) \in dirs' THEN "strand" ELSE "place")
        /\ UNCHANGED faults
     \/ Target(i) \notin files /\ Goto(i, "strand") /\ UNCHANGED <<dirs, faults>>
     \/ Fault /\ Goto(i, "strand") /\ dirs' \in Removed(Target(i))
  /\ UNCHANGED <<pointer, bundle, packages, files, status, agent, past>>

Place(i) ==
  /\ At(i, "place")
  /\ \/ /\ Goto(i, "launch") /\ dirs' = dirs \cup {Target(i)}
        /\ files' = files \ {Target(i)} /\ UNCHANGED faults
     \/ Fault /\ Goto(i, "strand") /\ UNCHANGED <<dirs, files>>
  /\ UNCHANGED <<pointer, bundle, packages, status, agent, past>>

\* A version that does not start is removed again.
Launch(i) ==
  /\ At(i, "launch")
  /\ \/ Spawn(i, Target(i)) /\ Goto(i, "probe") /\ UNCHANGED dirs
     \/ SpawnFails(Target(i)) /\ Goto(i, "recover") /\ dirs' \in Removed(Target(i))
  /\ UNCHANGED <<pointer, bundle, packages, files, status, past>>

Alive(i)   == agent.by = i /\ agent.ver = Target(i)
Answers(i) == agent.ver = Target(i)

\* /health answers for the target version, or the started process is alive.
ProbeOk(i) ==
  /\ At(i, "probe") /\ (Answers(i) \/ Alive(i))
  /\ Goto(i, "switch")
  /\ UNCHANGED <<disk, status, agent, faults, past>>

\* The started process is gone and nobody answered for it in time.
ProbeFail(i) ==
  /\ At(i, "probe") /\ ~Alive(i) /\ Goto(i, "recover")
  /\ dirs' \in Removed(Target(i))
  /\ UNCHANGED <<pointer, bundle, packages, files, status, agent, faults, past>>

Switch(i) ==
  /\ At(i, "switch")
  /\ \/ pointer' = Target(i) /\ Goto(i, "commit") /\ UNCHANGED <<status, faults>>
     \/ Fault /\ status' = [status EXCEPT !.st = "failed"] /\ Goto(i, "undo") /\ UNCHANGED pointer
  /\ UNCHANGED <<dirs, bundle, packages, files, agent, past>>

Commit(i) ==
  /\ At(i, "commit") /\ upd' = [upd EXCEPT ![i].at = "settle", ![i].replaced = FALSE, ![i].backup = Zero]
  /\ strayed' = FALSE
  /\ UNCHANGED <<disk, status, agent, faults, crossed, lost>>

Settle(i) ==
  /\ At(i, "settle") /\ status' = Nothing /\ Goto(i, "done")
  /\ lost' = lost \ {i}
  /\ UNCHANGED <<disk, agent, faults, crossed, strayed>>

\* The helper that replaces the updater removes what is staged, if it runs.
Tidy(i) ==
  /\ At(i, "done") /\ Target(i) \in packages \cup files
  /\ packages' = packages \ {Target(i)} /\ files' = files \ {Target(i)}
  /\ UNCHANGED <<pointer, dirs, bundle, status, agent, upd, faults, past>>

\* mutant: the old version is left to be started by a person
RecoverNobody(i) ==
  /\ At(i, "recover") /\ Goto(i, "probing")
  /\ UNCHANGED <<disk, status, agent, faults, past>>

\* The old version is started, once, whatever comes of it; its bundle comes back
\* only when all is reported.
Recover(i) ==
  /\ At(i, "recover") /\ Goto(i, "probing")
  /\ \/ Spawn(i, From(i)) /\ UNCHANGED lost
     \/ SpawnFails(From(i)) /\ lost' = lost \cup {i}
  /\ UNCHANGED <<disk, status, crossed, strayed>>

RolledBack(i) ==
  /\ At(i, "probing") /\ status' = [status EXCEPT !.st = "rolled_back"] /\ Goto(i, "undo")
  /\ UNCHANGED <<disk, agent, faults, past>>

\* mutant: only the backup is dropped
UndoNothing(i) ==
  /\ upd[i].at \in {"undo", "strand"} /\ Goto(i, "mark")
  /\ UNCHANGED <<disk, status, agent, faults, past>>

\* Dropping the transaction of the bundle: the new bundle is removed and the old
\* one returns.  Either may fail, since the old version runs again and may hold
\* files of it: then the new one stays, or none is complete.
Undo(i) ==
  /\ upd[i].at \in {"undo", "strand"}
  /\ upd' = [upd EXCEPT ![i].at = "mark", ![i].replaced = FALSE, ![i].backup = Zero]
  /\ \/ /\ bundle' = IF upd[i].replaced THEN upd[i].backup ELSE bundle
        /\ UNCHANGED <<faults, strayed>>
     \/ /\ upd[i].replaced /\ Fault
        /\ bundle' \in {bundle, Zero} /\ strayed' = TRUE
  /\ UNCHANGED <<pointer, dirs, packages, files, status, agent, crossed, lost>>

Mark(i) ==
  /\ At(i, "mark") /\ Goto(i, "failed")
  /\ status' = IF status.st = "installing" THEN [status EXCEPT !.st = "failed"] ELSE status
  /\ lost' = lost \ {i}
  /\ UNCHANGED <<disk, agent, faults, crossed, strayed>>

Step(i) ==
  \/ Check(i) \/ Wait(i) \/ Runtime(i) \/ Prepare(i) \/ Place(i) \/ Launch(i)
  \/ ProbeOk(i) \/ ProbeFail(i) \/ Switch(i) \/ Commit(i) \/ Settle(i)
  \/ Recover(i) \/ RolledBack(i) \/ Undo(i) \/ Mark(i)

\* The power fails: nobody undoes what an updater began.
PowerCut ==
  /\ Fault /\ agent' = Nobody
  /\ upd' = [i \in Updaters |-> IF upd[i].at \in Over THEN upd[i] ELSE [upd[i] EXCEPT !.at = "dead"]]
  /\ strayed' = (strayed \/ \E i \in Updaters : upd[i].at \notin Over \cup {"commit"} /\ upd[i].replaced)
  /\ lost' = {}
  /\ UNCHANGED <<disk, status, crossed>>

Next ==
  \/ Watch \/ CheckStart \/ CheckEnd \/ DownloadStart \/ DownloadEnd \/ Install
  \/ Exit \/ Quit \/ Start \/ PowerCut
  \/ \E i \in Updaters : Step(i) \/ Tidy(i)

Spec == Init /\ [][Next]_vars

\* The updater goes on by itself and an exit is under way.
Live == Spec /\ WF_vars(Exit) /\ \A i \in Updaters : WF_vars(Step(i))

-----------------------------------------------------------------------------
(* Properties.                                                             *)

\* The launcher always finds the version that counts: whatever fails, and
\* wherever the power is cut, active-version names a complete directory.
Startable == crossed = {} => pointer \in dirs

\* When no updater is at work, the Runtime that ships with a version and the
\* version itself were exchanged together or not at all, unless the power was cut
\* between the two or undoing the exchange failed itself; and the next update
\* that succeeds mends that.
BundleFollows == crossed = {} /\ ~strayed /\ (\A i \in Updaters : upd[i].at \in Over) => bundle = pointer

\* An update that is shown as under way is under way, if nothing was cut off:
\* every updater that ends leaves another status behind, whatever desktops save
\* in the meantime.
InstallingHasUpdater ==
  status.st = "installing" => \E i \in Updaters : upd[i].at \notin {"none", "done", "failed"}

\* After any step that fails, and at any cut of the power, what is on the disk can
\* be started and tells the truth about its update, and it is one installation
\* unless the bundle strayed: a second failure, in the restore of the bundle, or a
\* cut in the middle (run_update, RuntimeBundleTransaction, whose Drop ignores
\* failures, mark_install_failed_if_pending).
InstallationIsWhole == Startable /\ BundleFollows /\ InstallingHasUpdater

\* The version that counts is never older than the one before.
NoDowngrade == [][crossed = {} => pointer' >= pointer]_vars

\* After the desktop made room for its updater, the updater ends with a version
\* running: the new one, found alive by the probe, or the old one, if the new one
\* does not start or dies before.  Except: the updater was cut off or could not
\* place the new version; the old one does not start either, which nobody looks
\* at; a desktop ends after the updater's last look (launch_and_confirm,
\* launch_for_recovery).
AgentReturns ==
  \A i \in Updaters :
    At(i, "check") ~> \/ upd[i].at \in {"strand", "dead"} \/ i \in lost
                      \/ upd[i].at \in {"done", "failed"} /\ Runs

=============================================================================
