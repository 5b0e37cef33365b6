------------------------- MODULE AgentUpdate_proofs -------------------------
(***************************************************************************)
(* Theorems about AgentUpdate for every number of versions, updaters and   *)
(* faults.                                                                 *)
(***************************************************************************)
EXTENDS AgentUpdate, TLAPS

USE UpdateAssumption

\* What the types rest on: a download has a version to fetch, and an updater at
\* work knows the two versions it stands between.
Known ==
  /\ agent.op = "downloading" => agent.copy.avail # Zero
  /\ \A i \in Updaters : upd[i].at \notin Over => upd[i].from # Zero /\ upd[i].target # Zero

TypeInv == TypeOK /\ Known

-----------------------------------------------------------------------------
(* Loading the status.                                                     *)

\* What load returns is a status, it is never that of an update under way, and
\* what it offers as staged is there and newer than the version that loads it.
LEMMA LoadedStatus ==
  ASSUME TypeOK, NEW s \in Statuses, NEW v \in Versions
  PROVE  /\ Loaded(s, v) \in Statuses
         /\ Loaded(s, v).st # "installing"
         /\ Loaded(s, v).st = "ready" => /\ Loaded(s, v).avail \in packages \cap files
                                         /\ Loaded(s, v).avail > v
<1> DEFINE Later == {Zero} \cup {w \in Versions : w > v}
           a == Unoffered(s, v)
           b == Uninstalled(a)
           c == Retried(b)
<1>1. a \in Statuses /\ (a.st # "idle" => a.avail \in Later)
  BY DEF Unoffered, Statuses, States, Nothing, Versions, Zero, Greater
<1>2. Later \subseteq {Zero} \cup Versions
  OBVIOUS
<1> HIDE DEF Later, a
<1>3. b \in Statuses /\ b.st # "installing" /\ (b.st # "idle" => b.avail \in Later)
  <2>1. CASE a.st # "installing"
    BY <1>1, <2>1 DEF Uninstalled
  <2>2. CASE a.st = "installing" /\ Payload(a)
    BY <1>1, <2>2 DEF Uninstalled, Statuses, States
  <2>3. CASE a.st = "installing" /\ ~Payload(a)
    BY <1>1, <2>3 DEF Uninstalled, Statuses, States, Nothing
  <2>4. QED BY <2>1, <2>2, <2>3
<1> HIDE DEF b
<1>4. c \in Statuses /\ c.st # "installing" /\ (c.st # "idle" => c.avail \in Later)
  BY <1>3 DEF Retried, Statuses, States
<1> HIDE DEF c
<1>5. /\ Unready(c) \in Statuses /\ Unready(c).st # "installing"
      /\ Unready(c).st = "ready" => Unready(c) = c /\ Payload(c)
  BY <1>4 DEF Unready, Statuses, States
<1>6. Loaded(s, v) = Unready(c)
  BY DEF Loaded, a, b, c
<1>7. packages \cap files \subseteq Versions
  BY DEF TypeOK
<1>8. Loaded(s, v).st = "ready" =>
        Loaded(s, v).avail \in packages \cap files /\ Loaded(s, v).avail \in Later
  BY <1>4, <1>5, <1>6 DEF Payload
<1>9. QED BY <1>5, <1>6, <1>7, <1>8 DEF Later, Versions, Zero

-----------------------------------------------------------------------------
(* Type correctness.                                                       *)

Agents == [ver : Versions \cup {Zero}, by : Updaters \cup {Zero}, exiting : BOOLEAN,
           op : {"none", "checking", "fetch", "downloading"}, copy : Statuses]

Jobs == [at : Steps, from : Versions \cup {Zero}, target : Versions \cup {Zero},
         replaced : BOOLEAN, backup : Versions \cup {Zero}]

\* The types by parts: what an updater leaves on the disk, the desktop, the
\* updaters, and the bookkeeping.
DiskType == /\ pointer \in Versions /\ dirs \cup packages \cup files \subseteq Versions
            /\ bundle \in Versions \cup {Zero} /\ status \in Statuses
AgentType == /\ agent \in Agents /\ (agent.ver = Zero => agent = Nobody)
             /\ agent.op = "downloading" => agent.copy.avail # Zero
UpdType == /\ upd \in [Updaters -> Jobs]
           /\ \A i \in Updaters : upd[i].at \notin Over => upd[i].from # Zero /\ upd[i].target # Zero
PastType == faults \in 0 .. MaxFaults /\ crossed \cup lost \subseteq Updaters
StrayedType == strayed \in BOOLEAN

LEMMA Parts ==
  /\ TypeInv <=> DiskType /\ AgentType /\ UpdType /\ PastType /\ StrayedType
  /\ TypeInv' <=> DiskType' /\ AgentType' /\ UpdType' /\ PastType' /\ StrayedType'
BY DEF TypeInv, TypeOK, Known, DiskType, AgentType, UpdType, PastType, StrayedType, Agents, Jobs

LEMMA Defaults == Nothing \in Statuses /\ Nobody \in Agents /\ Nobody.op = "none"
<1>1. Nothing \in Statuses
  BY DEF Nothing, Statuses, States, Zero
<1>2. QED BY <1>1 DEF Nobody, Agents, Zero

LEMMA InitType == Init => TypeInv
<1> SUFFICES ASSUME Init PROVE TypeInv
  OBVIOUS
<1>1. 1 \in Versions
  BY DEF Versions
<1>2. agent \in Agents /\ agent.ver # Zero /\ agent.op = "none"
  BY <1>1, Defaults DEF Init, Agents, Zero
<1>3. upd \in [Updaters -> Jobs]
  BY DEF Init, Steps, Jobs
<1>4. \A i \in Updaters : upd[i].at \in Over
  BY DEF Init, Over
<1>5. faults \in 0 .. MaxFaults /\ crossed \cup lost \subseteq Updaters /\ strayed \in BOOLEAN
  <2>1. faults = 0 /\ crossed = {} /\ lost = {}
    BY DEF Init
  <2>2. strayed = FALSE
    BY DEF Init
  <2>3. strayed \in BOOLEAN
    BY <2>2
  <2>4. QED BY <2>1, <2>3
<1>6. /\ pointer \in Versions /\ dirs \cup packages \cup files \subseteq Versions
      /\ bundle \in Versions \cup {Zero} /\ status \in Statuses
  BY <1>1, Defaults DEF Init
<1>7. QED BY <1>2, <1>3, <1>4, <1>5, <1>6 DEF TypeInv, TypeOK, Known, Agents, Jobs

\* A started version is one that is there, and starts without an operation.
LEMMA SpawnType ==
  ASSUME TypeInv, NEW i \in Updaters, NEW v, Spawn(i, v) \/ SpawnFails(v)
  PROVE  /\ agent' \in Agents /\ (agent'.ver = Zero => agent' = Nobody)
         /\ agent'.op = "downloading" => agent'.copy.avail # Zero
         /\ faults' \in 0 .. MaxFaults
<1>1. faults' \in 0 .. MaxFaults
  BY DEF Spawn, SpawnFails, Fault, TypeInv, TypeOK
<1>2. CASE agent' = agent
  BY <1>1, <1>2 DEF TypeInv, TypeOK, Known, Agents
<1>3. CASE agent' # agent
  <2>1. agent' = [Nobody EXCEPT !.ver = v, !.by = i] /\ v \in Versions /\ v # Zero
    BY <1>3 DEF Spawn, SpawnFails, TypeInv, TypeOK, Versions, Zero
  <2>2. QED BY <1>1, <2>1, Defaults DEF Agents
<1>4. QED BY <1>2, <1>3

\* The operations of the desktop.
LEMMA DesktopType ==
  ASSUME TypeInv,
         Watch \/ CheckStart \/ CheckEnd \/ DownloadStart \/ DownloadEnd
  PROVE  TypeInv'
<1> DEFINE s == Loaded(status, agent.ver)
<1>1. ASSUME Runs PROVE s \in Statuses
  BY <1>1, LoadedStatus DEF TypeInv, TypeOK, Runs
<1>2. \A x \in Statuses, st \in States : [x EXCEPT !.st = st] \in Statuses
  BY DEF Statuses
<1>3. Nothing \in Statuses /\ agent.copy \in Statuses
  BY DEF Nothing, Statuses, States, Versions, Zero, TypeInv, TypeOK
<1> USE DEF TypeInv, TypeOK, Known, disk, past
<1> HIDE DEF s
<1>4. CASE Watch
  BY <1>1, <1>4 DEF Watch, s
<1>5. CASE CheckStart
  <2>1. [s EXCEPT !.st = "checking"] \in Statuses
    BY <1>1, <1>2, <1>5 DEF CheckStart, Free, States
  <2>2. QED BY <1>5, <2>1 DEF CheckStart, Free, Runs, Hold, s
<1>6. CASE CheckEnd
  <2>1. \A v \in Versions : ApplyCheck(agent.copy, v) \in Statuses
    BY <1>3 DEF ApplyCheck, Statuses, States
  <2>2. [agent.copy EXCEPT !.st = "failed"] \in Statuses
    BY <1>2, <1>3 DEF States
  <2>3. QED BY <1>3, <1>6, <2>1, <2>2 DEF CheckEnd, Runs, Hold, Release
<1>7. CASE DownloadStart
  <2>1. \A x \in Statuses : [x EXCEPT !.st = "downloading"] \in Statuses
    BY <1>2 DEF States
  <2>2. PICK x \in Statuses : /\ x.avail # Zero /\ status' = [x EXCEPT !.st = "downloading"]
                              /\ Hold("downloading", [x EXCEPT !.st = "downloading"])
    BY <1>1, <1>3, <1>7 DEF DownloadStart, Free, s
  <2> DEFINE d == [x EXCEPT !.st = "downloading"]
  <2>3. d \in Statuses /\ d.avail # Zero
    BY <2>1, <2>2 DEF Statuses
  <2> HIDE DEF d
  <2>4. agent' = [agent EXCEPT !.op = "downloading", !.copy = d] /\ status' = d
    BY <2>2 DEF Hold, d
  <2>5. QED BY <1>7, <2>3, <2>4 DEF DownloadStart, Free, Runs
<1>8. CASE DownloadEnd
  <2>1. \A st \in {"failed", "available"} : [agent.copy EXCEPT !.st = st] \in Statuses
    BY <1>2, <1>3 DEF States
  <2>2. [agent.copy EXCEPT !.st = "ready", !.paths = TRUE] \in Statuses
    BY <1>3 DEF Statuses, States
  <2>3. agent.copy.avail \in Versions
    BY <1>3, <1>8 DEF DownloadEnd, Statuses
  <2>4. status' \in Statuses
    BY <1>8, <2>1, <2>2 DEF DownloadEnd
  <2>5. /\ packages' \cup files' \subseteq Versions /\ faults' \in 0 .. MaxFaults
        /\ UNCHANGED <<pointer, dirs, bundle, upd, past>>
    BY <1>8, <2>3 DEF DownloadEnd, Extract, Fault
  <2>6. agent' = [agent EXCEPT !.op = "none", !.copy = Nothing] /\ agent.ver # Zero
    BY <1>8 DEF DownloadEnd, Runs, Release
  <2>7. QED BY <1>3, <2>4, <2>5, <2>6
<1>9. QED BY <1>4, <1>5, <1>6, <1>7, <1>8

\* How the desktop ends and begins, and how an updater begins.
LEMMA LifeType ==
  ASSUME TypeInv,
         Install \/ Exit \/ Quit \/ Start \/ PowerCut
  PROVE  TypeInv'
<1> USE DEF TypeInv, TypeOK, Known, disk, past
<1>0. ASSUME Leave PROVE AgentType' /\ lost' \subseteq Updaters
  BY <1>0, Defaults DEF Leave, AgentType
<1>1. CASE Install
  <2> DEFINE s == Loaded(status, agent.ver)
  <2>1. /\ agent.ver \in Versions /\ s \in Statuses
        /\ s.avail \in Versions /\ s.avail # Zero
    <3>1. agent.ver \in Versions /\ s.st = "ready"
      BY <1>1 DEF Install, Free, Runs
    <3>2. s \in Statuses /\ s.avail \in packages
      BY <3>1, LoadedStatus
    <3>3. QED BY <3>1, <3>2 DEF Versions, Zero
  <2>2. \A st \in {"installing", "failed"} : [s EXCEPT !.st = st] \in Statuses
    BY <2>1 DEF Statuses, States
  <2> HIDE DEF s
  <2>3. /\ status' \in Statuses /\ files' \subseteq Versions
        /\ UNCHANGED <<pointer, dirs, bundle, packages, strayed>>
    BY <1>1, <2>1, <2>2 DEF Install, s
  <2>4. CASE UNCHANGED <<upd, crossed>> /\ Fault /\ (UNCHANGED <<agent, lost>> \/ Leave)
    <3>1. AgentType' /\ lost' \subseteq Updaters
      BY <1>0, <2>4 DEF Agents, AgentType
    <3>2. faults' \in 0 .. MaxFaults
      BY <2>4 DEF Fault
    <3>3. UNCHANGED <<upd, crossed>>
      BY <2>4
    <3>4. DiskType' /\ PastType' /\ StrayedType'
      BY <2>3, <3>1, <3>2, <3>3 DEF DiskType, PastType, StrayedType
    <3>5. UpdType'
      BY <3>3 DEF UpdType, Jobs
    <3>6. QED BY ONLY <3>1, <3>4, <3>5, Parts
  <2>5. ASSUME NEW i \in Updaters, StartUpdater(i, s.avail),
               agent' = [agent EXCEPT !.exiting = TRUE],
               crossed' \in {crossed, crossed \cup {i}}, UNCHANGED <<faults, lost>>
        PROVE  TypeInv'
    <3>1. upd' \in [Updaters -> Jobs]
      <4> DEFINE e == [upd[i] EXCEPT !.at = "check", !.from = agent.ver, !.target = s.avail]
      <4>1. e \in Jobs
        <5>1. upd[i] \in Jobs /\ agent.ver \in Versions /\ s.avail \in Versions
          BY <2>1 DEF Jobs
        <5>2. QED BY ONLY <5>1 DEF Jobs, Steps, e
      <4>2. upd' = [upd EXCEPT ![i] = e]
        BY <2>5 DEF StartUpdater
      <4> HIDE DEF e
      <4>3. QED BY <4>1, <4>2 DEF Jobs
    <3>2. \A j \in Updaters : upd'[j].at \notin Over => upd'[j].from # Zero /\ upd'[j].target # Zero
      BY <2>1, <2>5 DEF StartUpdater, Over, Versions, Zero
    <3>3. agent' \in Agents /\ agent'.ver # Zero /\ agent'.op # "downloading"
      BY <1>1, <2>5 DEF Install, Free, Runs, Agents
    <3>4. crossed' \cup lost' \subseteq Updaters
      BY <2>5
    <3>5. QED BY <2>3, <2>5, <3>1, <3>2, <3>3, <3>4 DEF Agents, Jobs
  <2>6. ASSUME NEW i \in Updaters, upd' = [upd EXCEPT ![i].at = "dead"], Leave,
               Fault, UNCHANGED crossed
        PROVE  TypeInv'
    <3>1. AgentType' /\ lost' \subseteq Updaters /\ faults' \in 0 .. MaxFaults
      BY <1>0, <2>6 DEF Fault
    <3>2. upd' \in [Updaters -> Jobs]
      BY <2>6 DEF Jobs, Steps
    <3>3. \A j \in Updaters : upd'[j].at \notin Over => upd'[j].from # Zero /\ upd'[j].target # Zero
      BY <2>6 DEF Over
    <3>4. UNCHANGED crossed
      BY <2>6
    <3>5. DiskType' /\ PastType' /\ StrayedType'
      BY <2>3, <3>1, <3>4 DEF DiskType, PastType, StrayedType
    <3>6. UpdType'
      BY <3>2, <3>3 DEF UpdType
    <3>7. QED BY ONLY <3>1, <3>5, <3>6, Parts
  <2>7. \/ UNCHANGED <<upd, crossed>> /\ Fault /\ (UNCHANGED <<agent, lost>> \/ Leave)
        \/ \E i \in Updaters :
             \/ /\ StartUpdater(i, s.avail) /\ agent' = [agent EXCEPT !.exiting = TRUE]
                /\ crossed' = Crossing(i) /\ UNCHANGED <<faults, lost>>
             \/ /\ upd' = [upd EXCEPT ![i].at = "dead"] /\ Leave
                /\ Fault /\ UNCHANGED crossed
    BY <1>1 DEF Install, s
  <2>8. \A i \in Updaters : Crossing(i) \in {crossed, crossed \cup {i}}
    BY DEF Crossing
  <2>9. QED BY <2>4, <2>5, <2>6, <2>7, <2>8
<1>2. ASSUME Leave, faults' \in 0 .. MaxFaults, UNCHANGED <<disk, status, upd, crossed, strayed>>
      PROVE  TypeInv'
  <2>1. AgentType' /\ lost' \subseteq Updaters
    BY <1>0, <1>2
  <2>2. DiskType' /\ PastType' /\ StrayedType'
    BY <1>2, <2>1 DEF DiskType, PastType, StrayedType
  <2>3. UpdType'
    BY <1>2 DEF UpdType, Jobs
  <2>4. QED BY ONLY <2>1, <2>2, <2>3, Parts
<1>3. CASE Exit \/ Quit
  BY <1>2, <1>3 DEF Exit, Quit, Fault
<1>4. CASE Start
  <2>1. pointer # Zero /\ agent' = [Nobody EXCEPT !.ver = pointer]
    BY <1>4 DEF Start, Versions, Zero
  <2>2. agent' \in Agents /\ agent'.ver # Zero /\ agent'.op = "none"
    BY <2>1, Defaults DEF Agents
  <2>3. QED BY <1>4, <2>2 DEF Start, Agents
<1>5. CASE PowerCut
  <2>1. agent' \in Agents /\ agent'.op = "none" /\ agent' = Nobody /\ faults' \in 0 .. MaxFaults
    BY <1>5, Defaults DEF PowerCut, Fault
  <2>2. upd' \in [Updaters -> Jobs] /\ \A i \in Updaters : upd'[i].at \in Over
    BY <1>5 DEF PowerCut, Steps, Over, Jobs
  <2>3. strayed' \in BOOLEAN /\ crossed' \cup lost' \subseteq Updaters
    BY <1>5 DEF PowerCut
  <2>4. UNCHANGED <<disk, status>>
    BY <1>5 DEF PowerCut
  <2>5. QED BY <2>1, <2>2, <2>3, <2>4 DEF Agents, Jobs
<1>6. QED BY <1>1, <1>3, <1>4, <1>5

\* The updater up to the launch of the new version.
LEMMA ReplacingType ==
  ASSUME TypeInv, NEW i \in Updaters,
         Check(i) \/ Wait(i) \/ Runtime(i) \/ Prepare(i) \/ Place(i) \/ Launch(i)
  PROVE  TypeInv'
<1> USE DEF TypeInv, TypeOK, Known, disk, past, At, Goto, Target
<1>1. CASE Check(i)
  BY <1>1 DEF Check, Steps, Over
<1>2. CASE Wait(i)
  <2>1. /\ agent' \in Agents /\ (agent'.ver = Zero => agent' = Nobody) /\ lost' \subseteq Updaters
        /\ agent'.op = "downloading" => agent'.copy.avail # Zero
    BY <1>2, Defaults DEF Wait, Leave, Agents
  <2>2. QED BY <1>2, <2>1 DEF Wait, Fault, Steps, Over, Agents
<1>3. CASE Runtime(i)
  <2>1. /\ bundle' \in Versions \cup {Zero} /\ strayed' \in BOOLEAN /\ faults' \in 0 .. MaxFaults
        /\ UNCHANGED <<pointer, dirs, packages, files, status, agent, crossed, lost>>
    <3>1. bundle' \in {bundle, Target(i), Zero} /\ (bundle' = Target(i) => Target(i) \in files \/ bundle' = bundle \/ bundle' = Zero)
      BY <1>3 DEF Runtime
    <3>2. bundle' \in Versions \cup {Zero}
      BY <3>1
    <3>3. strayed' \in {strayed, TRUE}
      BY <1>3 DEF Runtime
    <3>4. faults' \in 0 .. MaxFaults
      BY <1>3 DEF Runtime, Fault
    <3>5. UNCHANGED <<pointer, dirs, packages, files, status, agent, crossed, lost>>
      BY <1>3 DEF Runtime
    <3>6. QED BY <3>2, <3>3, <3>4, <3>5
  <2>2. upd' \in [Updaters -> Jobs] /\ upd[i].at = "runtime"
    <3>1. CASE upd' = [upd EXCEPT ![i].at = "prepare", ![i].replaced = TRUE, ![i].backup = bundle]
      <4> DEFINE e == [upd[i] EXCEPT !.at = "prepare", !.replaced = TRUE, !.backup = bundle]
      <4>1. e \in Jobs
        <5>1. upd[i] \in Jobs /\ bundle \in Versions \cup {Zero}
          BY DEF Jobs
        <5>2. QED BY ONLY <5>1 DEF Jobs, Steps, e
      <4>2. upd' = [upd EXCEPT ![i] = e]
        BY <3>1
      <4> HIDE DEF e
      <4>3. QED BY <1>3, <4>1, <4>2 DEF Jobs, Runtime
    <3>2. CASE upd' = [upd EXCEPT ![i].at = "recover"]
      BY <1>3, <3>2 DEF Jobs, Steps, Runtime
    <3>3. QED BY <1>3, <3>1, <3>2 DEF Runtime
  <2>3. \A j \in Updaters : upd'[j].at \notin Over => upd'[j].from # Zero /\ upd'[j].target # Zero
    BY <1>3, <2>2 DEF Runtime, Over
  <2>4. QED BY <2>1, <2>2, <2>3 DEF Jobs
<1>4. CASE Prepare(i)
  BY <1>4 DEF Prepare, Removed, Fault, Steps, Over
<1>5. CASE Place(i)
  BY <1>5 DEF Place, Fault, Steps, Over
<1>6. CASE Launch(i)
  <2>1. /\ agent' \in Agents /\ (agent'.ver = Zero => agent' = Nobody)
        /\ agent'.op = "downloading" => agent'.copy.avail # Zero
        /\ faults' \in 0 .. MaxFaults
    BY <1>6, SpawnType DEF Launch
  <2>2. dirs' \subseteq Versions
    BY <1>6 DEF Launch, Removed
  <2>3. QED BY <1>6, <2>1, <2>2 DEF Launch, Agents, Steps, Over
<1>7. QED BY <1>1, <1>2, <1>3, <1>4, <1>5, <1>6

\* The probe of the new version, and what follows from it.
LEMMA ProbingType ==
  ASSUME TypeInv, NEW i \in Updaters,
         \/ ProbeOk(i) \/ ProbeFail(i) \/ Switch(i) \/ Commit(i) \/ Settle(i) \/ Tidy(i)
         \/ Recover(i) \/ RolledBack(i) \/ Undo(i) \/ Mark(i)
  PROVE  TypeInv'
<1> USE DEF TypeInv, TypeOK, Known, disk, past, At, Goto, Target
<1>1. CASE ProbeOk(i)
  BY <1>1 DEF ProbeOk, Steps, Over
<1>2. CASE ProbeFail(i)
  BY <1>2 DEF ProbeFail, Removed, Steps, Over
<1>3. \A st \in States : [status EXCEPT !.st = st] \in Statuses
  BY DEF Statuses
<1>4. CASE Switch(i)
  <2>1. status' \in Statuses
    BY <1>3, <1>4 DEF Switch, States
  <2>2. QED BY <1>4, <2>1 DEF Switch, Fault, Steps, Over
<1>5. CASE Commit(i)
  <2>1. upd' \in [Updaters -> Jobs]
    <3> DEFINE e == [upd[i] EXCEPT !.at = "settle", !.replaced = FALSE, !.backup = Zero]
    <3>1. e \in Jobs
      <4>1. upd[i] \in Jobs
        BY DEF Jobs
      <4>2. QED BY ONLY <4>1 DEF Jobs, Steps, e
    <3>2. upd' = [upd EXCEPT ![i] = e]
      BY <1>5 DEF Commit
    <3> HIDE DEF e
    <3>3. QED BY <3>1, <3>2 DEF Jobs
  <2>2. \A j \in Updaters : upd'[j].at \notin Over => upd'[j].from # Zero /\ upd'[j].target # Zero
    BY <1>5 DEF Commit, Over
  <2>3. QED BY <1>5, <2>1, <2>2 DEF Commit, Jobs
<1>6. CASE Settle(i)
  BY <1>6, Defaults DEF Settle, Steps, Over
<1>7. CASE Tidy(i)
  BY <1>7 DEF Tidy
<1>8. CASE Recover(i)
  <2>1. /\ agent' \in Agents /\ (agent'.ver = Zero => agent' = Nobody)
        /\ agent'.op = "downloading" => agent'.copy.avail # Zero
        /\ faults' \in 0 .. MaxFaults
    BY <1>8, SpawnType DEF Recover
  <2>2. QED BY <1>8, <2>1 DEF Recover, Agents, Steps, Over
<1>9. CASE RolledBack(i)
  <2>1. status' \in Statuses
    BY <1>3, <1>9 DEF RolledBack, States
  <2>2. QED BY <1>9, <2>1 DEF RolledBack, Steps, Over
<1>10. CASE Undo(i)
  <2>1. /\ bundle' \in Versions \cup {Zero} /\ strayed' \in BOOLEAN /\ faults' \in 0 .. MaxFaults
        /\ UNCHANGED <<pointer, dirs, packages, files, status, agent, crossed, lost>>
    BY <1>10 DEF Undo, Fault
  <2>2. upd' \in [Updaters -> Jobs]
    <3> DEFINE e == [upd[i] EXCEPT !.at = "mark", !.replaced = FALSE, !.backup = Zero]
    <3>1. e \in Jobs
      <4>1. upd[i] \in Jobs
        BY DEF Jobs
      <4>2. QED BY ONLY <4>1 DEF Jobs, Steps, e, Zero
    <3>2. upd' = [upd EXCEPT ![i] = e]
      BY <1>10 DEF Undo
    <3> HIDE DEF e
    <3>3. QED BY <3>1, <3>2 DEF Jobs
  <2>3. \A j \in Updaters : upd'[j].at \notin Over => upd'[j].from # Zero /\ upd'[j].target # Zero
    BY <1>10 DEF Undo, Over
  <2>4. QED BY <2>1, <2>2, <2>3 DEF Jobs
<1>11. CASE Mark(i)
  <2>1. status' \in Statuses
    BY <1>3, <1>11 DEF Mark, States
  <2>2. QED BY <1>11, <2>1 DEF Mark, Steps, Over
<1>12. QED
  BY <1>1, <1>2, <1>4, <1>5, <1>6, <1>7, <1>8, <1>9, <1>10, <1>11

LEMMA StepType == TypeInv /\ [Next]_vars => TypeInv'
<1> SUFFICES ASSUME TypeInv, [Next]_vars PROVE TypeInv'
  OBVIOUS
<1>1. CASE UNCHANGED vars
  BY <1>1 DEF vars, disk, past, TypeInv, TypeOK, Known
<1>2. CASE Next
  BY <1>2, DesktopType, LifeType, ReplacingType, ProbingType DEF Next, Step
<1>3. QED BY <1>1, <1>2

\* Every reachable state is well typed: no status, version or updater of a kind
\* that the program does not have, however desktops and updaters interleave.
THEOREM TypeCorrect == Spec => []TypeOK
<1>1. TypeInv => TypeOK
  BY DEF TypeInv
<1>2. QED BY <1>1, InitType, StepType, PTL DEF Spec

-----------------------------------------------------------------------------
(* One installation.  The invariant holds of updates that do not cross.    *)

\* The steps of an updater up to the writing of the pointer.
Before == {"check", "wait", "runtime", "prepare", "place", "launch", "probe", "switch"}

\* One updater is at work; it is on the way to a newer version than the one that
\* counts, and that one it does not touch.
Ordered ==
  crossed = {} =>
    /\ \A i, j \in Updaters : upd[i].at \notin Over /\ upd[j].at \notin Over => i = j
    /\ \A i \in Updaters : upd[i].at \in Before => upd[i].target > pointer
    /\ \A i \in Updaters : upd[i].at \in {"launch", "probe", "switch"} => upd[i].target \in dirs
    /\ pointer \in dirs

\* Which bundle is in place at each step of an updater, and what its transaction
\* would bring back, if no bundle strayed before.
Exchanged(i) ==
  /\ upd[i].at \in {"none", "check", "wait", "runtime"} => ~upd[i].replaced
  /\ upd[i].at \in {"check", "wait", "runtime", "mark"} => strayed \/ bundle = pointer
  /\ upd[i].at \in {"commit", "settle"} => bundle = pointer
  /\ upd[i].at \in {"prepare", "place", "launch", "probe", "switch"} =>
       upd[i].replaced /\ (strayed \/ upd[i].backup = pointer) /\ bundle = upd[i].target
  /\ upd[i].at \in {"recover", "probing", "undo", "strand"} =>
       strayed \/ (IF upd[i].replaced THEN upd[i].backup = pointer ELSE bundle = pointer)

Paired ==
  crossed = {} =>
    /\ \A i \in Updaters : Exchanged(i)
    /\ (\A i \in Updaters : upd[i].at \in Over) => strayed \/ bundle = pointer

IInv == TypeInv /\ InstallingHasUpdater /\ Ordered /\ Paired

\* What a step of an updater leaves alone.
LEMMA StepFrame ==
  ASSUME TypeInv, NEW i \in Updaters, Step(i)
  PROVE  /\ crossed' = crossed /\ upd[i].at \notin Over
         /\ \A j \in Updaters \ {i} : upd'[j] = upd[j]
         /\ upd'[i].target = upd[i].target
         /\ upd'[i].at \notin {"none", "dead"}
<1> USE DEF TypeInv, TypeOK, At, Goto, Target, Over
<1>1. CASE Check(i) \/ Wait(i) \/ Runtime(i) \/ Prepare(i) \/ Place(i) \/ Launch(i)
  BY <1>1 DEF Check, Wait, Runtime, Prepare, Place, Launch, past
<1>2. CASE ProbeOk(i) \/ ProbeFail(i) \/ Switch(i) \/ Commit(i) \/ Settle(i)
  BY <1>2 DEF ProbeOk, ProbeFail, Switch, Commit, Settle, past
<1>3. CASE Recover(i) \/ RolledBack(i) \/ Undo(i) \/ Mark(i)
  BY <1>3 DEF Recover, RolledBack, Undo, Mark, past
<1>4. QED BY <1>1, <1>2, <1>3 DEF Step

\* Installing begins an updater, toward a version newer than the desktop, or
\* leaves another status behind.
LEMMA InstallEffect ==
  ASSUME TypeInv, Install
  PROVE  /\ UNCHANGED <<pointer, dirs, bundle, strayed>> /\ agent.ver \in Versions
         /\ crossed \subseteq crossed'
         /\ \/ UNCHANGED <<upd, crossed>> /\ status'.st # "installing"
            \/ \E i \in Updaters :
                 /\ upd[i].at = "none" /\ \A j \in Updaters \ {i} : upd'[j] = upd[j]
                 /\ \/ /\ upd'[i].at = "check" /\ upd'[i].replaced = upd[i].replaced
                       /\ upd'[i].target \in Versions /\ upd'[i].target > agent.ver
                       /\ agent.ver < pointer \/ (\E j \in Updaters : upd[j].at \notin Over)
                            => i \in crossed'
                    \/ upd'[i].at = "dead" /\ crossed' = crossed
<1> DEFINE s == Loaded(status, agent.ver)
<1> USE DEF TypeInv, TypeOK
<1>1. /\ agent.ver \in Versions /\ s \in Statuses /\ s.st = "ready"
      /\ s.avail \in Versions /\ s.avail > agent.ver
  <2>1. agent.ver \in Versions /\ s.st = "ready"
    BY DEF Install, Free, Runs
  <2>2. QED BY <2>1, LoadedStatus
<1>2. [s EXCEPT !.st = "failed"].st # "installing"
  BY <1>1 DEF Statuses
<1> HIDE DEF s
<1>3. ASSUME NEW i \in Updaters, StartUpdater(i, s.avail)
      PROVE  /\ \A j \in Updaters \ {i} : upd'[j] = upd[j]
             /\ upd'[i].at = "check" /\ upd'[i].replaced = upd[i].replaced
             /\ upd'[i].target = s.avail
  <2> DEFINE e == [upd[i] EXCEPT !.at = "check", !.from = agent.ver, !.target = s.avail]
  <2>1. upd' = [upd EXCEPT ![i] = e]
    BY <1>3 DEF StartUpdater
  <2>2. e.at = "check" /\ e.replaced = upd[i].replaced /\ e.target = s.avail
    <3>1. upd[i] \in Jobs
      BY DEF Jobs
    <3>2. QED BY ONLY <3>1 DEF Jobs, e
  <2> HIDE DEF e
  <2>3. QED BY <2>1, <2>2
<1>4. ASSUME NEW i \in Updaters, StartUpdater(i, s.avail), crossed' = Crossing(i)
      PROVE  /\ \A j \in Updaters \ {i} : upd'[j] = upd[j]
             /\ upd'[i].at = "check" /\ upd'[i].replaced = upd[i].replaced
             /\ upd'[i].target \in Versions /\ upd'[i].target > agent.ver
             /\ agent.ver < pointer \/ (\E j \in Updaters : upd[j].at \notin Over)
                  => i \in crossed'
             /\ crossed \subseteq crossed'
  BY <1>1, <1>3, <1>4 DEF Crossing
<1>5. ASSUME NEW i \in Updaters, upd' = [upd EXCEPT ![i].at = "dead"]
      PROVE  upd'[i].at = "dead" /\ \A j \in Updaters \ {i} : upd'[j] = upd[j]
  BY <1>5
<1>6. \/ UNCHANGED <<upd, crossed>> /\ status' \in {s, [s EXCEPT !.st = "failed"]}
      \/ \E i \in Updaters :
           /\ upd[i].at = "none"
           /\ \/ StartUpdater(i, s.avail) /\ crossed' = Crossing(i)
              \/ upd' = [upd EXCEPT ![i].at = "dead"] /\ UNCHANGED crossed
  BY DEF Install, s
<1>7. UNCHANGED <<pointer, dirs, bundle, strayed>>
  BY DEF Install
<1>8. CASE UNCHANGED <<upd, crossed>> /\ status' \in {s, [s EXCEPT !.st = "failed"]}
  BY <1>1, <1>2, <1>7, <1>8
<1>9. CASE \E i \in Updaters :
             /\ upd[i].at = "none"
             /\ \/ StartUpdater(i, s.avail) /\ crossed' = Crossing(i)
                \/ upd' = [upd EXCEPT ![i].at = "dead"] /\ UNCHANGED crossed
  <2>1. PICK i \in Updaters :
             /\ upd[i].at = "none"
             /\ \/ StartUpdater(i, s.avail) /\ crossed' = Crossing(i)
                \/ upd' = [upd EXCEPT ![i].at = "dead"] /\ UNCHANGED crossed
    BY <1>9
  <2>2. QED BY <1>1, <1>4, <1>5, <1>7, <2>1
<1>10. QED BY <1>6, <1>8, <1>9

\* A status of an update under way has an updater that is, or was cut off.
LEMMA UnderwayStep ==
  ASSUME TypeInv, InstallingHasUpdater, [Next]_vars
  PROVE  InstallingHasUpdater'
<1> USE DEF TypeInv, TypeOK, InstallingHasUpdater
<1>1. CASE UNCHANGED vars
  BY <1>1 DEF vars, disk, past
<1>2. CASE Watch \/ CheckStart \/ CheckEnd \/ DownloadStart \/ DownloadEnd
  <2>1. status'.st # "installing"
    <3>1. ASSUME Runs PROVE Loaded(status, agent.ver).st # "installing"
      BY <3>1, LoadedStatus DEF Runs
    <3>2. CASE Watch
      BY <3>1, <3>2 DEF Watch
    <3>3. CASE CheckStart
      BY <3>3, LoadedStatus DEF CheckStart, Free, Runs, Statuses
    <3>4. CASE CheckEnd
      <4>1. agent.copy \in Statuses
        OBVIOUS
      <4>2. \A v \in Versions : ApplyCheck(agent.copy, v).st # "installing"
        BY <4>1 DEF ApplyCheck, KeepReady, Statuses
      <4>3. [agent.copy EXCEPT !.st = "failed"].st # "installing"
        BY <4>1 DEF Statuses
      <4>4. \/ status' = Nothing \/ status' = [agent.copy EXCEPT !.st = "failed"]
            \/ \E v \in Versions : status' = ApplyCheck(agent.copy, v)
        BY ONLY <3>4 DEF CheckEnd
      <4>5. Nothing.st # "installing"
        BY DEF Nothing
      <4>6. QED BY <4>2, <4>3, <4>4, <4>5
    <3>5. CASE DownloadStart
      BY <3>5, LoadedStatus DEF DownloadStart, Free, Runs, Statuses
    <3>6. CASE DownloadEnd
      BY <3>6 DEF DownloadEnd, Statuses
    <3>7. QED BY <1>2, <3>2, <3>3, <3>4, <3>5, <3>6
  <2>2. QED BY <2>1
<1>3. CASE Install
  BY <1>3, InstallEffect
<1>4. CASE Exit \/ Quit \/ Start
  BY <1>4 DEF Exit, Quit, Start
<1>5. CASE PowerCut
  BY <1>5 DEF PowerCut, Over
<1>6. ASSUME NEW i \in Updaters, Tidy(i) PROVE InstallingHasUpdater'
  BY <1>6 DEF Tidy
<1>7. ASSUME NEW i \in Updaters, Step(i) PROVE InstallingHasUpdater'
  <2>1. CASE Settle(i)
    BY <2>1 DEF Settle, Nothing
  <2>2. CASE Mark(i)
    BY <2>2 DEF Mark, Statuses
  <2>3. CASE ~Settle(i) /\ ~Mark(i)
    <3>1. upd'[i].at \notin {"done", "failed"}
      <4> USE DEF At, Goto
      <4>1. CASE Check(i) \/ Wait(i) \/ Runtime(i) \/ Prepare(i) \/ Place(i) \/ Launch(i)
        BY <4>1 DEF Check, Wait, Runtime, Prepare, Place, Launch
      <4>2. CASE ProbeOk(i) \/ ProbeFail(i) \/ Switch(i) \/ Commit(i)
        BY <4>2 DEF ProbeOk, ProbeFail, Switch, Commit
      <4>3. CASE Recover(i) \/ RolledBack(i) \/ Undo(i)
        BY <4>3 DEF Recover, RolledBack, Undo
      <4>4. QED BY <1>7, <2>3, <4>1, <4>2, <4>3 DEF Step
    <3>2. QED BY <1>7, <3>1, StepFrame
  <2>4. QED BY <2>1, <2>2, <2>3
<1>8. QED BY <1>1, <1>2, <1>3, <1>4, <1>5, <1>6, <1>7 DEF Next

\* What a step of an updater does to the order of versions.
LEMMA OrderedStep ==
  ASSUME TypeInv, Ordered, [Next]_vars
  PROVE  Ordered'
<1> USE DEF TypeInv, TypeOK
<1>1. CASE UNCHANGED vars
  BY <1>1 DEF vars, disk, past, Ordered
<1>2. CASE Watch \/ CheckStart \/ CheckEnd \/ DownloadStart \/ DownloadEnd \/ Exit \/ Quit \/ Start
  <2>1. UNCHANGED <<pointer, dirs, upd, crossed>>
    BY <1>2 DEF Watch, CheckStart, CheckEnd, DownloadStart, DownloadEnd, Exit, Quit, Start, disk, past
  <2>2. QED BY <2>1 DEF Ordered
<1>3. CASE Install
  BY <1>3, InstallEffect DEF Ordered, Before, Over, Versions
<1>4. CASE PowerCut
  BY <1>4 DEF PowerCut, Ordered, disk, Before, Over
<1>5. ASSUME NEW i \in Updaters, Tidy(i) PROVE Ordered'
  BY <1>5 DEF Tidy, Ordered, past
<1>6. ASSUME NEW i \in Updaters, Step(i) PROVE Ordered'
  <2>1. SUFFICES ASSUME crossed = {}
        PROVE  /\ upd'[i].at \in Before => upd[i].target > pointer'
               /\ upd'[i].at \in {"launch", "probe", "switch"} => upd[i].target \in dirs'
               /\ pointer' \in dirs'
    BY <1>6, StepFrame DEF Ordered, Before, Over
  <2>2. /\ upd[i].at \in Before => upd[i].target > pointer
        /\ upd[i].at \in {"launch", "probe", "switch"} => upd[i].target \in dirs
        /\ pointer \in dirs
    BY <2>1 DEF Ordered
  <2> USE DEF At, Goto, Target, Before, Versions
  <2>3. CASE Check(i) \/ Wait(i) \/ Runtime(i)
    BY <2>2, <2>3 DEF Check, Wait, Runtime, disk
  <2>4. CASE Prepare(i)
    BY <2>2, <2>4 DEF Prepare, Removed
  <2>5. CASE Place(i) \/ Launch(i) \/ ProbeOk(i)
    BY <2>2, <2>5 DEF Place, Launch, Removed, ProbeOk, disk, past
  <2>6. CASE ProbeFail(i)
    BY <2>2, <2>6 DEF ProbeFail, Removed
  <2>7. CASE Switch(i)
    BY <2>2, <2>7 DEF Switch
  <2>8. CASE Commit(i)
    BY <2>2, <2>8 DEF Commit, disk
  <2>9. CASE Settle(i) \/ Recover(i) \/ RolledBack(i) \/ Undo(i) \/ Mark(i)
    BY <2>2, <2>9 DEF Settle, Recover, RolledBack, Undo, Mark, disk
  <2>10. QED BY <1>6, <2>3, <2>4, <2>5, <2>6, <2>7, <2>8, <2>9 DEF Step
<1>7. QED BY <1>1, <1>2, <1>3, <1>4, <1>5, <1>6 DEF Next

\* What a step of an updater does to the bundle and to its transaction.
LEMMA ExchangedStep ==
  ASSUME TypeInv, NEW i \in Updaters, Step(i), Exchanged(i)
  PROVE  /\ Exchanged(i)'
         /\ upd'[i].at \in Over => strayed' \/ bundle' = pointer'
<1> USE DEF TypeInv, TypeOK, At, Goto, Target, Over, Exchanged
<1>1. CASE Check(i) \/ Wait(i)
  BY <1>1 DEF Check, Wait, disk, past
<1>2. CASE Runtime(i)
  <2>1. ASSUME Target(i) \in files, bundle' = Target(i),
               upd' = [upd EXCEPT ![i].at = "prepare", ![i].replaced = TRUE, ![i].backup = bundle]
        PROVE  /\ upd'[i].at = "prepare" /\ upd'[i].replaced /\ upd'[i].backup = bundle
               /\ upd'[i].target = upd[i].target
    BY <2>1
  <2>2. UNCHANGED pointer
    BY <1>2 DEF Runtime
  <2>3. QED BY <1>2, <2>1, <2>2 DEF Runtime
<1>3. CASE Prepare(i) \/ Place(i)
  BY <1>3 DEF Prepare, Place, past
<1>4. CASE Launch(i) \/ ProbeOk(i) \/ ProbeFail(i)
  BY <1>4 DEF Launch, ProbeOk, ProbeFail, disk, past
<1>5. CASE Switch(i)
  BY <1>5 DEF Switch, past
<1>6. CASE Commit(i)
  <2>1. upd'[i].at = "settle" /\ UNCHANGED disk
    BY <1>6 DEF Commit
  <2>2. QED BY <1>6, <2>1 DEF Commit, disk
<1>7. CASE Settle(i) \/ Recover(i) \/ RolledBack(i)
  BY <1>7 DEF Settle, Recover, RolledBack, disk, past
<1>8. CASE Undo(i)
  <2>1. /\ upd'[i].at = "mark" /\ ~upd'[i].replaced /\ upd[i].at \in {"undo", "strand"}
        /\ UNCHANGED pointer
    BY <1>8 DEF Undo
  <2>2. strayed' \/ (~strayed /\ bundle' = pointer)
    BY <1>8 DEF Undo
  <2>3. QED BY <2>1, <2>2
<1>10. CASE Mark(i)
  BY <1>10 DEF Mark, disk, past
<1>11. QED BY <1>1, <1>2, <1>3, <1>4, <1>5, <1>6, <1>7, <1>8, <1>10 DEF Step

LEMMA PairedStep ==
  ASSUME TypeInv, Ordered, Paired, [Next]_vars
  PROVE  Paired'
<1> USE DEF TypeInv, TypeOK
<1>1. CASE UNCHANGED vars
  BY <1>1 DEF vars, disk, past, Paired, Exchanged
<1>2. CASE Watch \/ CheckStart \/ CheckEnd \/ DownloadStart \/ DownloadEnd \/ Exit \/ Quit \/ Start
  <2>1. UNCHANGED <<pointer, bundle, upd, crossed, strayed>>
    BY <1>2 DEF Watch, CheckStart, CheckEnd, DownloadStart, DownloadEnd, Exit, Quit, Start, disk, past
  <2>2. QED BY <2>1 DEF Paired, Exchanged
<1>3. CASE Install
  <2>1. SUFFICES ASSUME crossed' = {}
        PROVE  /\ \A j \in Updaters : Exchanged(j)'
               /\ (\A j \in Updaters : upd'[j].at \in Over) => strayed' \/ bundle' = pointer'
    BY DEF Paired
  <2>2. UNCHANGED <<pointer, bundle, strayed>> /\ crossed = {}
    BY <1>3, <2>1, InstallEffect
  <2>3. /\ \A j \in Updaters : Exchanged(j)
        /\ (\A j \in Updaters : upd[j].at \in Over) => strayed \/ bundle = pointer
    BY <2>2 DEF Paired
  <2>4. CASE UNCHANGED upd
    BY <2>2, <2>3, <2>4 DEF Exchanged
  <2>5. ASSUME NEW i \in Updaters, upd[i].at = "none",
               \A j \in Updaters \ {i} : upd'[j] = upd[j],
               \/ upd'[i].at = "dead"
               \/ /\ upd'[i].at = "check" /\ upd'[i].replaced = upd[i].replaced
                  /\ \A j \in Updaters : upd[j].at \in Over
        PROVE  /\ \A j \in Updaters : Exchanged(j)'
               /\ (\A j \in Updaters : upd'[j].at \in Over) => strayed' \/ bundle' = pointer'
    <3>1. (\A j \in Updaters : upd'[j].at \in Over) => \A j \in Updaters : upd[j].at \in Over
      BY <2>5 DEF Over
    <3>2. Exchanged(i)'
      BY <2>2, <2>3, <2>5 DEF Exchanged
    <3>3. \A j \in Updaters \ {i} : Exchanged(j)'
      BY <2>2, <2>3, <2>5 DEF Exchanged
    <3>4. QED BY <2>2, <2>3, <3>1, <3>2, <3>3
  <2>6. QED BY <1>3, <2>1, <2>4, <2>5, InstallEffect
<1>4. CASE PowerCut
  <2>1. UNCHANGED <<pointer, bundle, crossed>> /\ \A i \in Updaters : upd'[i].at \in Over
    BY <1>4 DEF PowerCut, disk, Over
  <2>2. \A i \in Updaters : upd[i].at \in Over => upd'[i] = upd[i]
    BY <1>4 DEF PowerCut
  <2>3. \A i \in Updaters : upd[i].at \notin Over => upd'[i].at = "dead"
    BY <1>4 DEF PowerCut
  <2>4. strayed' = (strayed \/ \E i \in Updaters : upd[i].at \notin Over \cup {"commit"} /\ upd[i].replaced)
    BY <1>4 DEF PowerCut
  <2>5. ASSUME crossed = {} PROVE strayed' \/ bundle = pointer
    <3>1. CASE \A i \in Updaters : upd[i].at \in Over
      BY <2>4, <2>5, <3>1 DEF Paired
    <3>2. ASSUME NEW i \in Updaters, upd[i].at \notin Over PROVE strayed' \/ bundle = pointer
      <4>1. Exchanged(i) /\ upd[i].at \in Steps
        BY <2>5 DEF Paired
      <4>2. QED BY <2>4, <3>2, <4>1 DEF Exchanged, Steps, Over
    <3>3. QED BY <3>1, <3>2
  <2>6. ASSUME crossed = {}, NEW i \in Updaters PROVE Exchanged(i)'
    <3>1. Exchanged(i)
      BY <2>6 DEF Paired
    <3>2. QED BY <2>1, <2>2, <2>3, <3>1 DEF Exchanged, Over
  <2>7. QED BY <2>1, <2>5, <2>6 DEF Paired
<1>5. ASSUME NEW i \in Updaters, Tidy(i) PROVE Paired'
  BY <1>5 DEF Tidy, Paired, Exchanged, past
<1>6. ASSUME NEW i \in Updaters, Step(i) PROVE Paired'
  <2>1. SUFFICES ASSUME crossed = {}
        PROVE  /\ \A j \in Updaters : Exchanged(j)'
               /\ (\A j \in Updaters : upd'[j].at \in Over) => strayed' \/ bundle' = pointer'
    BY <1>6, StepFrame DEF Paired
  <2>2. \A j \in Updaters : Exchanged(j)
    BY <2>1 DEF Paired
  <2>3. \A j \in Updaters \ {i} : upd[j].at \in Over /\ upd'[j] = upd[j]
    BY <1>6, <2>1, StepFrame DEF Ordered
  <2>4. \A j \in Updaters \ {i} : Exchanged(j)'
    BY <2>2, <2>3 DEF Exchanged, Over
  <2>5. QED BY <1>6, <2>2, <2>4, ExchangedStep
<1>7. QED BY <1>1, <1>2, <1>3, <1>4, <1>5, <1>6 DEF Next

LEMMA Invariance == Spec => []IInv
<1>1. Init => IInv
  <2>1. ASSUME Init PROVE InstallingHasUpdater /\ Ordered /\ Paired
    BY <2>1 DEF Init, InstallingHasUpdater, Ordered, Paired, Exchanged, Nothing, Before, Over
  <2>2. QED BY <2>1, InitType DEF IInv
<1>2. IInv /\ [Next]_vars => IInv'
  BY StepType, UnderwayStep, OrderedStep, PairedStep DEF IInv
<1>3. QED BY <1>1, <1>2, PTL DEF Spec

\* After any step that fails, and wherever the power is cut, the version that
\* counts is there to be started, and a status of an update under way has an
\* updater.  When no updater is at work, that version stands with its own Runtime,
\* unless the bundle strayed: the power was cut between the exchange and the
\* pointer, or bringing the old bundle back failed after another step had, and no
\* update succeeded since.  Updates that cross are left out (run_update,
\* RuntimeBundleTransaction, whose Drop ignores failures).
THEOREM InstallationStaysWhole == Spec => []InstallationIsWhole
<1>1. IInv => InstallationIsWhole
  BY DEF IInv, InstallationIsWhole, Startable, BundleFollows, InstallingHasUpdater, Ordered,
         Paired, Over
<1>2. QED BY <1>1, Invariance, PTL

\* However updates follow each other, the version that counts is never older
\* than the one before, as long as no update crosses another.
THEOREM NeverOlder == Spec => NoDowngrade
<1>1. ASSUME TypeInv, Ordered, [Next]_vars
      PROVE  crossed = {} => pointer' >= pointer
  <2> USE DEF TypeInv, TypeOK, Versions
  <2>1. CASE UNCHANGED pointer
    BY <1>1, <2>1
  <2>2. CASE pointer' # pointer
    <3>1. PICK i \in Updaters : Step(i)
      BY <1>1, <2>2, InstallEffect
         DEF Next, vars, disk, Watch, CheckStart, CheckEnd, DownloadStart, DownloadEnd,
             Exit, Quit, Start, PowerCut, Tidy
    <3>2. Switch(i)
      BY <2>2, <3>1 DEF Step, Check, Wait, Runtime, Prepare, Place, Launch, ProbeOk, ProbeFail,
           Commit, Settle, Recover, RolledBack, Undo, Mark, disk
    <3>3. pointer' = upd[i].target /\ upd[i].at = "switch"
      BY <2>2, <3>2 DEF Switch, At, Target
    <3>4. QED BY <1>1, <3>3 DEF Ordered, Before
  <2>3. QED BY <2>1, <2>2
<1>2. IInv /\ [Next]_vars => [crossed = {} => pointer' >= pointer]_vars
  BY <1>1 DEF IInv
<1>3. QED BY <1>2, Invariance, PTL DEF Spec, NoDowngrade
=============================================================================
