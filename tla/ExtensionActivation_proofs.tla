-------------------- MODULE ExtensionActivation_proofs --------------------
(***************************************************************************)
(* Theorems about ExtensionActivation for every set of activators, plugins *)
(* and versions, and every number of switches and faults.                  *)
(***************************************************************************)
EXTENDS ExtensionActivation, WellFoundedInduction, SequenceTheorems, TLAPS

Regs == [Plugins -> Versions \cup {Blank}]
Kinds == {"activate", "rollback", "test"}
Acts == [at : Steps, kind : Kinds, plugin : Plugins \cup {Blank}, version : Versions \cup {Blank},
         prev : Versions \cup {Blank}, journal : Nat, snapshot : Regs, seen : Regs]

\* From the staging of its journal to the end of its rollback an activator works
\* with that journal.
Holding  == Locked \cup {"staged", "switching", "switched", "undo"}
Holds(a) == act[a].at \in Holding

Owned(a) ==
  /\ act[a].journal \in DOMAIN journals /\ Mine(a).plugin = act[a].plugin
  /\ Mine(a).receipt.sha = act[a].version

TInv ==
  /\ TypeOK /\ act \in [Activators -> Acts]
  /\ \A a \in Activators : act[a].at # "idle" => act[a].plugin \in Plugins /\ act[a].version \in Versions
  /\ \A a \in Activators : Holds(a) => Owned(a)

\* A journal has one activator.
Apart == \A a, b \in Activators : Holds(a) /\ Holds(b) /\ a # b => act[a].journal # act[b].journal

\* What the journal of an activator says at each of his steps.
InStep ==
  \A a \in Activators :
    /\ act[a].at \in {"staged", "switching", "switched"} => Mine(a).phase \in {"staged", "rolled_back"}
    /\ act[a].at \in {"committing", "recorded"} => Mine(a).phase = "committing"
    /\ act[a].at \in {"rolling", "rolled"} => Mine(a).phase = "rolling_back"

VInv == TInv /\ Apart /\ InStep

-----------------------------------------------------------------------------
(* A plugin whose switches never overlapped.                               *)

KeptIn(js, p, t) == js[t].plugin = p /\ js[t].phase = "committed"

\* The journals before position n tell that r is the active receipt of p.
Tells(js, p, r, n) ==
  \/ r = None /\ \A t \in DOMAIN js : t < n => ~KeptIn(js, p, t)
  \/ \E t \in DOMAIN js :
       /\ t < n /\ KeptIn(js, p, t) /\ r = js[t].receipt
       /\ \A u \in DOMAIN js : u < n /\ KeptIn(js, p, u) => u <= t

LastOf(js, p, t) == js[t].plugin = p /\ \A u \in DOMAIN js : js[u].plugin = p => u <= t

\* It has one user; a journal that may still be decided is its last one and says
\* what was active before it; with nothing half done the ledger is what the
\* journals tell.
Alone(p)    == \A a, b \in Users(p) : a = b
InHand(p)   == Unfinished(p) \cup {act[a].journal : a \in {b \in Users(p) : Holds(b)}}
FromLast(p) == \A t \in InHand(p) : LastOf(journals, p, t) /\ Tells(journals, p, journals[t].previous, t)
Fresh(p)    == \A a \in Users(p) : act[a].at \in {"place", "placed"} => Unfinished(p) = {}
Settled(p)  == (\A t \in Unfinished(p) : journals[t].phase = "staged")
                 => Tells(journals, p, ledger[p], Len(journals) + 1)
Written(p)  ==
  \A a \in Users(p) : /\ act[a].at = "recorded" => ledger[p] = Mine(a).receipt
                      /\ act[a].at = "rolled" => ledger[p] = Mine(a).previous

LInv == VInv /\ \A p \in Plugins \ crowded : Alone(p) /\ FromLast(p) /\ Fresh(p) /\ Settled(p) /\ Written(p)

\* As long as somebody works on the plugin, an open journal is his.
Attended(p) ==
  Users(p) # {} => \A t \in Unfinished(p) : \E a \in Users(p) : Holds(a) /\ act[a].journal = t

\* Under an open switch the ledger is at one of its two ends.
Between(p) == \A t \in InHand(p) : ledger[p] \in {journals[t].previous, journals[t].receipt}

\* The slots an activator leaves behind, were he to clean up now.
Backed(p, r, S) == r # None => Slot(p, r.sha) \in S
Left(a) == spoiled \cup (IF act[a].kind = "activate" THEN slots \ {Slotted(a)} ELSE slots)
Housed(p) ==
  /\ Backed(p, ledger[p], slots \cup spoiled)
  /\ \A t \in InHand(p) : /\ Backed(p, journals[t].previous, slots \cup spoiled)
                          /\ Backed(p, journals[t].receipt, slots \cup spoiled)
  /\ \A a \in Users(p) :
       /\ act[a].at = "placed" \/ Holds(a) => Slotted(a) \in slots
       /\ act[a].at = "clean" => act[a].kind = "activate"
       /\ Backed(p, IF Holds(a) THEN Mine(a).previous ELSE ledger[p], Left(a))

\* While the registry is restored for another plugin, the entry that this one will
\* have again is the one that was read before.
Elsewhere(p) == {a \in Rewriters : act[a].plugin # p}
Entries(p) == IF Elsewhere(p) = {} THEN {registry[p]} ELSE {act[a].seen[p] : a \in Elsewhere(p)}

\* An entry with which recover leaves the plugin loaded from its active version.
Fits(p, e) ==
  /\ \A t \in Unfinished(p) : \/ journals[t].phase = "staged"
                              \/ journals[t].phase = "committing" /\ e = journals[t].receipt.sha
  /\ (\A t \in Unfinished(p) : journals[t].phase = "staged") => e = ledger[p].sha

\* The entry of a plugin at each step of its activator.
Unwritten == {"place", "placed", "staged", "switching", "register", "registering", "clean"}
Serves(a, p, e) ==
  /\ act[a].at \in Unwritten => e = ledger[p].sha
  /\ act[a].at \in {"place", "placed"} /\ act[a].kind # "activate" => act[a].snapshot[p] = e
  /\ act[a].at \in {"register", "registering", "restore", "restoring"} => act[a].snapshot[p] = ledger[p].sha
  /\ Holds(a) => act[a].snapshot[p] = Mine(a).previous.sha
  /\ act[a].at \in {"switched", "committing", "recorded"} => e = act[a].version

Held(p, e) ==
  /\ Users(p) = {} => Fits(p, e)
  /\ \A a \in Users(p) : Serves(a, p, e)

\* The registry of a plugin that no restore for another caught.
Loaded(p) ==
  /\ \A a, b \in Rewriters : a = b
  /\ Elsewhere(p) # {} => Users(p) = {}
  /\ Rewriters \ Elsewhere(p) # {} => RegistryFree
  /\ \A e \in Entries(p) :
       /\ Held(p, e)
       /\ \A b \in Activators : act[b].at \in Writing /\ act[b].plugin # p => act[b].seen[p] = e

SInv ==
  /\ LInv
  /\ \A p \in Plugins \ (crowded \cup incomplete) : Attended(p) /\ Between(p) /\ Housed(p)
  /\ \A p \in Plugins \ (crowded \cup incomplete \cup torn \cup trampled) : Loaded(p)

-----------------------------------------------------------------------------
(* Types.                                                                  *)

ActTypes(ac) ==
  /\ ac \in [Activators -> Acts]
  /\ \A a \in Activators : ac[a].at # "idle" => ac[a].plugin \in Plugins /\ ac[a].version \in Versions
LockTypes(ac) ==
  \A a \in Activators :
    /\ ac[a].at \in Locked => \A b \in Activators \ {a} : ac[b].at \notin Locked
    /\ ac[a].at \in Writing => \A b \in Activators \ {a} : ac[b].at \notin Writing
Owners(ac, js) ==
  \A a \in Activators : ac[a].at \in Holding =>
    /\ ac[a].journal \in DOMAIN js /\ js[ac[a].journal].plugin = ac[a].plugin
    /\ js[ac[a].journal].receipt.sha = ac[a].version
JournalTypes(js) == js \in Seq(Journals) /\ Len(js) <= MaxSwitches
PlaceTypes(ld, rg, sl) ==
  /\ ld \in [Plugins -> Receipts] /\ rg \in Regs
  /\ sl \subseteq Plugins \X Versions
HistoryTypes(sp, cr, ic, tn, tr) ==
  /\ sp \subseteq Plugins \X Versions
  /\ cr \subseteq Plugins /\ ic \subseteq Plugins /\ tn \subseteq Plugins /\ tr \subseteq Plugins

LEMMA Split ==
  /\ TInv <=> /\ ActTypes(act) /\ LockTypes(act) /\ Owners(act, journals) /\ JournalTypes(journals)
              /\ PlaceTypes(ledger, registry, slots)
              /\ HistoryTypes(spoiled, crowded, incomplete, torn, trampled)
  /\ TInv' <=> /\ ActTypes(act') /\ LockTypes(act') /\ Owners(act', journals')
               /\ JournalTypes(journals') /\ PlaceTypes(ledger', registry', slots')
               /\ HistoryTypes(spoiled', crowded', incomplete', torn', trampled')
<1>1. \A x \in Acts : x.at \in Steps /\ x.kind \in {"activate", "rollback", "test"}
  BY DEF Acts, Kinds
<1>2. act \in [Activators -> Acts] => \A a \in Activators : act[a] \in Acts
  OBVIOUS
<1>3. act' \in [Activators -> Acts] => \A a \in Activators : act'[a] \in Acts
  OBVIOUS
<1>4. TInv <=> /\ ActTypes(act) /\ LockTypes(act) /\ Owners(act, journals)
               /\ JournalTypes(journals) /\ PlaceTypes(ledger, registry, slots)
               /\ HistoryTypes(spoiled, crowded, incomplete, torn, trampled)
  BY <1>1, <1>2 DEF TInv, TypeOK, ActTypes, LockTypes, Owners, JournalTypes, PlaceTypes, HistoryTypes,
                    Holds, Owned, Mine, Regs
<1>5. TInv' <=> /\ ActTypes(act') /\ LockTypes(act') /\ Owners(act', journals')
                /\ JournalTypes(journals') /\ PlaceTypes(ledger', registry', slots')
                /\ HistoryTypes(spoiled', crowded', incomplete', torn', trampled')
  BY <1>1, <1>3 DEF TInv, TypeOK, ActTypes, LockTypes, Owners, JournalTypes, PlaceTypes, HistoryTypes,
                    Holds, Owned, Mine, Regs
<1>6. QED BY <1>4, <1>5

LEMMA Shas == \A r \in Receipts : r.sha \in Versions \cup {Blank}
<1>1. None.sha = Blank
  BY DEF None, Blank
<1>2. \A r \in [sha : Versions, prev : Versions \cup {Blank}] : r.sha \in Versions
  OBVIOUS
<1>3. QED BY <1>1, <1>2 DEF Receipts

LEMMA NothingTyped == Nothing \in Regs
BY DEF Nothing, Regs

\* The fields of an activator after each kind of assignment.
Moves(a, s, x) == act' = [act EXCEPT ![a].at = s, ![a].seen = x]

LEMMA MovesFields ==
  ASSUME act \in [Activators -> Acts], NEW a \in Activators, NEW s \in Steps, NEW x \in Regs,
         Moves(a, s, x)
  PROVE  /\ act' \in [Activators -> Acts]
         /\ \A b \in Activators : b # a => act'[b] = act[b]
         /\ act'[a].at = s /\ act'[a].kind = act[a].kind /\ act'[a].plugin = act[a].plugin
         /\ act'[a].version = act[a].version /\ act'[a].prev = act[a].prev
         /\ act'[a].journal = act[a].journal /\ act'[a].snapshot = act[a].snapshot
         /\ act'[a].seen = x
<1> DEFINE e == [act[a] EXCEPT !.at = s, !.seen = x]
<1>1. act[a] \in Acts
  OBVIOUS
<1>2. /\ e \in Acts /\ e.at = s /\ e.kind = act[a].kind /\ e.plugin = act[a].plugin
      /\ e.version = act[a].version /\ e.prev = act[a].prev
      /\ e.journal = act[a].journal /\ e.snapshot = act[a].snapshot /\ e.seen = x
  BY ONLY <1>1, s \in Steps, x \in Regs DEF Acts
<1>3. act' = [act EXCEPT ![a] = e]
  BY DEF Moves
<1> HIDE DEF e
<1>4. QED BY <1>2, <1>3

LEMMA GotoFields ==
  ASSUME act \in [Activators -> Acts], NEW a \in Activators, NEW s \in Steps, Goto(a, s)
  PROVE  /\ act' \in [Activators -> Acts]
         /\ \A b \in Activators : b # a => act'[b] = act[b]
         /\ act'[a].at = s /\ act'[a].kind = act[a].kind /\ act'[a].plugin = act[a].plugin
         /\ act'[a].version = act[a].version /\ act'[a].prev = act[a].prev
         /\ act'[a].journal = act[a].journal /\ act'[a].snapshot = act[a].snapshot
<1>1. Moves(a, s, Nothing)
  BY DEF Moves, Goto
<1>2. QED BY <1>1, MovesFields, NothingTyped

LEMMA IdleTyped == Idle \in Acts /\ Idle.at = "idle" /\ Idle.kind = "activate"
BY NothingTyped DEF Idle, Acts, Steps, Locked, Kinds

LEMMA DoneFields ==
  ASSUME act \in [Activators -> Acts], NEW a \in Activators, Done(a)
  PROVE  /\ act' \in [Activators -> Acts] /\ act'[a] = Idle /\ Idle.at = "idle"
         /\ \A b \in Activators : b # a => act'[b] = act[b]
BY IdleTyped DEF Done

LEMMA StageFields ==
  ASSUME act \in [Activators -> Acts], NEW a \in Activators, Stage(a), Len(journals') \in Nat,
         registry \in Regs
  PROVE  /\ act' \in [Activators -> Acts]
         /\ \A b \in Activators : b # a => act'[b] = act[b]
         /\ act'[a].at = "staged" /\ act'[a].kind = act[a].kind /\ act'[a].plugin = act[a].plugin
         /\ act'[a].version = act[a].version /\ act'[a].journal = Len(journals')
         /\ act'[a].snapshot = IF act[a].kind = "activate" THEN registry ELSE act[a].snapshot
<1> DEFINE snap == IF act[a].kind = "activate" THEN registry ELSE act[a].snapshot
           e == [act[a] EXCEPT !.at = "staged", !.journal = Len(journals'), !.snapshot = snap]
<1>1. act[a] \in Acts
  OBVIOUS
<1>2. snap \in Regs /\ "staged" \in Steps
  BY <1>1 DEF Acts, Steps
<1>3. act' = [act EXCEPT ![a] = e]
  BY DEF Stage
<1>4. PICK n \in Nat : n = Len(journals')
  OBVIOUS
<1>5. e = [act[a] EXCEPT !.at = "staged", !.journal = n, !.snapshot = snap]
  BY <1>4
<1> HIDE DEF snap, e
<1>6. /\ e \in Acts /\ e.at = "staged" /\ e.kind = act[a].kind /\ e.plugin = act[a].plugin
      /\ e.version = act[a].version /\ e.journal = n /\ e.snapshot = snap
  BY ONLY <1>1, <1>2, <1>5, n \in Nat DEF Acts
<1>7. /\ act' \in [Activators -> Acts] /\ act'[a] = e
      /\ \A b \in Activators : b # a => act'[b] = act[b]
  BY <1>3, <1>6
<1>8. QED BY <1>4, <1>6, <1>7 DEF snap

\* The three ways to begin.
LEMMA Begins ==
  ASSUME TInv, NEW a \in Activators, NEW p \in Plugins
  PROVE  /\ \A v \in Versions : Activate(a, p, v) =>
              /\ act' \in [Activators -> Acts]
              /\ \A b \in Activators : b # a => act'[b] = act[b]
              /\ act'[a].at = "place" /\ act'[a].kind = "activate" /\ act'[a].plugin = p
              /\ act'[a].version = v
         /\ RollBack(a, p) =>
              /\ act' \in [Activators -> Acts]
              /\ \A b \in Activators : b # a => act'[b] = act[b]
              /\ act'[a].at = "placed" /\ act'[a].kind = "rollback" /\ act'[a].plugin = p
              /\ act'[a].version = ledger[p].prev /\ act'[a].snapshot = registry
              /\ ledger[p].prev \in Versions
         /\ \A v \in Versions : Test(a, p, v) =>
              /\ act' \in [Activators -> Acts]
              /\ \A b \in Activators : b # a => act'[b] = act[b]
              /\ act'[a].at = "register" /\ act'[a].kind = "test" /\ act'[a].plugin = p
              /\ act'[a].version = v /\ act'[a].snapshot = registry
<1>1. act \in [Activators -> Acts] /\ PlaceTypes(ledger, registry, slots)
  BY Split DEF ActTypes
<1>2. /\ registry \in Regs /\ ledger[p] \in Receipts
      /\ Blank \in Versions \cup {Blank}
      /\ "place" \in Steps /\ "placed" \in Steps /\ "register" \in Steps
      /\ "activate" \in Kinds /\ "rollback" \in Kinds /\ "test" \in Kinds
  BY <1>1 DEF PlaceTypes, Steps, Kinds
<1>3. ASSUME NEW v \in Versions, Activate(a, p, v)
      PROVE  /\ act' \in [Activators -> Acts]
             /\ \A b \in Activators : b # a => act'[b] = act[b]
             /\ act'[a].at = "place" /\ act'[a].kind = "activate" /\ act'[a].plugin = p
             /\ act'[a].version = v
  <2> DEFINE e == [Idle EXCEPT !.at = "place", !.plugin = p, !.version = v]
  <2>1. e \in Acts /\ e.at = "place" /\ e.kind = "activate" /\ e.plugin = p /\ e.version = v
    BY <1>2, IdleTyped DEF Acts
  <2>2. act' = [act EXCEPT ![a] = e]
    BY <1>3 DEF Activate
  <2> HIDE DEF e
  <2>3. QED BY <1>1, <2>1, <2>2
<1>4. ASSUME RollBack(a, p)
      PROVE  /\ act' \in [Activators -> Acts]
             /\ \A b \in Activators : b # a => act'[b] = act[b]
             /\ act'[a].at = "placed" /\ act'[a].kind = "rollback" /\ act'[a].plugin = p
             /\ act'[a].version = ledger[p].prev /\ act'[a].snapshot = registry
             /\ ledger[p].prev \in Versions
  <2> DEFINE v == ledger[p].prev
             w == ledger[p].sha
             e == [Idle EXCEPT !.at = "placed", !.kind = "rollback", !.plugin = p, !.version = v,
                               !.prev = w, !.snapshot = registry]
  <2>1. ledger[p] # None /\ v # Blank
    BY <1>4 DEF RollBack
  <2>2. v \in Versions /\ w \in Versions \cup {Blank}
    BY <1>2, <2>1, Shas DEF Receipts
  <2>3. act' = [act EXCEPT ![a] = e]
    BY <1>4 DEF RollBack
  <2> HIDE DEF v, w
  <2>4. /\ e \in Acts /\ e.at = "placed" /\ e.kind = "rollback" /\ e.plugin = p /\ e.version = v
        /\ e.snapshot = registry
    BY <1>2, <2>2, IdleTyped DEF Acts
  <2> HIDE DEF e
  <2>5. QED BY <1>1, <2>2, <2>3, <2>4 DEF v
<1>5. ASSUME NEW v \in Versions, Test(a, p, v)
      PROVE  /\ act' \in [Activators -> Acts]
             /\ \A b \in Activators : b # a => act'[b] = act[b]
             /\ act'[a].at = "register" /\ act'[a].kind = "test" /\ act'[a].plugin = p
             /\ act'[a].version = v /\ act'[a].snapshot = registry
  <2> DEFINE e == [Idle EXCEPT !.at = "register", !.kind = "test", !.plugin = p, !.version = v,
                               !.snapshot = registry]
  <2>1. /\ e \in Acts /\ e.at = "register" /\ e.kind = "test" /\ e.plugin = p /\ e.version = v
        /\ e.snapshot = registry
    BY <1>2, IdleTyped DEF Acts
  <2>2. act' = [act EXCEPT ![a] = e]
    BY <1>5 DEF Test
  <2> HIDE DEF e
  <2>3. QED BY <1>1, <2>1, <2>2
<1>6. QED BY <1>3, <1>4, <1>5

-----------------------------------------------------------------------------
(* The journals.                                                           *)

\* A journal keeps what it was staged with.
Keeps(js, ks) ==
  \A t \in DOMAIN js :
    /\ t \in DOMAIN ks /\ ks[t].plugin = js[t].plugin
    /\ ks[t].receipt = js[t].receipt /\ ks[t].previous = js[t].previous

LEMMA JournalFacts ==
  ASSUME NEW js \in Seq(Journals)
  PROVE  /\ Len(js) \in Nat /\ DOMAIN js = 1 .. Len(js)
         /\ \A t \in DOMAIN js : /\ js[t] \in Journals /\ js[t].plugin \in Plugins
                                 /\ js[t].phase \in Phases
                                 /\ js[t].receipt \in Receipts /\ js[t].previous \in Receipts
<1>1. Len(js) \in Nat /\ DOMAIN js = 1 .. Len(js) /\ \A t \in 1 .. Len(js) : js[t] \in Journals
  BY ElementOfSeq, LenProperties
<1>2. QED BY <1>1 DEF Journals

\* One phase changes.
LEMMA PhaseSet ==
  ASSUME JournalTypes(journals), NEW a \in Activators, act[a].journal \in DOMAIN journals,
         NEW ph \in Phases, SetPhase(a, ph)
  PROVE  /\ JournalTypes(journals') /\ Keeps(journals, journals') /\ Len(journals') = Len(journals)
         /\ DOMAIN journals' = DOMAIN journals
         /\ journals'[act[a].journal].phase = ph
         /\ \A t \in DOMAIN journals : t # act[a].journal => journals'[t] = journals[t]
<1> DEFINE n == act[a].journal
           e == [journals[n] EXCEPT !.phase = ph]
<1>1. journals \in Seq(Journals) /\ n \in 1 .. Len(journals) /\ journals[n] \in Journals
      /\ DOMAIN journals = 1 .. Len(journals) /\ Len(journals) \in Nat
  BY JournalFacts DEF JournalTypes
<1>2. /\ e \in Journals /\ e.phase = ph /\ e.plugin = journals[n].plugin
      /\ e.receipt = journals[n].receipt /\ e.previous = journals[n].previous
  BY ONLY <1>1, ph \in Phases DEF Journals
<1>3. journals' = [journals EXCEPT ![n] = e]
  BY DEF SetPhase
<1> HIDE DEF n, e
<1>4. /\ journals' \in Seq(Journals) /\ Len(journals') = Len(journals)
      /\ DOMAIN journals' = DOMAIN journals /\ journals'[n] = e
      /\ \A t \in DOMAIN journals : t # n => journals'[t] = journals[t]
  BY <1>1, <1>2, <1>3, ExceptSeq
<1>5. Keeps(journals, journals')
  BY <1>2, <1>4 DEF Keeps
<1>6. QED BY <1>2, <1>4, <1>5 DEF JournalTypes, n

\* A journal is added.
LEMMA JournalStaged ==
  ASSUME TInv, NEW a \in Activators, Stage(a)
  PROVE  LET n == Len(journals') IN
         /\ JournalTypes(journals') /\ n = Len(journals) + 1 /\ n \in DOMAIN journals'
         /\ DOMAIN journals' = DOMAIN journals \cup {n} /\ n \notin DOMAIN journals
         /\ \A t \in DOMAIN journals : journals'[t] = journals[t] /\ t < n
         /\ Keeps(journals, journals')
         /\ journals'[n].plugin = act[a].plugin /\ journals'[n].phase = "staged"
         /\ journals'[n].previous = ledger[act[a].plugin]
         /\ journals'[n].receipt.sha = act[a].version
<1> DEFINE p == act[a].plugin
           prev == IF act[a].kind = "activate" THEN ledger[p].sha ELSE act[a].prev
           e == [plugin |-> p, phase |-> "staged", previous |-> ledger[p],
                 receipt |-> [sha |-> act[a].version, prev |-> prev]]
<1>1. /\ JournalTypes(journals) /\ journals \in Seq(Journals) /\ Len(journals) \in Nat
      /\ DOMAIN journals = 1 .. Len(journals)
      /\ ledger \in [Plugins -> Receipts] /\ act[a] \in Acts
      /\ act[a].at = "placed" => p \in Plugins /\ act[a].version \in Versions
  BY Split, JournalFacts DEF JournalTypes, PlaceTypes, ActTypes
<1>2. /\ act[a].at = "placed" /\ Len(journals) < MaxSwitches /\ journals' = Append(journals, e)
  BY DEF Stage, At
<1>3. p \in Plugins /\ act[a].version \in Versions
  BY <1>1, <1>2
<1>4. prev \in Versions \cup {Blank}
  <2>1. ledger[p] \in Receipts /\ act[a].prev \in Versions \cup {Blank}
    BY <1>1, <1>3 DEF Acts
  <2>2. ledger[p].sha \in Versions \cup {Blank}
    BY <2>1, Shas
  <2>3. QED BY <2>1, <2>2
<1>5. ledger[p] \in Receipts /\ "staged" \in Phases
  BY <1>1, <1>3 DEF Phases
<1>6. /\ e \in Journals /\ e.plugin = p /\ e.phase = "staged" /\ e.previous = ledger[p]
      /\ e.receipt.sha = act[a].version
  <2>1. [sha |-> act[a].version, prev |-> prev] \in Receipts
    <3> HIDE DEF prev
    <3>1. QED BY <1>3, <1>4 DEF Receipts
  <2> HIDE DEF prev, p
  <2>2. QED BY <1>3, <1>5, <2>1 DEF Journals
<1> HIDE DEF e
<1>7. /\ journals' \in Seq(Journals) /\ Len(journals') = Len(journals) + 1
      /\ DOMAIN journals' = 1 .. (Len(journals) + 1)
      /\ \A t \in 1 .. Len(journals) : journals'[t] = journals[t]
      /\ journals'[Len(journals) + 1] = e
  BY <1>1, <1>2, <1>6, AppendProperties, JournalFacts
<1>8. /\ Len(journals') <= MaxSwitches /\ DOMAIN journals' = DOMAIN journals \cup {Len(journals')}
      /\ Len(journals') \notin DOMAIN journals /\ \A t \in DOMAIN journals : t < Len(journals')
  BY <1>1, <1>2, <1>7, ActivationAssumption
<1>9. Keeps(journals, journals')
  BY <1>1, <1>7, <1>8 DEF Keeps
<1>10. QED BY <1>1, <1>6, <1>7, <1>8, <1>9 DEF JournalTypes

\* recover decides every journal.
LEMMA JournalsRecovered ==
  ASSUME JournalTypes(journals), Recover
  PROVE  /\ JournalTypes(journals') /\ Keeps(journals, journals') /\ Len(journals') = Len(journals)
         /\ DOMAIN journals' = DOMAIN journals
         /\ \A t \in DOMAIN journals : /\ journals'[t].phase = Verdict(journals[t])
                                       /\ journals'[t].phase \in Final
<1> DEFINE g(t) == [journals[t] EXCEPT !.phase = Verdict(journals[t])]
<1>1. journals \in Seq(Journals) /\ Len(journals) \in Nat /\ DOMAIN journals = 1 .. Len(journals)
      /\ \A t \in DOMAIN journals : journals[t] \in Journals
  BY JournalFacts DEF JournalTypes
<1>2. journals' = [t \in 1 .. Len(journals) |-> g(t)]
  BY <1>1 DEF Recover
<1>3. ASSUME NEW t \in 1 .. Len(journals)
      PROVE  /\ g(t) \in Journals /\ g(t).phase = Verdict(journals[t]) /\ g(t).phase \in Final
             /\ g(t).plugin = journals[t].plugin /\ g(t).receipt = journals[t].receipt
             /\ g(t).previous = journals[t].previous
  <2>1. Verdict(journals[t]) \in Phases /\ Verdict(journals[t]) \in Final
    BY DEF Verdict, Phases, Final
  <2>2. journals[t] \in Journals
    BY <1>1
  <2>3. QED BY ONLY <2>1, <2>2 DEF Journals
<1> HIDE DEF g
<1>4. journals' \in Seq(Journals) /\ Len(journals') = Len(journals)
      /\ DOMAIN journals' = DOMAIN journals /\ \A t \in DOMAIN journals : journals'[t] = g(t)
  BY <1>1, <1>2, <1>3, IsASeq, LenProperties
<1>5. Keeps(journals, journals')
  BY <1>1, <1>3, <1>4 DEF Keeps
<1>6. QED BY <1>1, <1>3, <1>4, <1>5 DEF JournalTypes

-----------------------------------------------------------------------------
(* The steps of an activator that is at work.                              *)

Moving(a) ==
  \/ Place(a) \/ Read(a) \/ Switch(a) \/ Commit(a) \/ Record(a) \/ Committed(a)
  \/ Reverse(a) \/ Failure(a) \/ Crash(a)

LEMMA Steers ==
  ASSUME TInv, NEW a \in Activators, Moving(a)
  PROVE  /\ ~At(a, "idle")
         /\ \/ Done(a)
            \/ \E s \in Steps \ {"idle"}, x \in Regs :
                 /\ Moves(a, s, x) /\ (s \in Holding => Holds(a))
                 /\ s \in Locked => LockFree \/ act[a].at \in Locked
                 /\ s \in Writing => RegistryFree
<1> DEFINE Goal == /\ ~At(a, "idle")
                   /\ \/ Done(a)
                      \/ \E s \in Steps \ {"idle"}, x \in Regs :
                           /\ Moves(a, s, x) /\ (s \in Holding => Holds(a))
                           /\ s \in Locked => LockFree \/ act[a].at \in Locked
                           /\ s \in Writing => RegistryFree
<1>1. ASSUME NEW s \in Steps \ {"idle"}, ~At(a, "idle"), Goto(a, s), s \in Holding => Holds(a),
             s \in Locked => LockFree \/ act[a].at \in Locked, s \notin Writing
      PROVE  Goal
  <2>1. Moves(a, s, Nothing)
    BY <1>1 DEF Moves, Goto
  <2>2. QED BY <1>1, <2>1, NothingTyped
<1>2. CASE Place(a)
  BY <1>1, <1>2 DEF Place, At, Steps, Locked, Holding, Writing
<1>3. CASE CommitFails(a)
  BY <1>1, <1>3 DEF CommitFails, Fails, At, Steps, Locked, Holding, Holds, Writing
<1>4. CASE Commit(a)
  BY <1>1, <1>4 DEF Commit, At, Steps, Locked, Holding, Holds, Writing
<1>5. CASE Record(a) \/ RecordFails(a)
  BY <1>1, <1>5 DEF Record, RecordFails, Fails, At, Steps, Locked, Holding, Holds, Writing
<1>6. CASE Committed(a) \/ CommittedFails(a)
  BY <1>1, <1>6 DEF Committed, CommittedFails, HalfCommitted, Fails, At, Steps, Locked, Holding, Holds,
                    Writing
<1>7. CASE Undo(a) \/ UndoFails(a)
  <2>1. ~At(a, "idle") /\ act[a].at = "undo" /\ LockFree
        /\ (Goto(a, "restore") \/ Goto(a, "rolling"))
    BY <1>7 DEF Undo, UndoFails, FailsAgain, At
  <2>2. QED BY <1>1, <2>1 DEF Steps, Locked, Holding, Holds, Writing
<1>8. CASE Unrecord(a) \/ UnrecordFails(a)
  BY <1>1, <1>8 DEF Unrecord, UnrecordFails, FailsAgain, At, Steps, Locked, Holding, Holds, Writing
<1>9. CASE RolledBack(a) \/ RolledBackFails(a)
  BY <1>1, <1>9 DEF RolledBack, RolledBackFails, FailsAgain, At, Steps, Locked, Holding, Holds, Writing
<1>10. CASE Restore(a) \/ RestoreFails(a) \/ RestoreCutOff(a)
  <2>1. ~At(a, "idle") /\ (Done(a) \/ Goto(a, "clean"))
    BY <1>10 DEF Restore, RestoreFails, RestoreCutOff, AfterRestore, At
  <2>2. QED BY <1>1, <2>1 DEF Steps, Locked, Holding, Writing
<1>11. CASE Clean(a) \/ PlaceFails(a) \/ Crash(a)
  BY <1>11 DEF Clean, PlaceFails, Crash, At
<1>12. CASE StageFails(a)
  BY <1>1, <1>12 DEF StageFails, At, Steps, Locked, Holding, Holds, Writing
<1>13. registry \in Regs
  BY Split DEF PlaceTypes
<1>14. CASE Read(a)
  <2>1. ~At(a, "idle") /\ RegistryFree
    BY <1>14 DEF Read, At
  <2>2. \/ act[a].at = "staged" /\ Moves(a, "switching", registry)
        \/ Moves(a, "registering", registry)
    BY <1>14 DEF Read, Moves
  <2>3. "switching" \in Steps \ {"idle"} /\ "registering" \in Steps \ {"idle"}
    BY DEF Steps, Writing
  <2>4. "registering" \notin Holding /\ "registering" \notin Locked /\ "switching" \notin Locked
        /\ (act[a].at = "staged" => Holds(a))
    BY DEF Holding, Locked, Holds
  <2>5. QED BY <1>13, <2>1, <2>2, <2>3, <2>4
<1>15. CASE Switch(a) \/ SwitchFails(a)
  <2>1. ~At(a, "idle")
    BY <1>15 DEF Switch, SwitchFails, At, Writing
  <2>2. \/ Goto(a, "restore")
        \/ Holds(a) /\ (Goto(a, "switched") \/ Goto(a, "undo"))
    BY <1>15 DEF Switch, SwitchFails, Fails, At, Writing, Holds, Holding
  <2>3. QED BY <1>1, <2>1, <2>2 DEF Steps, Locked, Holding, Writing
<1>16. CASE Truncate(a)
  <2>1. ~At(a, "idle") /\ Moves(a, "restoring", registry)
    BY <1>16 DEF Truncate, Moves, At
  <2>2. QED BY <1>13, <2>1 DEF Steps, Locked, Holding, Writing
<1>17. QED BY <1>2, <1>3, <1>4, <1>5, <1>6, <1>7, <1>8, <1>9, <1>10, <1>11, <1>12, <1>14, <1>15, <1>16
           DEF Moving, Reverse, Failure

\* Nobody takes up a journal but by staging it.
Heirs == \A b \in Activators : act'[b].at \in Holding =>
           /\ Holds(b) /\ act'[b].journal = act[b].journal /\ act'[b].plugin = act[b].plugin
           /\ act'[b].version = act[b].version

LEMMA MovingActs ==
  ASSUME TInv, NEW a \in Activators, Moving(a)
  PROVE  /\ ActTypes(act') /\ LockTypes(act') /\ Heirs
         /\ \A b \in Activators : b # a => act'[b] = act[b]
<1>1. act \in [Activators -> Acts] /\ ActTypes(act) /\ LockTypes(act)
  BY Split DEF ActTypes
<1>2. CASE Done(a)
  <2>1. /\ act' \in [Activators -> Acts] /\ act'[a].at = "idle"
        /\ \A b \in Activators : b # a => act'[b] = act[b]
    BY <1>1, <1>2, DoneFields
  <2>2. ActTypes(act')
    BY <1>1, <2>1 DEF ActTypes
  <2>3. LockTypes(act')
    BY <1>1, <2>1 DEF LockTypes, Locked, Writing
  <2>4. Heirs
    BY <2>1 DEF Heirs, Holds, Holding, Locked
  <2>5. QED BY <2>1, <2>2, <2>3, <2>4
<1>3. ASSUME NEW s \in Steps \ {"idle"}, NEW x \in Regs, ~At(a, "idle"), Moves(a, s, x),
             s \in Holding => Holds(a), s \in Locked => LockFree \/ act[a].at \in Locked,
             s \in Writing => RegistryFree
      PROVE  /\ ActTypes(act') /\ LockTypes(act') /\ Heirs
             /\ \A b \in Activators : b # a => act'[b] = act[b]
  <2>1. /\ act' \in [Activators -> Acts]
        /\ \A b \in Activators : b # a => act'[b] = act[b]
        /\ act'[a].at = s /\ act'[a].plugin = act[a].plugin
        /\ act'[a].version = act[a].version /\ act'[a].journal = act[a].journal
    BY <1>1, <1>3, MovesFields
  <2>2. ActTypes(act')
    BY <1>1, <1>3, <2>1 DEF ActTypes, At
  <2>3. LockTypes(act')
    <3>1. \A b \in Activators :
             b # a => /\ s \in Locked => act[b].at \notin Locked
                      /\ s \in Writing => act[b].at \notin Writing
      BY <1>1, <1>3 DEF LockTypes, LockFree, RegistryFree
    <3>2. ASSUME NEW b \in Activators, NEW c \in Activators \ {b}
          PROVE  /\ act'[b].at \in Locked => act'[c].at \notin Locked
                 /\ act'[b].at \in Writing => act'[c].at \notin Writing
      <4>1. CASE b = a
        <5>1. c # a /\ act'[c].at = act[c].at /\ act'[b].at = s
          BY <2>1, <4>1
        <5>2. QED BY <3>1, <5>1
      <4>2. CASE c = a
        <5>1. b # a /\ act'[b].at = act[b].at /\ act'[c].at = s
          BY <2>1, <4>2
        <5>2. QED BY <3>1, <5>1
      <4>3. CASE b # a /\ c # a
        BY <1>1, <2>1, <3>2, <4>3 DEF LockTypes
      <4>4. QED BY <4>1, <4>2, <4>3
    <3>3. QED BY <3>2 DEF LockTypes
  <2>4. Heirs
    BY <1>3, <2>1 DEF Heirs, Holds
  <2>5. QED BY <2>1, <2>2, <2>3, <2>4
<1>4. QED BY <1>2, <1>3, Steers

\* The journals stay as they are, or one phase changes.
LEMMA MovingJournals ==
  ASSUME NEW a \in Activators, Moving(a)
  PROVE  \/ journals' = journals
         \/ /\ Commit(a) /\ Committable(Mine(a)) /\ SetPhase(a, "committing")
            /\ Holds(a) /\ act[a].at = "switched"
         \/ Committed(a) /\ SetPhase(a, "committed") /\ Holds(a) /\ act[a].at = "recorded"
         \/ Undo(a) /\ SetPhase(a, AfterUndo(Mine(a).phase)) /\ Holds(a) /\ act[a].at = "undo"
         \/ RolledBack(a) /\ SetPhase(a, "rolled_back") /\ Holds(a) /\ act[a].at = "rolled"
<1>1. CASE Place(a) \/ Read(a) \/ Switch(a) \/ Record(a) \/ Crash(a) \/ Failure(a)
  BY <1>1 DEF Place, Read, Switch, Record, Crash, Failure, PlaceFails, StageFails, SwitchFails, CommitFails,
              RecordFails, CommittedFails, UndoFails, UnrecordFails, RolledBackFails, RestoreFails,
              RestoreCutOff,
              disk
<1>2. CASE Unrecord(a) \/ Truncate(a) \/ Restore(a) \/ Clean(a)
  BY <1>2 DEF Unrecord, Truncate, Restore, Clean
<1>3. CASE Commit(a)
  BY <1>3 DEF Commit, At, Holds, Holding
<1>4. CASE Committed(a)
  BY <1>4 DEF Committed, At, Holds, Holding, Locked
<1>5. CASE Undo(a)
  BY <1>5 DEF Undo, At, Holds, Holding
<1>6. CASE RolledBack(a)
  BY <1>6 DEF RolledBack, At, Holds, Holding, Locked
<1>7. QED BY <1>1, <1>2, <1>3, <1>4, <1>5, <1>6 DEF Moving, Reverse

LEMMA KeepsSame ==
  \A js, ks : ks = js => Keeps(js, ks)
BY DEF Keeps

LEMMA MovingKeeps ==
  ASSUME TInv, NEW a \in Activators, Moving(a)
  PROVE  /\ JournalTypes(journals') /\ Keeps(journals, journals') /\ Len(journals') = Len(journals)
         /\ DOMAIN journals' = DOMAIN journals
         /\ \A t \in DOMAIN journals :
              (Holds(a) => t # act[a].journal) => journals'[t] = journals[t]
<1>1. JournalTypes(journals) /\ (Holds(a) => act[a].journal \in DOMAIN journals)
  BY Split DEF Owners, Holds
<1>2. CASE journals' = journals
  BY <1>1, <1>2, KeepsSame
<1>3. CASE Holds(a) /\ \E ph \in Phases : SetPhase(a, ph)
  BY <1>1, <1>3, PhaseSet
<1>4. AfterUndo(Mine(a).phase) \in Phases
  BY DEF AfterUndo, Phases
<1>5. QED BY <1>2, <1>3, <1>4, MovingJournals DEF Phases

\* Those who keep their journal keep what it says.
LEMMA OwnersKept ==
  ASSUME TInv, Heirs, Keeps(journals, journals')
  PROVE  Owners(act', journals')
<1>1. Owners(act, journals)
  BY Split
<1>2. QED BY <1>1 DEF Owners, Heirs, Keeps, Holds

\* What a step does to each thing on disk, and what is remembered of it.
LEMMA MovingLedger ==
  ASSUME NEW a \in Activators, Moving(a)
  PROVE  \/ ledger' = ledger
         \/ Record(a) /\ SetLedger(a, Mine(a).receipt) /\ act[a].at = "committing" /\ journals' = journals
         \/ Unrecord(a) /\ SetLedger(a, Mine(a).previous) /\ act[a].at = "rolling" /\ journals' = journals
<1>1. CASE Record(a) \/ Unrecord(a)
  BY <1>1 DEF Record, Unrecord, At
<1>2. CASE Place(a) \/ Read(a) \/ Switch(a) \/ Commit(a) \/ Committed(a)
  BY <1>2 DEF Place, Read, Switch, Commit, Committed, disk
<1>3. CASE Undo(a) \/ RolledBack(a) \/ Truncate(a) \/ Restore(a) \/ Clean(a)
  BY <1>3 DEF Undo, RolledBack, Truncate, Restore, Clean
<1>4. CASE Failure(a) \/ Crash(a)
  BY <1>4 DEF Failure, PlaceFails, StageFails, SwitchFails, CommitFails, RecordFails, CommittedFails,
              UndoFails, UnrecordFails, RolledBackFails, RestoreFails, RestoreCutOff, Crash, disk
<1>5. QED BY <1>1, <1>2, <1>3, <1>4 DEF Moving, Reverse

LEMMA MovingRegistry ==
  ASSUME NEW a \in Activators, Moving(a), ~Switch(a), ~Truncate(a), ~Restore(a)
  PROVE  registry' = registry
<1>1. CASE Place(a) \/ Read(a) \/ Commit(a) \/ Record(a) \/ Committed(a)
  BY <1>1 DEF Place, Read, Commit, Record, Committed, disk
<1>2. CASE Undo(a) \/ Unrecord(a) \/ RolledBack(a) \/ Clean(a)
  BY <1>2 DEF Undo, Unrecord, RolledBack, Clean
<1>3. CASE Failure(a) \/ Crash(a)
  BY <1>3 DEF Failure, PlaceFails, StageFails, SwitchFails, CommitFails, RecordFails, CommittedFails,
              UndoFails, UnrecordFails, RolledBackFails, RestoreFails, RestoreCutOff, Crash, disk
<1>4. QED BY <1>1, <1>2, <1>3 DEF Moving, Reverse

LEMMA MovingSlots ==
  ASSUME NEW a \in Activators, Moving(a)
  PROVE  /\ \/ slots' = slots
            \/ Place(a) /\ slots' = slots \cup {Slotted(a)}
            \/ Clean(a) /\ slots' = slots \ {Slotted(a)}
         /\ spoiled' = spoiled \/ (Committed(a) /\ spoiled' = spoiled \ {Slotted(a)})
<1>1. CASE Place(a) \/ Read(a) \/ Switch(a) \/ Commit(a) \/ Record(a) \/ Committed(a)
  BY <1>1 DEF Place, Read, Switch, Commit, Record, Committed, disk, history
<1>2. CASE Reverse(a)
  BY <1>2 DEF Reverse, Undo, Unrecord, RolledBack, Truncate, Restore, Clean, history
<1>3. CASE Failure(a) \/ Crash(a)
  BY <1>3 DEF Failure, PlaceFails, StageFails, SwitchFails, CommitFails, RecordFails, CommittedFails,
              UndoFails, UnrecordFails, RolledBackFails, RestoreFails, RestoreCutOff, Crash, disk, history
<1>4. QED BY <1>1, <1>2, <1>3 DEF Moving

LEMMA MovingHistory ==
  ASSUME NEW a \in Activators, Moving(a)
  PROVE  /\ crowded' = crowded
         /\ incomplete' = incomplete \/ incomplete' = incomplete \cup {act[a].plugin}
         /\ torn' = torn \/ torn' = torn \cup {act[a].plugin}
         /\ trampled \cap Plugins \subseteq trampled' /\ trampled' \subseteq trampled \cup Plugins
<1>1. CASE Place(a) \/ Read(a) \/ Switch(a) \/ Commit(a) \/ Record(a) \/ Committed(a)
  BY <1>1 DEF Place, Read, Switch, Commit, Record, Committed, disk, history
<1>2. CASE Undo(a) \/ Unrecord(a) \/ RolledBack(a) \/ Clean(a)
  BY <1>2 DEF Undo, Unrecord, RolledBack, Clean, history
<1>3. Caught(a) \subseteq Plugins /\ \A new : Spilt(a, new) \subseteq Plugins
  BY DEF Caught, Spilt
<1>4. CASE Truncate(a) \/ Restore(a)
  BY <1>3, <1>4 DEF Truncate, Restore
<1>5. CASE PlaceFails(a) \/ StageFails(a) \/ SwitchFails(a) \/ CommitFails(a) \/ RecordFails(a)
           \/ CommittedFails(a)
  BY <1>5 DEF PlaceFails, StageFails, SwitchFails, CommitFails, RecordFails, CommittedFails, history
<1>6. CASE UndoFails(a) \/ UnrecordFails(a) \/ RolledBackFails(a)
  BY <1>6 DEF UndoFails, UnrecordFails, RolledBackFails, GiveUp
<1>7. CASE RestoreFails(a) \/ RestoreCutOff(a) \/ Crash(a)
  BY <1>3, <1>7 DEF RestoreFails, RestoreCutOff, TearOff, Crash
<1>8. QED BY <1>1, <1>2, <1>4, <1>5, <1>6, <1>7 DEF Moving, Reverse, Failure

LEMMA MovingPlaces ==
  ASSUME TInv, NEW a \in Activators, Moving(a)
  PROVE  PlaceTypes(ledger', registry', slots')
         /\ HistoryTypes(spoiled', crowded', incomplete', torn', trampled')
<1>1. /\ PlaceTypes(ledger, registry, slots) /\ act[a] \in Acts /\ ~At(a, "idle")
      /\ HistoryTypes(spoiled, crowded, incomplete, torn, trampled)
      /\ act[a].plugin \in Plugins /\ act[a].version \in Versions
  BY Split, Steers DEF ActTypes, At
<1>2. act[a].snapshot \in Regs /\ act[a].seen \in Regs
  BY <1>1 DEF Acts
<1>3. Holds(a) => Mine(a).receipt \in Receipts /\ Mine(a).previous \in Receipts
  BY Split, JournalFacts DEF Owners, JournalTypes, Mine, Holds
<1>4. UNCHANGED ledger \/ \E r \in Receipts : SetLedger(a, r)
  <2>1. CASE Record(a) \/ Unrecord(a)
    BY <1>3, <2>1 DEF Record, Unrecord, At, Holds, Holding, Locked
  <2>2. CASE ~(Record(a) \/ Unrecord(a))
    BY <2>2, MovingLedger
  <2>3. QED BY <2>1, <2>2
<1>5. ledger' \in [Plugins -> Receipts]
  BY <1>1, <1>4 DEF PlaceTypes, SetLedger
<1>6. registry' \in Regs
  <2>1. CASE Switch(a)
    BY <1>1, <1>2, <2>1 DEF Switch, Regs
  <2>2. CASE Truncate(a)
    BY <2>2, NothingTyped DEF Truncate
  <2>3. CASE Restore(a)
    BY <1>1, <1>2, <2>3, NothingTyped DEF Restore, Restored, PlaceTypes
  <2>4. CASE ~Switch(a) /\ ~Truncate(a) /\ ~Restore(a)
    BY <1>1, <2>4, MovingRegistry DEF PlaceTypes
  <2>5. QED BY <2>1, <2>2, <2>3, <2>4
<1>7. slots' \subseteq Plugins \X Versions
  BY <1>1, MovingSlots DEF PlaceTypes, Slotted, Slot
<1>8. HistoryTypes(spoiled', crowded', incomplete', torn', trampled')
  BY <1>1, MovingSlots, MovingHistory DEF HistoryTypes
<1>9. QED BY <1>5, <1>6, <1>7, <1>8 DEF PlaceTypes

\* A start takes up no journal.
Beginning(a) ==
  \/ \E p \in Plugins : RollBack(a, p)
  \/ \E p \in Plugins, v \in Versions : Activate(a, p, v) \/ Test(a, p, v)

LEMMA BeginningTypes ==
  ASSUME TInv, NEW a \in Activators, Beginning(a)
  PROVE  /\ ActTypes(act') /\ LockTypes(act') /\ Heirs /\ journals' = journals
         /\ PlaceTypes(ledger', registry', slots')
         /\ HistoryTypes(spoiled', crowded', incomplete', torn', trampled')
         /\ At(a, "idle") /\ act'[a].at \notin Holding
         /\ \A b \in Activators : b # a => act'[b] = act[b]
<1>1. PICK p \in Plugins : RollBack(a, p) \/ \E v \in Versions : Activate(a, p, v) \/ Test(a, p, v)
  BY DEF Beginning
<1>2. /\ ActTypes(act) /\ LockTypes(act) /\ PlaceTypes(ledger, registry, slots)
      /\ HistoryTypes(spoiled, crowded, incomplete, torn, trampled)
  BY Split
<1>3. /\ act' \in [Activators -> Acts] /\ \A b \in Activators : b # a => act'[b] = act[b]
      /\ act'[a].at \in {"place", "placed", "register"}
      /\ act'[a].plugin \in Plugins /\ act'[a].version \in Versions
  <2>1. CASE RollBack(a, p)
    BY <2>1, Begins
  <2>2. ASSUME NEW v \in Versions, Activate(a, p, v)
        PROVE  /\ act' \in [Activators -> Acts] /\ \A b \in Activators : b # a => act'[b] = act[b]
               /\ act'[a].at \in {"place", "placed", "register"}
               /\ act'[a].plugin \in Plugins /\ act'[a].version \in Versions
    BY <2>2, Begins
  <2>3. ASSUME NEW v \in Versions, Test(a, p, v)
        PROVE  /\ act' \in [Activators -> Acts] /\ \A b \in Activators : b # a => act'[b] = act[b]
               /\ act'[a].at \in {"place", "placed", "register"}
               /\ act'[a].plugin \in Plugins /\ act'[a].version \in Versions
    BY <2>3, Begins
  <2>4. QED BY <1>1, <2>1, <2>2, <2>3
<1>4. act'[a].at \notin Holding /\ act'[a].at \notin Locked /\ act'[a].at \notin Writing
  BY <1>3 DEF Holding, Locked, Writing
<1>5. ActTypes(act') /\ LockTypes(act') /\ Heirs
  BY <1>2, <1>3, <1>4 DEF ActTypes, LockTypes, Heirs, Holds
<1>6. /\ journals' = journals /\ ledger' = ledger /\ At(a, "idle")
      /\ UNCHANGED <<incomplete, torn, registry>>
      /\ crowded' = crowded \/ crowded' = crowded \cup {p}
      /\ trampled' = trampled \/ trampled' = trampled \cup {p}
  BY <1>1 DEF RollBack, Activate, Test, Enter, disk
<1>7. slots' \subseteq slots /\ spoiled' \subseteq spoiled \cup slots
  BY <1>1 DEF RollBack, Activate, Test, disk
<1>8. PlaceTypes(ledger', registry', slots')
  BY <1>2, <1>6, <1>7 DEF PlaceTypes
<1>9. HistoryTypes(spoiled', crowded', incomplete', torn', trampled')
  BY <1>2, <1>6, <1>7 DEF HistoryTypes, PlaceTypes
<1>10. QED BY <1>3, <1>4, <1>5, <1>6, <1>8, <1>9

LEMMA StagingTypes ==
  ASSUME TInv, NEW a \in Activators, Stage(a)
  PROVE  /\ ActTypes(act') /\ LockTypes(act') /\ Owners(act', journals')
         /\ PlaceTypes(ledger', registry', slots')
         /\ HistoryTypes(spoiled', crowded', incomplete', torn', trampled')
         /\ act[a].at = "placed" /\ act'[a].at = "staged" /\ act'[a].journal = Len(journals')
         /\ act'[a].plugin = act[a].plugin /\ act'[a].version = act[a].version
         /\ \A b \in Activators : b # a => act'[b] = act[b]
<1>1. /\ ActTypes(act) /\ LockTypes(act) /\ PlaceTypes(ledger, registry, slots)
      /\ Owners(act, journals) /\ HistoryTypes(spoiled, crowded, incomplete, torn, trampled)
  BY Split
<1>2. /\ JournalTypes(journals') /\ Keeps(journals, journals') /\ Len(journals') \in DOMAIN journals'
      /\ journals'[Len(journals')].plugin = act[a].plugin
      /\ journals'[Len(journals')].receipt.sha = act[a].version
  BY JournalStaged
<1>3. Len(journals') \in Nat
  BY <1>2, JournalFacts DEF JournalTypes
<1>4. /\ act' \in [Activators -> Acts]
      /\ \A b \in Activators : b # a => act'[b] = act[b]
      /\ act'[a].at = "staged" /\ act'[a].plugin = act[a].plugin
      /\ act'[a].version = act[a].version /\ act'[a].journal = Len(journals')
  BY <1>1, <1>3, StageFields DEF ActTypes, PlaceTypes
<1>5. act[a].at = "placed" /\ UNCHANGED <<ledger, registry, slots, history>>
  BY DEF Stage, At
<1>6. ActTypes(act')
  BY <1>1, <1>4, <1>5 DEF ActTypes
<1>7. LockTypes(act')
  BY <1>1, <1>4 DEF LockTypes, Locked, Writing
<1>8. Owners(act', journals')
  BY <1>1, <1>2, <1>4 DEF Owners, Keeps
<1>9. PlaceTypes(ledger', registry', slots')
      /\ HistoryTypes(spoiled', crowded', incomplete', torn', trampled')
  BY <1>1, <1>5 DEF history
<1>10. QED BY <1>4, <1>5, <1>6, <1>7, <1>8, <1>9

\* A set of numbers with a bound has a greatest element.
LEMMA Greatest ==
  ASSUME NEW S, NEW n \in Nat, \A x \in S : x \in Nat /\ x <= n, S # {}
  PROVE  \E m \in S : \A x \in S : x <= m
<1> DEFINE B == {b \in Nat : \A x \in S : x <= b}
<1>1. B # {} /\ \A b \in B : b \in Nat
  OBVIOUS
<1>2. \E b \in B : \A j \in B : ~(<<j, b>> \in OpToRel(<, Nat))
  <2> HIDE DEF B
  <2>1. QED BY <1>1, NatLessThanWellFounded, WFMin
<1>3. PICK b \in B : \A j \in B : ~(<<j, b>> \in OpToRel(<, Nat))
  BY <1>2
<1>4. \A j \in B : ~(j < b)
  <2>1. ASSUME NEW j \in B, j < b PROVE FALSE
    <3>1. <<j, b>> \in OpToRel(<, Nat)
      BY <2>1 DEF OpToRel
    <3>2. QED BY <1>3, <3>1
  <2>2. QED BY <2>1
<1>5. b \in S
  <2>1. SUFFICES ASSUME b \notin S PROVE FALSE
    OBVIOUS
  <2>2. PICK z \in S : TRUE
    OBVIOUS
  <2>3. b \in Nat /\ z <= b /\ z # b /\ z \in Nat
    BY <2>1
  <2>4. \A x \in S : x <= b - 1
    <3>1. \A x \in S : x \in Nat /\ x <= b /\ x # b
      BY <2>1
    <3>2. QED BY <2>3, <3>1
  <2>5. b - 1 \in B
    BY <2>3, <2>4
  <2>6. b - 1 < b
    BY <2>3
  <2>7. QED BY <1>4, <2>5, <2>6
<1>6. QED BY <1>5

\* The CHOOSE of recover and of Told finds the last of some journals.
LEMMA LastOfSome ==
  ASSUME JournalTypes(journals), NEW S, S \subseteq DOMAIN journals, S # {}
  PROVE  LET m == CHOOSE t \in S : \A u \in S : u <= t IN m \in S /\ \A u \in S : u <= m
<1>1. Len(journals) \in Nat /\ DOMAIN journals = 1 .. Len(journals)
  BY JournalFacts DEF JournalTypes
<1>2. \A x \in S : x \in Nat /\ x <= Len(journals)
  BY <1>1
<1>3. \E m \in S : \A x \in S : x <= m
  BY <1>1, <1>2, Greatest
<1>4. QED BY <1>3

LEMMA RecoverTypes ==
  ASSUME TInv, Recover
  PROVE  TInv' /\ Heirs /\ act' = act
<1>1. /\ ActTypes(act) /\ LockTypes(act) /\ PlaceTypes(ledger, registry, slots)
      /\ Owners(act, journals) /\ HistoryTypes(spoiled, crowded, incomplete, torn, trampled)
      /\ JournalTypes(journals)
  BY Split
<1>2. JournalTypes(journals') /\ Keeps(journals, journals')
  BY <1>1, JournalsRecovered
<1>3. act' = act /\ UNCHANGED <<registry, slots, history>>
  BY DEF Recover
<1>4. Heirs
  BY <1>3 DEF Heirs, Holds
<1>5. \A p \in Plugins, t \in DOMAIN journals : Recovered(journals[t]) \in Receipts
  BY <1>1, JournalFacts DEF JournalTypes, Recovered
<1>6. ASSUME NEW p \in Plugins PROVE ledger'[p] \in Receipts
  <2> DEFINE open(q) == {t \in Unfinished(q) : journals[t].phase # "staged"}
             last == CHOOSE t \in open(p) : \A u \in open(p) : u <= t
  <2>1. ledger'[p] = IF open(p) = {} THEN ledger[p] ELSE Recovered(journals[last])
    BY DEF Recover
  <2>2. ASSUME open(p) # {} PROVE Recovered(journals[last]) \in Receipts
    <3>1. open(p) \subseteq DOMAIN journals
      BY DEF Unfinished
    <3>2. last \in open(p)
      <4> HIDE DEF open
      <4>1. QED BY <1>1, <2>2, <3>1, LastOfSome
    <3>3. QED BY <1>5, <3>1, <3>2
  <2>3. QED BY <1>1, <2>1, <2>2 DEF PlaceTypes
<1>7. PlaceTypes(ledger', registry', slots')
  BY <1>1, <1>3, <1>6 DEF PlaceTypes, Recover
<1>8. Owners(act', journals')
  BY <1>2, <1>4, OwnersKept
<1>9. QED BY <1>1, <1>2, <1>3, <1>4, <1>7, <1>8, Split DEF history

LEMMA TypeStep == TInv /\ [Next]_vars => TInv'
<1> SUFFICES ASSUME TInv, [Next]_vars PROVE TInv'
  OBVIOUS
<1>1. ASSUME NEW a \in Activators, Moving(a) PROVE TInv'
  BY <1>1, MovingActs, MovingKeeps, MovingPlaces, OwnersKept, Split
<1>2. ASSUME NEW a \in Activators, Beginning(a) PROVE TInv'
  <2>1. JournalTypes(journals)
    BY Split
  <2>2. QED BY <1>2, <2>1, BeginningTypes, KeepsSame, OwnersKept, Split
<1>3. ASSUME NEW a \in Activators, Stage(a) PROVE TInv'
  BY <1>3, StagingTypes, JournalStaged, Split
<1>4. CASE Recover
  BY <1>4, RecoverTypes
<1>5. CASE UNCHANGED vars
  BY <1>5, Split DEF vars, disk, history
<1>6. QED BY <1>1, <1>2, <1>3, <1>4, <1>5 DEF Next, Moving, Write, Beginning

LEMMA InitTypes == Init => TInv
<1>1. SUFFICES ASSUME NEW p \in Plugins, NEW old \in Versions, NEW new \in Versions, old # new,
        LET one == [sha |-> old, prev |-> Blank]
            two == [sha |-> new, prev |-> old]
            done(receipt, previous) == [plugin |-> p, phase |-> "committed",
                                        receipt |-> receipt, previous |-> previous]
        IN /\ ledger = [q \in Plugins |-> IF q = p THEN two ELSE None]
           /\ journals = <<done(one, None), done(two, one)>>
           /\ registry = [q \in Plugins |-> ledger[q].sha]
           /\ slots = {Slot(p, old), Slot(p, new)}
           /\ act = [a \in Activators |-> Idle]
           /\ faults = 0 /\ crowded = {} /\ incomplete = {} /\ torn = {} /\ trampled = {}
           /\ spoiled = {}
      PROVE  TInv
  BY DEF Init
<1> DEFINE one == [sha |-> old, prev |-> Blank]
           two == [sha |-> new, prev |-> old]
           first == [plugin |-> p, phase |-> "committed", receipt |-> one, previous |-> None]
           second == [plugin |-> p, phase |-> "committed", receipt |-> two, previous |-> one]
<1>2. one \in Receipts /\ two \in Receipts /\ None \in Receipts
  BY DEF Receipts, None
<1>3. ledger = [q \in Plugins |-> IF q = p THEN two ELSE None] /\ journals = <<first, second>>
  BY <1>1
<1>4. first \in Journals /\ second \in Journals
  <2> HIDE DEF one, two
  <2>1. QED BY <1>2 DEF Journals, Phases
<1> HIDE DEF one, two, first, second
<1>5. journals \in Seq(Journals) /\ Len(journals) = 2 /\ 2 <= MaxSwitches
  BY <1>3, <1>4, ActivationAssumption
<1>6. ledger \in [Plugins -> Receipts]
  BY <1>2, <1>3
<1>7. registry \in Regs
  BY <1>1, <1>6, Shas DEF Regs
<1>8. slots \subseteq Plugins \X Versions
  BY <1>1 DEF Slot
<1>9. ActTypes(act) /\ LockTypes(act) /\ Owners(act, journals)
  BY <1>1, IdleTyped DEF ActTypes, LockTypes, Owners, Holding, Locked, Writing
<1>10. HistoryTypes(spoiled, crowded, incomplete, torn, trampled)
  BY <1>1 DEF HistoryTypes
<1>11. QED BY <1>5, <1>6, <1>7, <1>8, <1>9, <1>10, Split DEF JournalTypes, PlaceTypes

\* The types hold at every time, and one caller of the store is inside at most
\* (the lock of ActivationStore).
THEOREM TypeCorrect == Spec => []TypeOK
<1>1. TInv => TypeOK
  BY DEF TInv
<1>2. QED BY <1>1, InitTypes, TypeStep, PTL DEF Spec

-----------------------------------------------------------------------------
(* Verdicts.                                                               *)

LEMMA ApartStep ==
  ASSUME VInv, [Next]_vars
  PROVE  Apart'
<1>0. TInv /\ Apart /\ Owners(act, journals) /\ JournalTypes(journals)
  BY Split DEF VInv
<1>1. CASE Heirs
  BY <1>0, <1>1 DEF Apart, Heirs, Holds
<1>2. ASSUME NEW a \in Activators, Stage(a) PROVE Apart'
  <2>1. act'[a].journal = Len(journals') /\ \A b \in Activators : b # a => act'[b] = act[b]
    BY <1>0, <1>2, StagingTypes
  <2>2. Len(journals') \notin DOMAIN journals
    BY <1>0, <1>2, JournalStaged
  <2>3. \A b \in Activators : Holds(b) => act[b].journal # Len(journals')
    BY <1>0, <2>2 DEF Owners, Holds
  <2>4. QED BY <1>0, <2>1, <2>3 DEF Apart, Holds
<1>3. CASE UNCHANGED vars
  BY <1>0, <1>3 DEF vars, Apart, Holds
<1>4. QED BY <1>0, <1>1, <1>2, <1>3, MovingActs, BeginningTypes, RecoverTypes
          DEF Next, Moving, Write, Beginning

\* An activator who does nothing finds his journal as it was, unless recover
\* decided it, which it does when nobody is in the store.
LEMMA Bystanders ==
  ASSUME VInv, [Next]_vars, NEW b \in Activators, act'[b] = act[b], Holds(b)
  PROVE  \/ journals'[act[b].journal] = journals[act[b].journal]
         \/ /\ Recover /\ act[b].at \notin Locked
            /\ journals'[act[b].journal].phase = Verdict(Mine(b))
         \/ Moving(b)
<1>0. TInv /\ Apart /\ Owners(act, journals) /\ JournalTypes(journals)
      /\ act[b].journal \in DOMAIN journals
  BY Split DEF VInv, Owners, Holds
<1>1. ASSUME NEW a \in Activators, Moving(a), a # b
      PROVE  journals'[act[b].journal] = journals[act[b].journal]
  <2>1. Holds(a) => act[b].journal # act[a].journal
    BY <1>0, <1>1 DEF Apart
  <2>2. QED BY <1>0, <1>1, <2>1, MovingKeeps
<1>2. ASSUME NEW a \in Activators, Beginning(a) \/ Stage(a)
      PROVE  journals'[act[b].journal] = journals[act[b].journal]
  BY <1>0, <1>2, BeginningTypes, JournalStaged
<1>3. CASE Recover
  <2>1. LockFree
    BY <1>3 DEF Recover
  <2>2. act[b].at \notin Locked
    BY <2>1 DEF LockFree
  <2>3. QED BY <1>0, <1>3, <2>2, JournalsRecovered DEF Mine
<1>4. CASE UNCHANGED vars
  BY <1>4 DEF vars, disk
<1>5. QED BY <1>1, <1>2, <1>3, <1>4 DEF Next, Moving, Write, Beginning

\* What the actor finds in his journal after his step.
LEMMA OwnStep ==
  ASSUME VInv, NEW a \in Activators, Moving(a)
  PROVE  LET mine == journals'[act'[a].journal] IN
         /\ act'[a].at \in {"staged", "switching", "switched"} => mine.phase \in {"staged", "rolled_back"}
         /\ act'[a].at \in {"committing", "recorded"} => mine.phase = "committing"
         /\ act'[a].at \in {"rolling", "rolled"} => mine.phase = "rolling_back"
<1> DEFINE at == act'[a].at
           mine == journals'[act'[a].journal]
           Goal == /\ at \in {"staged", "switching", "switched"} => mine.phase \in {"staged", "rolled_back"}
                   /\ at \in {"committing", "recorded"} => mine.phase = "committing"
                   /\ at \in {"rolling", "rolled"} => mine.phase = "rolling_back"
<1>0. TInv /\ InStep /\ act \in [Activators -> Acts] /\ Heirs
  BY Split, MovingActs DEF VInv, ActTypes
<1>1. ASSUME at \notin {"staged", "switching", "switched", "committing", "recorded", "rolling", "rolled"}
      PROVE  Goal
  BY <1>1
<1>2. \A s : s \in Steps /\ Goto(a, s) => at = s
  BY <1>0, GotoFields
<1>3. at \in Holding => Holds(a) /\ act'[a].journal = act[a].journal
  BY <1>0 DEF Heirs
<1>4. Done(a) => at = "idle"
  BY <1>0, DoneFields
<1>5. CASE Read(a) \/ Switch(a)
  <2>1. CASE act[a].at \in {"staged", "switching"}
    <3>1. at \in {"switching", "switched"} /\ journals' = journals
      <4>1. CASE Read(a)
        <5>1. Moves(a, "switching", registry) /\ journals' = journals
          BY <2>1, <4>1 DEF Read, Moves, disk
        <5>2. registry \in Regs
          BY <1>0, Split DEF PlaceTypes
        <5>3. QED BY <1>0, <5>1, <5>2, MovesFields DEF Steps, Writing
      <4>2. CASE Switch(a)
        <5>1. Goto(a, "switched") /\ journals' = journals
          BY <2>1, <4>2 DEF Switch, At, Writing
        <5>2. QED BY <1>2, <5>1 DEF Steps
      <4>3. QED BY <1>5, <4>1, <4>2
    <3>2. mine.phase \in {"staged", "rolled_back"}
      BY <1>0, <1>3, <2>1, <3>1 DEF InStep, Mine, Holding
    <3>3. QED BY <3>1, <3>2
  <2>2. CASE act[a].at \in {"register", "registering"}
    <3>1. at \in {"registering", "restore"}
      <4>1. CASE Read(a)
        <5>1. Moves(a, "registering", registry)
          BY <2>2, <4>1 DEF Read, Moves
        <5>2. registry \in Regs
          BY <1>0, Split DEF PlaceTypes
        <5>3. QED BY <1>0, <5>1, <5>2, MovesFields DEF Steps, Writing
      <4>2. CASE Switch(a)
        <5>1. Goto(a, "restore")
          BY <2>2, <4>2 DEF Switch, At, Writing
        <5>2. QED BY <1>2, <5>1 DEF Steps
      <4>3. QED BY <1>5, <4>1, <4>2
    <3>2. QED BY <1>1, <3>1
  <2>3. QED BY <1>5, <2>1, <2>2 DEF Read, Switch, Writing
<1>6. CASE Commit(a)
  <2>1. CASE Committable(Mine(a))
    <3>1. at = "committing" /\ act[a].at = "switched" /\ SetPhase(a, "committing")
      BY <1>2, <1>6, <2>1 DEF Commit, At, Steps, Locked
    <3>2. Holds(a) /\ act'[a].journal = act[a].journal
      BY <1>3, <3>1 DEF Holding, Locked
    <3>3. JournalTypes(journals) /\ act[a].journal \in DOMAIN journals
      BY <1>0, <3>2, Split DEF Owners, Holds
    <3>4. mine.phase = "committing"
      BY <3>1, <3>2, <3>3, PhaseSet DEF Phases
    <3>5. QED BY <3>1, <3>4
  <2>2. CASE ~Committable(Mine(a))
    <3>1. at = "undo"
      BY <1>2, <1>6, <2>2 DEF Commit, Steps
    <3>2. QED BY <1>1, <3>1
  <2>3. QED BY <2>1, <2>2
<1>7. CASE Record(a)
  <2>1. at = "recorded" /\ act[a].at = "committing" /\ journals' = journals
    BY <1>2, <1>7 DEF Record, At, Steps, Locked
  <2>2. mine.phase = "committing"
    BY <1>0, <1>3, <2>1 DEF InStep, Mine, Holding, Locked
  <2>3. QED BY <2>1, <2>2
<1>8. CASE Undo(a)
  <2>1. CASE AfterUndo(Mine(a).phase) = "rolled_back"
    <3>1. at = "restore"
      BY <1>2, <1>8, <2>1 DEF Undo, Steps
    <3>2. QED BY <1>1, <3>1
  <2>2. CASE AfterUndo(Mine(a).phase) = "rolling_back"
    <3>1. at = "rolling" /\ act[a].at = "undo" /\ SetPhase(a, "rolling_back")
      BY <1>2, <1>8, <2>2 DEF Undo, At, Steps, Locked
    <3>2. Holds(a) /\ act'[a].journal = act[a].journal
      BY <1>3, <3>1 DEF Holding, Locked
    <3>3. JournalTypes(journals) /\ act[a].journal \in DOMAIN journals
      BY <1>0, <3>2, Split DEF Owners, Holds
    <3>4. mine.phase = "rolling_back"
      BY <3>1, <3>2, <3>3, PhaseSet DEF Phases
    <3>5. QED BY <3>1, <3>4
  <2>3. QED BY <2>1, <2>2 DEF AfterUndo
<1>9. CASE Unrecord(a)
  <2>1. at = "rolled" /\ act[a].at = "rolling" /\ journals' = journals
    BY <1>2, <1>9 DEF Unrecord, At, Steps, Locked
  <2>2. mine.phase = "rolling_back"
    BY <1>0, <1>3, <2>1 DEF InStep, Mine, Holding, Locked
  <2>3. QED BY <2>1, <2>2
<1>10. CASE Committed(a) \/ Clean(a) \/ Crash(a) \/ PlaceFails(a)
  BY <1>1, <1>4, <1>10 DEF Committed, Clean, Crash, PlaceFails
<1>11. CASE Place(a) \/ RolledBack(a) \/ Truncate(a) \/ Restore(a)
  <2>1. \/ Done(a) \/ Goto(a, "placed") \/ Goto(a, "restore") \/ Goto(a, "clean")
        \/ Moves(a, "restoring", registry)
    BY <1>11 DEF Place, RolledBack, Truncate, Restore, AfterRestore, Moves
  <2>2. registry \in Regs
    BY <1>0, Split DEF PlaceTypes
  <2>3. Moves(a, "restoring", registry) => at = "restoring"
    BY <1>0, <2>2, MovesFields DEF Steps
  <2>4. QED BY <1>1, <1>2, <1>4, <2>1, <2>3 DEF Steps
<1>12. CASE Failure(a)
  <2>1. Done(a) \/ Goto(a, "restore") \/ Goto(a, "undo") \/ Goto(a, "clean")
    BY <1>12 DEF Failure, PlaceFails, StageFails, SwitchFails, CommitFails, RecordFails,
                 CommittedFails, HalfCommitted, UndoFails, UnrecordFails, RolledBackFails,
                 RestoreFails, RestoreCutOff, AfterRestore, Fails, FailsAgain
  <2>2. QED BY <1>1, <1>2, <1>4, <2>1 DEF Steps
<1>13. QED BY <1>5, <1>6, <1>7, <1>8, <1>9, <1>10, <1>11, <1>12 DEF Moving, Reverse

LEMMA InStepStep ==
  ASSUME VInv, [Next]_vars
  PROVE  InStep'
<1>0. TInv /\ InStep /\ Apart
  BY DEF VInv
<1> DEFINE Goal(b) ==
      /\ act'[b].at \in {"staged", "switching", "switched"} => journals'[act'[b].journal].phase \in {"staged", "rolled_back"}
      /\ act'[b].at \in {"committing", "recorded"} => journals'[act'[b].journal].phase = "committing"
      /\ act'[b].at \in {"rolling", "rolled"} => journals'[act'[b].journal].phase = "rolling_back"
<1>1. ASSUME NEW b \in Activators, act'[b] = act[b], ~Moving(b) PROVE Goal(b)
  <2>1. CASE ~Holds(b)
    BY <1>1, <2>1 DEF Holds, Holding, Locked
  <2>2. CASE Holds(b) /\ journals'[act[b].journal] = journals[act[b].journal]
    BY <1>0, <1>1, <2>2 DEF InStep, Mine
  <2>3. CASE Holds(b) /\ act[b].at \notin Locked /\ journals'[act[b].journal].phase = Verdict(Mine(b))
    <3>1. act[b].at \in {"staged", "switching", "switched"} => Mine(b).phase \in {"staged", "rolled_back"}
      BY <1>0 DEF InStep
    <3>2. QED BY <1>1, <2>3, <3>1 DEF Locked, Verdict
  <2>4. QED BY <1>1, <2>1, <2>2, <2>3, Bystanders
<1>2. ASSUME NEW b \in Activators, Moving(b) PROVE Goal(b)
  BY <1>2, OwnStep
<1>3. ASSUME NEW b \in Activators, Beginning(b) PROVE Goal(b)
  BY <1>0, <1>3, BeginningTypes DEF Holding, Locked
<1>4. ASSUME NEW b \in Activators, Stage(b) PROVE Goal(b)
  <2>1. act'[b].at = "staged" /\ act'[b].journal = Len(journals')
    BY <1>0, <1>4, StagingTypes
  <2>2. journals'[Len(journals')].phase = "staged"
    BY <1>0, <1>4, JournalStaged
  <2>3. QED BY <2>1, <2>2
<1>5. ASSUME NEW b \in Activators, act'[b] # act[b]
      PROVE  Moving(b) \/ Beginning(b) \/ Stage(b)
  BY <1>0, <1>5, MovingActs, BeginningTypes, StagingTypes, RecoverTypes
     DEF Next, Moving, Write, Beginning, vars
<1> HIDE DEF Goal
<1>6. \A b \in Activators : Goal(b)
  BY <1>1, <1>2, <1>3, <1>4, <1>5
<1>7. QED BY <1>6 DEF Goal, InStep, Mine

\* A verdict is turned around by the activator who undoes his switch only.
LEMMA VerdictStep ==
  ASSUME VInv, [Next]_vars, NEW t \in DOMAIN journals
  PROVE  /\ journals[t].phase = "rolled_back" => journals'[t].phase = "rolled_back"
         /\ journals[t].phase = "committed" =>
              \/ journals'[t].phase = "committed"
              \/ \E a \in Activators : act[a].journal = t /\ Undo(a)
<1>0. TInv /\ InStep /\ Apart /\ JournalTypes(journals) /\ Owners(act, journals)
  BY Split DEF VInv
<1>1. CASE journals'[t] = journals[t]
  BY <1>1
<1>2. ASSUME NEW a \in Activators, Moving(a), journals'[t] # journals[t]
      PROVE  /\ journals[t].phase = "rolled_back" => journals'[t].phase = "rolled_back"
             /\ journals[t].phase = "committed" =>
                  \E b \in Activators : act[b].journal = t /\ Undo(b)
  <2>1. Holds(a) /\ t = act[a].journal
    BY <1>0, <1>2, MovingKeeps
  <2>2. act[a].journal \in DOMAIN journals /\ Mine(a) = journals[t]
    BY <1>0, <2>1 DEF Owners, Holds, Mine
  <2>3. CASE Committable(Mine(a))
    <3>1. journals[t].phase \notin {"rolled_back", "committed"}
      BY <2>2, <2>3 DEF Committable
    <3>2. QED BY <3>1
  <2>4. CASE Committed(a) /\ act[a].at = "recorded"
    <3>1. journals[t].phase = "committing"
      BY <1>0, <2>1, <2>2, <2>4 DEF InStep
    <3>2. QED BY <3>1
  <2>5. CASE Undo(a) /\ SetPhase(a, AfterUndo(Mine(a).phase))
    <3>1. AfterUndo(Mine(a).phase) \in Phases
      BY DEF AfterUndo, Phases
    <3>2. journals'[t].phase = AfterUndo(journals[t].phase)
      BY <1>0, <2>1, <2>2, <2>5, <3>1, PhaseSet
    <3>3. journals[t].phase = "rolled_back" => journals'[t].phase = "rolled_back"
      BY <3>2 DEF AfterUndo
    <3>4. QED BY <2>1, <2>5, <3>3
  <2>6. CASE SetPhase(a, "rolled_back") /\ act[a].at = "rolled"
    <3>1. journals[t].phase = "rolling_back"
      BY <1>0, <2>1, <2>2, <2>6 DEF InStep
    <3>2. QED BY <3>1
  <2>7. QED BY <1>2, <2>3, <2>4, <2>5, <2>6, MovingJournals
<1>3. ASSUME NEW a \in Activators, Beginning(a) \/ Stage(a) PROVE journals'[t] = journals[t]
  BY <1>0, <1>3, BeginningTypes, JournalStaged
<1>4. CASE Recover
  <2>1. journals'[t].phase = Verdict(journals[t])
    BY <1>0, <1>4, JournalsRecovered
  <2>2. QED BY <2>1 DEF Verdict
<1>5. CASE UNCHANGED vars
  BY <1>5 DEF vars, disk
<1>6. QED BY <1>1, <1>2, <1>3, <1>4, <1>5 DEF Next, Moving, Write, Beginning

LEMMA InitVerdicts == Init => VInv
<1>1. SUFFICES ASSUME Init PROVE VInv
  OBVIOUS
<1>2. \A a \in Activators : act[a].at = "idle"
  BY <1>1, IdleTyped DEF Init
<1>3. Apart /\ InStep
  BY <1>2 DEF Apart, InStep, Holds, Holding, Locked
<1>4. QED BY <1>1, <1>3, InitTypes DEF VInv

LEMMA VerdictInvariant == Spec => []VInv
<1>1. VInv /\ [Next]_vars => VInv'
  BY TypeStep, ApartStep, InStepStep DEF VInv
<1>2. QED BY <1>1, InitVerdicts, PTL DEF Spec

\* A transaction that was rolled back stays so, whoever recovers it while its
\* activator still lives; one that was committed is turned around only by its own
\* activator, who undoes a switch that recover committed for him
\* (ActivationStore::recover, commit, rollback).
THEOREM VerdictsAreKept == Spec => VerdictsStand
<1>1. VInv /\ [Next]_vars
        => [\A t \in DOMAIN journals :
              /\ journals[t].phase = "rolled_back" => journals'[t].phase = "rolled_back"
              /\ journals[t].phase = "committed" =>
                   \/ journals'[t].phase = "committed"
                   \/ \E a \in Activators : act[a].journal = t /\ Undo(a)]_vars
  BY VerdictStep
<1>2. QED BY <1>1, VerdictInvariant, PTL DEF Spec, VerdictsStand

-----------------------------------------------------------------------------
(* The users of a plugin.                                                  *)

LEMMA MovingUsers ==
  ASSUME TInv, NEW a \in Activators, Moving(a)
  PROVE  /\ a \in Users(act[a].plugin)
         /\ \A p : p # act[a].plugin => a \notin Users(p) /\ Users(p)' = Users(p)
         /\ \A p : Users(p)' \subseteq Users(p)
         /\ act'[a].at # "idle" => /\ act'[a].plugin = act[a].plugin /\ act'[a].kind = act[a].kind
                                   /\ act'[a].version = act[a].version
                                   /\ act'[a].snapshot = act[a].snapshot
<1>1. act \in [Activators -> Acts] /\ ~At(a, "idle")
  BY Split, Steers DEF ActTypes
<1>2. /\ \A b \in Activators : b # a => act'[b] = act[b]
      /\ act'[a].at = "idle"
         \/ /\ act'[a].plugin = act[a].plugin /\ act'[a].kind = act[a].kind /\ act'[a].at # "idle"
            /\ act'[a].version = act[a].version /\ act'[a].snapshot = act[a].snapshot
  <2>1. CASE Done(a)
    BY <1>1, <2>1, DoneFields
  <2>2. ASSUME NEW s \in Steps \ {"idle"}, NEW x \in Regs, Moves(a, s, x)
        PROVE  /\ \A b \in Activators : b # a => act'[b] = act[b]
               /\ act'[a].plugin = act[a].plugin /\ act'[a].kind = act[a].kind
               /\ act'[a].version = act[a].version /\ act'[a].snapshot = act[a].snapshot
               /\ act'[a].at # "idle"
    BY <1>1, <2>2, MovesFields
  <2>3. QED BY <2>1, <2>2, Steers
<1>3. QED BY <1>1, <1>2 DEF Users, At

LEMMA StagingUsers ==
  ASSUME TInv, NEW a \in Activators, Stage(a)
  PROVE  a \in Users(act[a].plugin) /\ \A p : Users(p)' = Users(p)
BY StagingTypes DEF Users

LEMMA BeginningUsers ==
  ASSUME TInv, NEW a \in Activators, Beginning(a)
  PROVE  \E p \in Plugins :
           /\ Users(p)' = Users(p) \cup {a} /\ Enter(p)
           /\ act'[a].at \in {"place", "placed", "register"}
           /\ \A q : q # p => Users(q)' = Users(q) /\ a \notin Users(q)'
<1>1. PICK p \in Plugins : RollBack(a, p) \/ \E v \in Versions : Activate(a, p, v) \/ Test(a, p, v)
  BY DEF Beginning
<1>2. Enter(p) /\ act[a].at = "idle"
  BY <1>1 DEF RollBack, Activate, Test, At
<1>3. /\ \A b \in Activators : b # a => act'[b] = act[b]
      /\ act'[a].at \in {"place", "placed", "register"} /\ act'[a].plugin = p
  <2>1. CASE RollBack(a, p)
    BY <2>1, Begins
  <2>2. ASSUME NEW v \in Versions, Activate(a, p, v)
        PROVE  /\ \A b \in Activators : b # a => act'[b] = act[b]
               /\ act'[a].at \in {"place", "placed", "register"} /\ act'[a].plugin = p
    BY <2>2, Begins
  <2>3. ASSUME NEW v \in Versions, Test(a, p, v)
        PROVE  /\ \A b \in Activators : b # a => act'[b] = act[b]
               /\ act'[a].at \in {"place", "placed", "register"} /\ act'[a].plugin = p
    BY <2>3, Begins
  <2>4. QED BY <1>1, <2>1, <2>2, <2>3
<1>4. /\ Users(p)' = Users(p) \cup {a}
      /\ \A q : q # p => Users(q)' = Users(q) /\ a \notin Users(q)'
  BY <1>2, <1>3 DEF Users
<1>5. QED BY <1>2, <1>3, <1>4

-----------------------------------------------------------------------------
(* The ledger of a plugin whose switches never overlapped.                 *)

PInv(p) == Alone(p) /\ FromLast(p) /\ Fresh(p) /\ Settled(p) /\ Written(p)

\* What the journals tell depends on the committed ones only.
LEMMA TellsFrame ==
  ASSUME NEW js, NEW ks, NEW p, NEW m, NEW n, NEW r, Tells(js, p, r, m),
         \A t : t \in DOMAIN js /\ t < m /\ KeptIn(js, p, t)
                <=> t \in DOMAIN ks /\ t < n /\ KeptIn(ks, p, t),
         \A t \in DOMAIN js : t < m /\ KeptIn(js, p, t) => ks[t].receipt = js[t].receipt
  PROVE  Tells(ks, p, r, n)
<1>1. CASE r = None /\ \A t \in DOMAIN js : t < m => ~KeptIn(js, p, t)
  <2>1. \A t \in DOMAIN ks : t < n => ~KeptIn(ks, p, t)
    BY <1>1
  <2>2. QED BY <1>1, <2>1 DEF Tells
<1>2. ASSUME NEW t \in DOMAIN js, t < m, KeptIn(js, p, t), r = js[t].receipt,
             \A u \in DOMAIN js : u < m /\ KeptIn(js, p, u) => u <= t
      PROVE  Tells(ks, p, r, n)
  <2>1. t \in DOMAIN ks /\ t < n /\ KeptIn(ks, p, t) /\ r = ks[t].receipt
    BY <1>2
  <2>2. \A u \in DOMAIN ks : u < n /\ KeptIn(ks, p, u) => u <= t
    BY <1>2
  <2>3. QED BY <2>1, <2>2 DEF Tells
<1>3. QED BY <1>1, <1>2 DEF Tells

\* The last journal of a plugin decides, or those before it do.
LEMMA TellsLast ==
  ASSUME NEW js \in Seq(Journals), NEW p, NEW t \in DOMAIN js, LastOf(js, p, t)
  PROVE  /\ js[t].phase = "committed" => Tells(js, p, js[t].receipt, Len(js) + 1)
         /\ \A r : js[t].phase # "committed" /\ Tells(js, p, r, t) => Tells(js, p, r, Len(js) + 1)
<1>1. Len(js) \in Nat /\ DOMAIN js = 1 .. Len(js)
  BY JournalFacts
<1>2. \A u \in DOMAIN js : u \in Nat /\ u < Len(js) + 1
  BY <1>1
<1>3. ASSUME js[t].phase = "committed" PROVE Tells(js, p, js[t].receipt, Len(js) + 1)
  <2>1. KeptIn(js, p, t) /\ \A u \in DOMAIN js : KeptIn(js, p, u) => u <= t
    BY <1>3 DEF KeptIn, LastOf
  <2>2. QED BY <1>2, <2>1 DEF Tells
<1>4. ASSUME NEW r, js[t].phase # "committed", Tells(js, p, r, t)
      PROVE  Tells(js, p, r, Len(js) + 1)
  <2>1. \A u \in DOMAIN js : KeptIn(js, p, u) => u < t
    <3>1. \A u \in DOMAIN js : KeptIn(js, p, u) => u <= t /\ u # t
      BY <1>4 DEF KeptIn, LastOf
    <3>2. QED BY <1>2, <3>1
  <2>2. QED BY <1>2, <1>4, <2>1, TellsFrame
<1>5. QED BY <1>3, <1>4

\* A journal in hand is the only one.
LEMMA OneInHand ==
  ASSUME TInv, NEW p, FromLast(p), NEW t \in InHand(p), NEW u \in InHand(p)
  PROVE  t = u /\ t \in DOMAIN journals
<1>1. DOMAIN journals = 1 .. Len(journals) /\ Len(journals) \in Nat /\ Owners(act, journals)
  BY Split, JournalFacts DEF JournalTypes
<1>2. t \in DOMAIN journals /\ u \in DOMAIN journals
  BY <1>1 DEF InHand, Unfinished, Users, Owners, Holds
<1>3. t <= u /\ u <= t
  BY <1>2 DEF FromLast, LastOf
<1>4. QED BY <1>1, <1>2, <1>3

\* Nothing of the plugin changes.
LEMMA ElsewhereStep ==
  ASSUME TInv, TInv', NEW p \in Plugins, PInv(p), ledger'[p] = ledger[p],
         Users(p)' = Users(p), \A b \in Users(p) : act'[b] = act[b],
         \A t \in DOMAIN journals : t \in DOMAIN journals' /\ journals'[t].plugin = journals[t].plugin,
         \A t \in DOMAIN journals : journals[t].plugin = p => journals'[t] = journals[t],
         \A t \in DOMAIN journals' : t \notin DOMAIN journals => journals'[t].plugin # p
  PROVE  PInv(p)'
<1>1. /\ Len(journals) \in Nat /\ DOMAIN journals = 1 .. Len(journals)
      /\ Len(journals') \in Nat /\ DOMAIN journals' = 1 .. Len(journals')
      /\ Owners(act, journals)
  BY Split, JournalFacts DEF JournalTypes
<1>2. Unfinished(p)' = Unfinished(p)
  BY DEF Unfinished
<1>3. \A t : t \in DOMAIN journals /\ KeptIn(journals, p, t)
             <=> t \in DOMAIN journals' /\ KeptIn(journals', p, t)
  BY DEF KeptIn
<1>4. \A t \in DOMAIN journals : KeptIn(journals, p, t) => journals'[t].receipt = journals[t].receipt
  BY DEF KeptIn
<1>5. \A r, n : Tells(journals, p, r, n) => Tells(journals', p, r, n)
  BY <1>3, <1>4, TellsFrame
<1>6. \A r : Tells(journals, p, r, Len(journals) + 1) => Tells(journals', p, r, Len(journals') + 1)
  <2>1. /\ \A t : t \in DOMAIN journals => t < Len(journals) + 1
        /\ \A t : t \in DOMAIN journals' => t < Len(journals') + 1
    BY <1>1
  <2>2. QED BY <1>3, <1>4, <2>1, TellsFrame
<1>7. \A b \in Users(p) : /\ Mine(b)' = journals'[act[b].journal]
                          /\ Holds(b) => /\ act[b].journal \in DOMAIN journals
                                         /\ journals[act[b].journal].plugin = p
                                         /\ Mine(b)' = Mine(b)
  BY <1>1 DEF Mine, Users, Owners, Holds
<1>8. Alone(p)' /\ Fresh(p)' /\ Settled(p)'
  <2>1. Alone(p)' /\ Fresh(p)'
    BY <1>2 DEF PInv, Alone, Fresh
  <2>2. (\A t \in Unfinished(p)' : journals'[t].phase = "staged")
          => \A t \in Unfinished(p) : journals[t].phase = "staged"
    BY <1>2 DEF Unfinished
  <2>3. Settled(p)'
    BY <1>6, <2>2 DEF PInv, Settled
  <2>4. QED BY <2>1, <2>3
<1>9. Written(p)'
  BY <1>7 DEF PInv, Written, Holds, Holding, Locked
<1>10. FromLast(p)'
  <2>1. ASSUME NEW t \in InHand(p)'
        PROVE  LastOf(journals', p, t) /\ Tells(journals', p, journals'[t].previous, t)
    <3>1. t \in InHand(p) /\ t \in DOMAIN journals /\ journals[t].plugin = p
      BY <1>2, <1>7 DEF InHand, Holds, Unfinished
    <3>2. LastOf(journals, p, t) /\ Tells(journals, p, journals[t].previous, t)
      BY <3>1 DEF PInv, FromLast
    <3>3. QED BY <1>5, <3>1, <3>2 DEF LastOf
  <2>2. QED BY <2>1 DEF FromLast
<1>11. QED BY <1>8, <1>9, <1>10 DEF PInv

\* Where each assignment leads.
LEMMA Places ==
  ASSUME TInv, NEW a \in Activators
  PROVE  /\ \A s \in Steps : Goto(a, s) => act'[a].at = s
         /\ Done(a) => act'[a].at = "idle"
         /\ Read(a) => /\ act'[a].at = IF act[a].at = "staged" THEN "switching" ELSE "registering"
                       /\ act'[a].seen = registry
         /\ Truncate(a) => act'[a].at = "restoring" /\ act'[a].seen = registry
<1>1. act \in [Activators -> Acts] /\ registry \in Regs
  BY Split DEF ActTypes, PlaceTypes
<1>2. ASSUME NEW s \in Steps, Goto(a, s) PROVE act'[a].at = s
  BY <1>1, <1>2, GotoFields
<1>3. Done(a) => act'[a].at = "idle"
  BY <1>1, DoneFields
<1>4. ASSUME Read(a)
      PROVE  /\ act'[a].at = IF act[a].at = "staged" THEN "switching" ELSE "registering"
             /\ act'[a].seen = registry
  <2>1. \/ act[a].at = "staged" /\ Moves(a, "switching", registry)
        \/ act[a].at # "staged" /\ Moves(a, "registering", registry)
    BY <1>4 DEF Read, Moves
  <2>2. "switching" \in Steps /\ "registering" \in Steps
    BY DEF Steps, Writing
  <2>3. QED BY <1>1, <2>1, <2>2, MovesFields
<1>5. ASSUME Truncate(a) PROVE act'[a].at = "restoring" /\ act'[a].seen = registry
  <2>1. Moves(a, "restoring", registry) /\ "restoring" \in Steps
    BY <1>5 DEF Truncate, Moves, Steps
  <2>2. QED BY <1>1, <2>1, MovesFields
<1>6. QED BY <1>2, <1>3, <1>4, <1>5

\* Where a step can lead, and from where.
LEMMA Targets ==
  ASSUME TInv, NEW a \in Activators, Moving(a)
  PROVE  LET at == act'[a].at IN
         /\ at # "place" /\ at # "staged" /\ at # "register"
         /\ at = "placed" => Place(a)
         /\ at \in Writing => Read(a)
         /\ at = "switched" => Switch(a) /\ act[a].at = "switching"
         /\ at = "committing" => Commit(a) /\ Committable(Mine(a))
         /\ at = "recorded" => Record(a)
         /\ at = "rolling" => Undo(a)
         /\ at = "rolled" => Unrecord(a)
         /\ at = "restore" => StageFails(a) \/ Undo(a) \/ UndoFails(a) \/ UnrecordFails(a)
                              \/ RolledBack(a) \/ RolledBackFails(a) \/ Switch(a) \/ SwitchFails(a)
         /\ at = "restoring" => Truncate(a)
         /\ at = "clean" => Restore(a) \/ RestoreFails(a) \/ RestoreCutOff(a)
<1>1. /\ \A s \in Steps : Goto(a, s) => act'[a].at = s
      /\ Done(a) => act'[a].at = "idle"
  BY Places
<1>2. CASE Commit(a)
  BY <1>1, <1>2 DEF Commit, Steps, Locked, Writing
<1>3. CASE Place(a) \/ Record(a) \/ Committed(a)
  BY <1>1, <1>3 DEF Place, Record, Committed, Steps, Locked, Writing
<1>4. CASE Read(a)
  <2>1. act'[a].at \in Writing
    BY <1>4, Places DEF Writing
  <2>2. QED BY <1>4, <2>1 DEF Writing
<1>5. CASE Truncate(a)
  <2>1. act'[a].at = "restoring"
    BY <1>5, Places
  <2>2. QED BY <1>5, <2>1 DEF Writing
<1>6. CASE Switch(a)
  <2>1. (act[a].at = "switching" /\ Goto(a, "switched")) \/ Goto(a, "restore")
    BY <1>6 DEF Switch, At
  <2>2. QED BY <1>1, <1>6, <2>1 DEF Steps, Writing
<1>7. CASE SwitchFails(a)
  <2>1. Goto(a, "undo") \/ Goto(a, "restore")
    BY <1>7 DEF SwitchFails, Fails
  <2>2. QED BY <1>1, <1>7, <2>1 DEF Steps, Writing
<1>8. CASE Undo(a) \/ Unrecord(a)
  <2>1. \/ Undo(a) /\ (Goto(a, "restore") \/ Goto(a, "rolling"))
        \/ Unrecord(a) /\ Goto(a, "rolled")
    BY <1>8 DEF Undo, Unrecord
  <2>2. QED BY <1>1, <2>1 DEF Steps, Locked, Writing
<1>9. CASE RolledBack(a) \/ Clean(a) \/ Crash(a)
  BY <1>1, <1>9 DEF RolledBack, Clean, Crash, Steps, Writing
<1>10. CASE Restore(a) \/ RestoreFails(a) \/ RestoreCutOff(a)
  <2>1. Done(a) \/ Goto(a, "clean")
    BY <1>10 DEF Restore, RestoreFails, RestoreCutOff, AfterRestore
  <2>2. QED BY <1>1, <1>10, <2>1 DEF Steps, Writing
<1>11. CASE PlaceFails(a) \/ StageFails(a) \/ CommitFails(a) \/ RecordFails(a) \/ CommittedFails(a)
  BY <1>1, <1>11 DEF PlaceFails, StageFails, CommitFails, RecordFails, CommittedFails, HalfCommitted,
                     Fails, Steps, Writing
<1>12. CASE UndoFails(a) \/ UnrecordFails(a) \/ RolledBackFails(a)
  BY <1>1, <1>12 DEF UndoFails, UnrecordFails, RolledBackFails, FailsAgain, Steps, Writing
<1>13. QED BY <1>2, <1>3, <1>4, <1>5, <1>6, <1>7, <1>8, <1>9, <1>10, <1>11, <1>12
           DEF Moving, Reverse, Failure

\* The only user of the plugin goes on.
LEMMA UserStep ==
  ASSUME VInv, VInv', NEW a \in Activators, Moving(a), NEW p \in Plugins, p = act[a].plugin, PInv(p)
  PROVE  PInv(p)'
<1> DEFINE t == act[a].journal
<1>0. /\ TInv /\ InStep /\ Heirs /\ Owners(act, journals) /\ journals \in Seq(Journals)
      /\ journals' \in Seq(Journals) /\ Len(journals') = Len(journals)
      /\ DOMAIN journals' = DOMAIN journals /\ Keeps(journals, journals')
      /\ ledger \in [Plugins -> Receipts]
      /\ act'[a].at \in Holding => Holds(a) /\ act'[a].journal = t
  BY Split, MovingActs, MovingKeeps DEF VInv, JournalTypes, PlaceTypes, Heirs
<1>1. /\ a \in Users(p) /\ \A b \in Users(p) : b = a
      /\ Users(p)' \subseteq {a}
  BY <1>0, MovingUsers DEF PInv, Alone
\* What he holds is the last journal of the plugin, and the only one in hand.
<1>2. Holds(a) => /\ t \in DOMAIN journals /\ t \in InHand(p) /\ Mine(a) = journals[t]
                  /\ LastOf(journals, p, t) /\ Tells(journals, p, Mine(a).previous, t)
                  /\ \A u \in InHand(p) : u = t
  <2>1. ASSUME Holds(a) PROVE t \in InHand(p) /\ t \in DOMAIN journals
    BY <1>0, <1>1, <2>1 DEF InHand, Owners, Holds
  <2>2. FromLast(p)
    BY DEF PInv
  <2>3. QED BY <1>0, <2>1, <2>2, OneInHand DEF FromLast, Mine
<1>3. Alone(p)'
  BY <1>1 DEF Alone
<1>4. \A u \in DOMAIN journals : (Holds(a) => u # t) => journals'[u] = journals[u]
  BY <1>0, MovingKeeps
<1>5. Unfinished(p)' \subseteq Unfinished(p) \cup {u \in {t} : Holds(a)}
  BY <1>0, <1>4 DEF Unfinished, Keeps
<1>6. InHand(p)' \subseteq InHand(p)
  <2>1. Holds(a) => t \in InHand(p)
    BY <1>2
  <2>2. \A u \in InHand(p)' : u \in Unfinished(p)' \/ (act'[a].at \in Holding /\ u = act'[a].journal)
    BY <1>1 DEF InHand, Holds
  <2>3. Unfinished(p) \subseteq InHand(p)
    BY DEF InHand
  <2>4. QED BY <1>0, <1>5, <2>1, <2>2, <2>3
<1>7. FromLast(p)'
  <2>1. ASSUME NEW u \in InHand(p)'
        PROVE  LastOf(journals', p, u) /\ Tells(journals', p, journals'[u].previous, u)
    <3>1. /\ u \in InHand(p) /\ u \in DOMAIN journals /\ LastOf(journals, p, u)
          /\ Tells(journals, p, journals[u].previous, u)
      BY <1>0, <1>6, OneInHand DEF PInv, FromLast
    <3>2. LastOf(journals', p, u) /\ journals'[u].previous = journals[u].previous
      BY <1>0, <3>1 DEF LastOf, Keeps
    <3>3. \A w \in DOMAIN journals : w < u => journals'[w] = journals[w]
      <4>1. Holds(a) => t = u
        BY <1>2, <3>1
      <4>2. \A w \in DOMAIN journals : w < u => w # u
        BY <1>0, <3>1, JournalFacts
      <4>3. QED BY <1>4, <4>1, <4>2
    <3>4. Tells(journals', p, journals[u].previous, u)
      <4>1. DOMAIN journals' = DOMAIN journals
        BY <1>0
      <4>2. \A w : w \in DOMAIN journals /\ w < u /\ KeptIn(journals, p, w)
                    <=> w \in DOMAIN journals' /\ w < u /\ KeptIn(journals', p, w)
        BY ONLY <3>3, <4>1 DEF KeptIn
      <4>3. \A w \in DOMAIN journals : w < u /\ KeptIn(journals, p, w)
                                         => journals'[w].receipt = journals[w].receipt
        BY ONLY <3>3
      <4>4. Tells(journals, p, journals[u].previous, u)
        BY <3>1
      <4>5. QED BY ONLY <4>2, <4>3, <4>4, TellsFrame
    <3>5. QED BY <3>2, <3>4
  <2>2. QED BY <2>1 DEF FromLast
<1>8. Fresh(p)'
  <2>1. ASSUME act'[a].at \in {"place", "placed"} PROVE Unfinished(p)' = {}
    <3>1. act[a].at = "place"
      BY <1>0, <2>1, Targets DEF Place, At
    <3>2. Unfinished(p) = {} /\ ~Holds(a)
      BY <1>1, <3>1 DEF PInv, Fresh, Holds, Holding, Locked
    <3>3. QED BY <1>5, <3>2
  <2>2. QED BY <1>1, <2>1 DEF Fresh
<1>9. Written(p)'
  <2>1. ASSUME act'[a].at = "recorded" PROVE ledger'[p] = Mine(a)'.receipt
    <3>1. SetLedger(a, Mine(a).receipt) /\ journals' = journals
      BY <1>0, <2>1, Targets DEF Record
    <3>2. Mine(a)' = Mine(a)
      BY <1>0, <2>1, <3>1 DEF Mine, Holding, Locked
    <3>3. QED BY <1>0, <3>1, <3>2 DEF SetLedger
  <2>2. ASSUME act'[a].at = "rolled" PROVE ledger'[p] = Mine(a)'.previous
    <3>1. SetLedger(a, Mine(a).previous) /\ journals' = journals
      BY <1>0, <2>2, Targets DEF Unrecord
    <3>2. Mine(a)' = Mine(a)
      BY <1>0, <2>2, <3>1 DEF Mine, Holding, Locked
    <3>3. QED BY <1>0, <3>1, <3>2 DEF SetLedger
  <2>3. QED BY <1>1, <2>1, <2>2 DEF Written
<1>10. Settled(p)'
  <2> SUFFICES ASSUME \A u \in Unfinished(p)' : journals'[u].phase = "staged"
               PROVE  Tells(journals', p, ledger'[p], Len(journals') + 1)
    BY DEF Settled
  <2>1. CASE journals' = journals
    <3>1. \A u \in Unfinished(p) : journals[u].phase = "staged"
      BY <2>1 DEF Unfinished
    <3>2. CASE ledger' = ledger
      BY <2>1, <3>1, <3>2 DEF PInv, Settled
    <3>3. CASE act[a].at \in {"committing", "rolling"}
      <4>1. Holds(a) /\ Mine(a).phase \in {"committing", "rolling_back"}
        BY <1>0, <3>3 DEF InStep, Holds, Holding, Locked
      <4>2. t \in Unfinished(p)
        BY <1>0, <1>2, <4>1 DEF Unfinished, LastOf, Final
      <4>3. QED BY <1>2, <3>1, <4>1, <4>2
    <3>4. QED BY <3>2, <3>3, MovingLedger
  <2>2. ASSUME NEW ph \in Phases, SetPhase(a, ph), Holds(a), ph \in {"committing", "rolling_back"}
        PROVE  FALSE
    <3>1. journals'[t].phase = ph
      BY <1>0, <1>2, <2>2, PhaseSet, Split
    <3>2. t \in Unfinished(p)'
      BY <1>0, <1>2, <2>2, <3>1 DEF Unfinished, Keeps, LastOf, Final
    <3>3. QED BY <2>2, <3>1, <3>2
  <2>3. CASE Committed(a) /\ SetPhase(a, "committed") /\ Holds(a) /\ act[a].at = "recorded"
    <3>1. journals'[t].phase = "committed"
      BY <1>0, <1>2, <2>3, PhaseSet, Split DEF Phases
    <3>2. LastOf(journals', p, t) /\ journals'[t].receipt = Mine(a).receipt
      BY <1>0, <1>2, <2>3 DEF LastOf, Keeps
    <3>3. ledger'[p] = Mine(a).receipt
      BY <1>1, <2>3 DEF PInv, Written, Committed
    <3>4. QED BY <1>0, <1>2, <2>3, <3>1, <3>2, <3>3, TellsLast
  <2>4. ASSUME SetPhase(a, "rolled_back"), Holds(a), ledger' = ledger,
               Mine(a).phase \in {"staged", "rolled_back"}
        PROVE  Tells(journals', p, ledger'[p], Len(journals') + 1)
    <3>1. journals'[t].phase = "rolled_back"
      BY <1>0, <1>2, <2>4, PhaseSet, Split DEF Phases
    <3>2. \A u \in Unfinished(p) : journals[u].phase = "staged"
      BY <1>2, <2>4 DEF InHand, Unfinished, Final
    <3>3. Tells(journals, p, ledger[p], Len(journals) + 1)
      BY <3>2 DEF PInv, Settled
    <3>4. \A u \in DOMAIN journals : KeptIn(journals', p, u) <=> KeptIn(journals, p, u)
      <4>1. ~KeptIn(journals', p, t) /\ ~KeptIn(journals, p, t)
        BY <1>2, <2>4, <3>1 DEF KeptIn
      <4>2. QED BY <1>4, <4>1 DEF KeptIn
    <3>5. QED BY SMTT(30), <1>0, <2>4, <3>3, <3>4, TellsFrame DEF Keeps
  <2>5. CASE RolledBack(a) /\ SetPhase(a, "rolled_back") /\ Holds(a) /\ act[a].at = "rolled"
    <3>1. journals'[t].phase = "rolled_back"
      BY <1>0, <1>2, <2>5, PhaseSet, Split DEF Phases
    <3>2. LastOf(journals', p, t)
      BY <1>0, <1>2, <2>5 DEF LastOf, Keeps
    <3>3. ledger'[p] = Mine(a).previous
      BY <1>1, <2>5 DEF PInv, Written, RolledBack
    <3>4. \A w \in DOMAIN journals : w < t => journals'[w] = journals[w]
      <4>1. \A w \in DOMAIN journals : w < t => w # t
        BY <1>0, <1>2, <2>5, JournalFacts
      <4>2. QED BY <1>4, <4>1
    <3>5. Tells(journals', p, Mine(a).previous, t)
      BY <1>0, <1>2, <2>5, <3>4, TellsFrame DEF KeptIn
    <3>6. QED BY <1>0, <1>2, <2>5, <3>1, <3>2, <3>3, <3>5, TellsLast
  <2>6. CASE Undo(a) /\ SetPhase(a, AfterUndo(Mine(a).phase)) /\ Holds(a)
    <3>1. ledger' = ledger
      BY <2>6 DEF Undo
    <3>2. CASE AfterUndo(Mine(a).phase) = "rolled_back"
      BY <2>4, <2>6, <3>1, <3>2 DEF AfterUndo
    <3>3. CASE AfterUndo(Mine(a).phase) = "rolling_back"
      BY <2>2, <2>6, <3>3 DEF Phases
    <3>4. QED BY <3>2, <3>3 DEF AfterUndo
  <2>7. QED BY <2>1, <2>2, <2>3, <2>5, <2>6, MovingJournals DEF Phases
<1>11. QED BY <1>3, <1>7, <1>8, <1>9, <1>10 DEF PInv

\* An activator at work leaves the other plugins alone.
LEMMA MovingElsewhere ==
  ASSUME VInv, VInv', NEW a \in Activators, Moving(a), NEW p \in Plugins, p # act[a].plugin, PInv(p)
  PROVE  PInv(p)'
<1>0. TInv /\ TInv' /\ ledger \in [Plugins -> Receipts] /\ Owners(act, journals)
  BY Split DEF VInv, PlaceTypes
<1>1. ledger'[p] = ledger[p]
  BY <1>0, MovingLedger DEF SetLedger
<1>2. Users(p)' = Users(p) /\ \A b \in Users(p) : act'[b] = act[b]
  BY <1>0, MovingUsers, MovingActs DEF Users
<1>3. /\ DOMAIN journals' = DOMAIN journals /\ Keeps(journals, journals')
      /\ \A t \in DOMAIN journals : (Holds(a) => t # act[a].journal) => journals'[t] = journals[t]
  BY <1>0, MovingKeeps
<1>4. \A t \in DOMAIN journals : journals[t].plugin = p => journals'[t] = journals[t]
  BY <1>0, <1>3 DEF Owners, Holds
<1>5. QED BY <1>0, <1>1, <1>2, <1>3, <1>4, ElsewhereStep DEF Keeps

\* A switch is staged: its journal is the last one and says what is active.
LEMMA StagePlugin ==
  ASSUME VInv, VInv', NEW a \in Activators, Stage(a), NEW p \in Plugins, PInv(p)
  PROVE  PInv(p)'
<1> DEFINE n == Len(journals')
<1>0. /\ TInv /\ TInv' /\ Owners(act, journals) /\ journals \in Seq(Journals) /\ journals' \in Seq(Journals)
      /\ ledger' = ledger /\ a \in Users(act[a].plugin) /\ Users(p)' = Users(p)
      /\ act[a].at = "placed" /\ act'[a].at = "staged" /\ act'[a].journal = n
      /\ \A b \in Activators : b # a => act'[b] = act[b]
  BY Split, StagingUsers, StagingTypes DEF VInv, JournalTypes, Stage
<1>1. /\ n = Len(journals) + 1 /\ DOMAIN journals' = DOMAIN journals \cup {n} /\ n \notin DOMAIN journals
      /\ n \in DOMAIN journals' /\ Len(journals) \in Nat
      /\ \A t \in DOMAIN journals : journals'[t] = journals[t] /\ t < n /\ t \in Nat
      /\ journals'[n].plugin = act[a].plugin /\ journals'[n].phase = "staged"
      /\ journals'[n].previous = ledger[act[a].plugin]
  <2>1. Len(journals) \in Nat /\ DOMAIN journals = 1 .. Len(journals)
    BY <1>0, JournalFacts
  <2>2. \A t \in DOMAIN journals : t \in Nat
    BY <2>1
  <2>3. QED BY <1>0, <2>1, <2>2, JournalStaged
<1> HIDE DEF n
<1>2. CASE p # act[a].plugin
  <2>1. a \notin Users(p)
    BY <1>2 DEF Users
  <2>2. \A b \in Users(p) : act'[b] = act[b]
    BY <1>0, <2>1 DEF Users
  <2>3. QED BY <1>0, <1>1, <1>2, <2>2, ElsewhereStep
<1>3. CASE p = act[a].plugin
  <2>1. \A b \in Users(p)' : b = a
    BY <1>0, <1>3 DEF PInv, Alone
  <2>2. Unfinished(p) = {}
    BY <1>0, <1>3 DEF PInv, Fresh
  <2>3. Unfinished(p)' \subseteq {n}
    BY <1>1, <2>2 DEF Unfinished
  <2>4. InHand(p)' \subseteq {n}
    BY <1>0, <2>1, <2>3 DEF InHand
  <2>5. Tells(journals, p, ledger[p], Len(journals) + 1)
    BY <2>2 DEF PInv, Settled
  <2>6. Tells(journals', p, ledger[p], n)
    BY <1>1, <2>5, TellsFrame DEF KeptIn
  <2>7. LastOf(journals', p, n)
    <3>1. \A u \in DOMAIN journals : u <= n
      BY <1>1
    <3>2. n <= n
      BY <1>1
    <3>3. QED BY <1>1, <1>3, <3>1, <3>2 DEF LastOf
  <2>8. FromLast(p)'
    BY <1>1, <1>3, <2>4, <2>6, <2>7 DEF FromLast
  <2>9. Settled(p)'
    <3>1. Tells(journals', p, ledger[p], Len(journals') + 1)
      BY <1>0, <1>1, <2>6, <2>7, TellsLast
    <3>2. QED BY <1>0, <3>1 DEF Settled
  <2>10. Alone(p)' /\ Fresh(p)' /\ Written(p)'
    BY <1>0, <2>1 DEF Alone, Fresh, Written
  <2>11. QED BY <2>8, <2>9, <2>10 DEF PInv
<1>4. QED BY <1>2, <1>3

\* A plugin is entered when nobody works on it and no switch of it is open, or
\* it is crowded.
LEMMA BeginningPlugin ==
  ASSUME VInv, VInv', NEW a \in Activators, Beginning(a), NEW p \in Plugins \ crowded', PInv(p)
  PROVE  PInv(p)'
<1>0. TInv /\ TInv' /\ journals' = journals /\ act[a].at = "idle" /\ act'[a].at \notin Holding
      /\ \A b \in Activators : b # a => act'[b] = act[b]
  BY BeginningTypes DEF VInv, At
<1>1. ledger' = ledger
  BY DEF Beginning, RollBack, Activate, Test, disk
<1>2. PICK q \in Plugins :
           /\ Users(q)' = Users(q) \cup {a} /\ Enter(q)
           /\ act'[a].at \in {"place", "placed", "register"}
           /\ \A r : r # q => Users(r)' = Users(r) /\ a \notin Users(r)'
  BY <1>0, BeginningUsers
<1>3. CASE p # q
  <2>1. \A b \in Users(p) : act'[b] = act[b]
    BY <1>0, <1>2, <1>3 DEF Users
  <2>2. QED BY <1>0, <1>1, <1>2, <1>3, <2>1, ElsewhereStep
<1>4. CASE p = q
  <2>1. Unfinished(p) = {} /\ Users(p) = {}
    BY <1>2, <1>4 DEF Enter
  <2>2. Unfinished(p)' = {} /\ Users(p)' = {a}
    BY <1>0, <1>2, <1>4, <2>1 DEF Unfinished
  <2>3. InHand(p)' = {}
    BY <1>0, <2>2 DEF InHand, Holds
  <2>4. Alone(p)' /\ FromLast(p)' /\ Fresh(p)'
    BY <2>2, <2>3 DEF Alone, FromLast, Fresh
  <2>5. Settled(p)'
    BY <1>0, <1>1, <2>1 DEF PInv, Settled
  <2>6. Written(p)'
    BY <1>2, <2>2 DEF Written
  <2>7. QED BY <2>4, <2>5, <2>6 DEF PInv
<1>5. QED BY <1>3, <1>4

\* recover sets the ledger to what the last open journal decides.
LEMMA RecoverPlugin ==
  ASSUME VInv, VInv', Recover, NEW p \in Plugins, PInv(p)
  PROVE  PInv(p)'
<1> DEFINE open == {t \in Unfinished(p) : journals[t].phase # "staged"}
           m == CHOOSE t \in open : \A u \in open : u <= t
<1>0. /\ TInv /\ TInv' /\ Owners(act, journals) /\ JournalTypes(journals) /\ JournalTypes(journals')
      /\ journals \in Seq(Journals) /\ journals' \in Seq(Journals) /\ LockFree /\ act' = act
      /\ DOMAIN journals' = DOMAIN journals /\ Keeps(journals, journals')
      /\ Len(journals') = Len(journals)
      /\ \A t \in DOMAIN journals : /\ journals'[t].phase = Verdict(journals[t])
                                    /\ journals'[t].phase \in Final
      /\ DOMAIN journals = 1 .. Len(journals) /\ Len(journals) \in Nat
  BY Split, JournalsRecovered, JournalFacts DEF VInv, JournalTypes, Recover
<1>1. ledger'[p] = IF open = {} THEN ledger[p] ELSE Recovered(journals[m])
  BY DEF Recover
<1> HIDE DEF m
<1>2. Users(p)' = Users(p) /\ Unfinished(p)' = {}
  BY <1>0 DEF Users, Unfinished
<1>3. \A t \in DOMAIN journals :
        t \notin Unfinished(p) => (KeptIn(journals', p, t) <=> KeptIn(journals, p, t))
  BY <1>0 DEF KeptIn, Unfinished, Keeps, Verdict, Final
<1>4. InHand(p)' \subseteq InHand(p)
  BY <1>0, <1>2 DEF InHand, Holds
<1>5. \A t \in InHand(p) : /\ t \in DOMAIN journals /\ LastOf(journals', p, t)
                           /\ Tells(journals', p, journals'[t].previous, t)
                           /\ journals'[t].previous = journals[t].previous
  <2> SUFFICES ASSUME NEW t \in InHand(p)
               PROVE  /\ t \in DOMAIN journals /\ LastOf(journals', p, t)
                      /\ Tells(journals', p, journals'[t].previous, t)
                      /\ journals'[t].previous = journals[t].previous
    OBVIOUS
  <2>1. /\ t \in DOMAIN journals /\ LastOf(journals, p, t)
        /\ Tells(journals, p, journals[t].previous, t)
        /\ \A u \in Unfinished(p) : u = t
    BY <1>0, OneInHand DEF PInv, FromLast, InHand
  <2>2. LastOf(journals', p, t) /\ journals'[t].previous = journals[t].previous
    BY <1>0, <2>1 DEF LastOf, Keeps
  <2>3. \A u \in DOMAIN journals : u < t => u # t
    BY <1>0, <2>1
  <2>4. \A u \in DOMAIN journals : u < t => (KeptIn(journals', p, u) <=> KeptIn(journals, p, u))
    BY <1>3, <2>1, <2>3
  <2>5. Tells(journals', p, journals[t].previous, t)
    BY SMTT(30), <1>0, <2>1, <2>4, TellsFrame DEF Keeps
  <2>6. QED BY <2>1, <2>2, <2>5
<1>6. Alone(p)' /\ Fresh(p)' /\ FromLast(p)'
  <2>1. Alone(p)' /\ Fresh(p)'
    BY <1>0, <1>2 DEF PInv, Alone, Fresh
  <2>2. FromLast(p)'
    BY <1>4, <1>5 DEF FromLast
  <2>3. QED BY <2>1, <2>2
<1>7. Written(p)'
  BY <1>0, <1>2 DEF Written, LockFree, Locked, Users
<1>8. Settled(p)'
  <2>1. CASE open = {}
    <3>1. \A t \in Unfinished(p) : journals[t].phase = "staged"
      BY <2>1
    <3>2. Tells(journals, p, ledger[p], Len(journals) + 1)
      BY <3>1 DEF PInv, Settled
    <3>3. \A t \in Unfinished(p) : ~KeptIn(journals, p, t) /\ ~KeptIn(journals', p, t)
      BY <1>0, <3>1 DEF KeptIn, Unfinished, Verdict
    <3>4. \A t \in DOMAIN journals : KeptIn(journals', p, t) <=> KeptIn(journals, p, t)
      BY <1>3, <3>3
    <3>5. Tells(journals', p, ledger[p], Len(journals) + 1)
      BY <1>0, <3>2, <3>4, TellsFrame DEF Keeps
    <3>6. QED BY <1>0, <1>1, <2>1, <3>5 DEF Settled
  <2>2. CASE open # {}
    <3>1. m \in open
      <4>1. open \subseteq DOMAIN journals
        BY DEF Unfinished
      <4> HIDE DEF open
      <4>2. QED BY <1>0, <2>2, <4>1, LastOfSome DEF m
    <3>2. m \in InHand(p) /\ m \in DOMAIN journals /\ journals[m].phase \in {"committing", "rolling_back"}
      <4>1. \A t \in DOMAIN journals : journals[t].phase \in Phases
        BY <1>0, JournalFacts
      <4>2. QED BY <3>1, <4>1 DEF InHand, Unfinished, Phases, Final
    <3>3. LastOf(journals', p, m) /\ Tells(journals', p, journals[m].previous, m)
      BY <1>5, <3>2
    <3>4. journals'[m].receipt = journals[m].receipt /\ journals'[m].phase = Verdict(journals[m])
      BY <1>0, <3>2 DEF Keeps
    <3>5. CASE journals[m].phase = "committing"
      <4>1. ledger'[p] = journals[m].receipt /\ journals'[m].phase = "committed"
        BY <1>1, <2>2, <3>4, <3>5 DEF Recovered, Verdict
      <4>2. Tells(journals', p, journals'[m].receipt, Len(journals') + 1)
        BY <1>0, <3>2, <3>3, <4>1, TellsLast
      <4>3. QED BY <3>4, <4>1, <4>2 DEF Settled
    <3>6. CASE journals[m].phase = "rolling_back"
      <4>1. ledger'[p] = journals[m].previous /\ journals'[m].phase = "rolled_back"
        BY <1>1, <2>2, <3>4, <3>6 DEF Recovered, Verdict
      <4>2. Tells(journals', p, journals[m].previous, Len(journals') + 1)
        BY <1>0, <3>2, <3>3, <4>1, TellsLast
      <4>3. QED BY <4>1, <4>2 DEF Settled
    <3>7. QED BY <3>2, <3>5, <3>6
  <2>3. QED BY <2>1, <2>2
<1>9. QED BY <1>6, <1>7, <1>8 DEF PInv

LEMMA HistoryGrows ==
  ASSUME TInv, [Next]_vars
  PROVE  /\ crowded \subseteq crowded' /\ incomplete \subseteq incomplete'
         /\ torn \subseteq torn' /\ trampled \subseteq trampled'
<1>1. crowded \subseteq Plugins /\ trampled \subseteq Plugins
  BY Split DEF HistoryTypes
<1>2. ASSUME NEW a \in Activators, Moving(a)
      PROVE  /\ crowded \subseteq crowded' /\ incomplete \subseteq incomplete'
             /\ torn \subseteq torn' /\ trampled \subseteq trampled'
  BY <1>1, <1>2, MovingHistory
<1>3. ASSUME NEW a \in Activators, Beginning(a)
      PROVE  /\ crowded \subseteq crowded' /\ incomplete \subseteq incomplete'
             /\ torn \subseteq torn' /\ trampled \subseteq trampled'
  BY <1>3 DEF Beginning, RollBack, Activate, Test, Enter
<1>4. CASE Recover \/ \E a \in Activators : Stage(a)
  BY <1>4 DEF Recover, Stage, history
<1>5. CASE UNCHANGED vars
  BY <1>5 DEF vars, history
<1>6. QED BY <1>2, <1>3, <1>4, <1>5 DEF Next, Moving, Write, Beginning

LEMMA LedgerStep == LInv /\ [Next]_vars => LInv'
<1> SUFFICES ASSUME LInv, [Next]_vars PROVE LInv'
  OBVIOUS
<1>1. VInv /\ VInv'
  BY TypeStep, ApartStep, InStepStep DEF LInv, VInv
<1>2. \A p \in Plugins \ crowded : PInv(p)
  BY DEF LInv, PInv
<1>3. crowded \subseteq crowded'
  BY <1>1, HistoryGrows DEF VInv
<1>4. SUFFICES ASSUME NEW p \in Plugins \ crowded' PROVE PInv(p)'
  BY <1>1 DEF LInv, PInv
<1>5. PInv(p)
  BY <1>2, <1>3
<1>6. ASSUME NEW a \in Activators, Moving(a) PROVE PInv(p)'
  BY <1>1, <1>5, <1>6, UserStep, MovingElsewhere
<1>7. ASSUME NEW a \in Activators, Stage(a) PROVE PInv(p)'
  BY <1>1, <1>5, <1>7, StagePlugin
<1>8. ASSUME NEW a \in Activators, Beginning(a) PROVE PInv(p)'
  BY <1>1, <1>5, <1>8, BeginningPlugin
<1>9. CASE Recover
  BY <1>1, <1>5, <1>9, RecoverPlugin
<1>10. CASE UNCHANGED vars
  <2>1. ledger' = ledger /\ journals' = journals /\ act' = act
    BY <1>10 DEF vars, disk
  <2>2. Users(p)' = Users(p)
    BY <2>1 DEF Users
  <2>3. QED BY <1>1, <1>5, <2>1, <2>2, ElsewhereStep DEF VInv
<1>11. QED BY <1>6, <1>7, <1>8, <1>9, <1>10 DEF Next, Moving, Write, Beginning

\* At first the journals of one plugin are committed.
LEMMA InitJournals ==
  ASSUME Init
  PROVE  /\ \A a \in Activators : act[a].at = "idle"
         /\ Len(journals) = 2 /\ DOMAIN journals = {1, 2}
         /\ \A t \in {1, 2} : journals[t].phase = "committed" /\ journals[t].plugin = journals[1].plugin
         /\ \A p \in Plugins : ledger[p] = IF p = journals[1].plugin THEN journals[2].receipt ELSE None
         /\ \A p \in Plugins : registry[p] = ledger[p].sha /\ Backed(p, ledger[p], slots)
<1>1. SUFFICES ASSUME NEW p \in Plugins, NEW old \in Versions, NEW new \in Versions,
        LET one == [sha |-> old, prev |-> Blank]
            two == [sha |-> new, prev |-> old]
            done(receipt, previous) == [plugin |-> p, phase |-> "committed",
                                        receipt |-> receipt, previous |-> previous]
        IN /\ ledger = [q \in Plugins |-> IF q = p THEN two ELSE None]
           /\ journals = <<done(one, None), done(two, one)>>
           /\ registry = [q \in Plugins |-> ledger[q].sha]
           /\ slots = {Slot(p, old), Slot(p, new)}
           /\ act = [a \in Activators |-> Idle]
      PROVE  /\ \A a \in Activators : act[a].at = "idle"
             /\ Len(journals) = 2 /\ DOMAIN journals = {1, 2}
             /\ \A t \in {1, 2} : /\ journals[t].phase = "committed"
                                  /\ journals[t].plugin = journals[1].plugin
             /\ \A q \in Plugins : ledger[q] = IF q = journals[1].plugin THEN journals[2].receipt ELSE None
             /\ \A q \in Plugins : registry[q] = ledger[q].sha /\ Backed(q, ledger[q], slots)
  BY ZenonT(40) DEF Init
<1> DEFINE one == [sha |-> old, prev |-> Blank]
           two == [sha |-> new, prev |-> old]
           first == [plugin |-> p, phase |-> "committed", receipt |-> one, previous |-> None]
           second == [plugin |-> p, phase |-> "committed", receipt |-> two, previous |-> one]
<1>2. ledger = [q \in Plugins |-> IF q = p THEN two ELSE None] /\ journals = <<first, second>>
  BY <1>1
<1>3. /\ first.plugin = p /\ first.phase = "committed" /\ second.plugin = p
      /\ second.phase = "committed" /\ second.receipt = two /\ two.sha = new
  OBVIOUS
<1> HIDE DEF one, two, first, second
<1>4. Len(journals) = 2 /\ DOMAIN journals = {1, 2} /\ journals[1] = first /\ journals[2] = second
  BY <1>2
<1>5. \A a \in Activators : act[a].at = "idle"
  BY <1>1, IdleTyped
<1>6. \A q \in Plugins : Backed(q, ledger[q], slots)
  BY <1>1, <1>2, <1>3 DEF Backed
<1>7. QED BY <1>1, <1>2, <1>3, <1>4, <1>5, <1>6

LEMMA InitLedger == Init => LInv
<1>1. SUFFICES ASSUME Init, NEW p \in Plugins PROVE PInv(p)
  BY InitVerdicts DEF LInv, PInv
<1>2. Users(p) = {} /\ Unfinished(p) = {}
  BY <1>1, InitJournals DEF Users, Unfinished, Final
<1>3. InHand(p) = {}
  BY <1>2 DEF InHand
<1>4. Tells(journals, p, ledger[p], Len(journals) + 1)
  <2>1. Len(journals) = 2 /\ DOMAIN journals = {1, 2}
    BY <1>1, InitJournals
  <2>2. CASE p = journals[1].plugin
    <3>1. ledger[p] = journals[2].receipt /\ KeptIn(journals, p, 2)
      BY <1>1, <2>2, InitJournals DEF KeptIn
    <3>2. 2 \in DOMAIN journals /\ 2 < Len(journals) + 1 /\ \A u \in DOMAIN journals : u <= 2
      BY <2>1
    <3>3. QED BY <3>1, <3>2 DEF Tells
  <2>3. CASE p # journals[1].plugin
    <3>1. ledger[p] = None
      BY <1>1, <2>3, InitJournals
    <3>2. \A t \in DOMAIN journals : ~KeptIn(journals, p, t)
      BY <1>1, <2>3, InitJournals DEF KeptIn
    <3>3. QED BY <3>1, <3>2 DEF Tells
  <2>4. QED BY <2>2, <2>3
<1>5. QED BY <1>2, <1>3, <1>4 DEF PInv, Alone, FromLast, Fresh, Settled, Written

LEMMA LedgerInvariant == Spec => []LInv
BY InitLedger, LedgerStep, PTL DEF Spec

\* What all the journals tell is what Told finds.
LEMMA TellsTold ==
  ASSUME JournalTypes(journals), NEW p, NEW r, Tells(journals, p, r, Len(journals) + 1)
  PROVE  r = Told(p)
<1> DEFINE kept == {t \in DOMAIN journals : journals[t].plugin = p /\ journals[t].phase = "committed"}
           m == CHOOSE t \in kept : \A u \in kept : u <= t
<1>1. DOMAIN journals = 1 .. Len(journals) /\ Len(journals) \in Nat
  BY JournalFacts DEF JournalTypes
<1>2. \A t \in DOMAIN journals : t < Len(journals) + 1 /\ (t \in kept <=> KeptIn(journals, p, t))
  BY <1>1 DEF KeptIn
<1>3. Told(p) = IF kept = {} THEN None ELSE journals[m].receipt
  BY DEF Told
<1>4. CASE kept = {}
  BY <1>2, <1>3, <1>4 DEF Tells
<1>5. CASE kept # {}
  <2>1. m \in kept /\ \A u \in kept : u <= m
    <3>1. kept \subseteq DOMAIN journals
      OBVIOUS
    <3> HIDE DEF kept
    <3>2. QED BY <1>5, <3>1, LastOfSome
  <2> HIDE DEF m
  <2>2. \A t \in DOMAIN journals : t < Len(journals) + 1
    BY <1>1
  <2>3. kept \subseteq DOMAIN journals
    OBVIOUS
  <2>4. PICK t \in kept : r = journals[t].receipt /\ \A u \in kept : u <= t
    <3> HIDE DEF kept
    <3>1. QED BY <1>2, <2>1, <2>2, <2>3 DEF Tells
  <2> HIDE DEF kept
  <2>5. t = m
    <3>1. t \in Nat /\ m \in Nat /\ t <= m /\ m <= t
      BY <1>1, <2>1, <2>3, <2>4
    <3>2. QED BY <3>1
  <2>6. QED BY <1>3, <1>5, <2>4, <2>5
<1>6. QED BY <1>4, <1>5

\* The ledger shows the last switch that was committed, through failed writes,
\* crashes and recoveries (ActivationStore::stage, commit, rollback, recover).
THEOREM LedgerIsTold == Spec => []LedgerFollowsJournals
<1>1. LInv => LedgerFollowsJournals
  <2>1. SUFFICES ASSUME LInv, NEW p \in Plugins \ crowded, Unfinished(p) = {}
                 PROVE  ledger[p] = Told(p)
    BY DEF LedgerFollowsJournals
  <2>2. Tells(journals, p, ledger[p], Len(journals) + 1) /\ JournalTypes(journals)
    BY <2>1, Split DEF LInv, Settled, VInv
  <2>3. QED BY <2>2, TellsTold
<1>2. QED BY <1>1, LedgerInvariant, PTL

-----------------------------------------------------------------------------
(* What a plugin is loaded from, when no switch of it was left half done.  *)

\* A switch that was not committed left the ledger as it found it.
LEMMA Unwound ==
  ASSUME VInv, NEW p \in Plugins, PInv(p), NEW a \in Users(p), Holds(a),
         Mine(a).phase \in {"staged", "rolled_back"}
  PROVE  ledger[p] = Mine(a).previous
<1> DEFINE t == act[a].journal
<1>1. /\ t \in InHand(p) /\ t \in DOMAIN journals /\ Mine(a) = journals[t] /\ TInv
      /\ JournalTypes(journals) /\ journals \in Seq(Journals)
  BY Split DEF VInv, InHand, Users, Owners, Holds, Mine, JournalTypes
<1>2. \A u \in Unfinished(p) : u = t
  BY <1>1, OneInHand DEF PInv, InHand
<1>3. \A u \in Unfinished(p) : journals[u].phase = "staged"
  BY <1>1, <1>2 DEF Unfinished, Final
<1>4. ledger[p] = Told(p)
  BY <1>1, <1>3, TellsTold DEF PInv, Settled
<1>5. LastOf(journals, p, t) /\ Tells(journals, p, journals[t].previous, t)
  BY <1>1 DEF PInv, FromLast
<1>6. Tells(journals, p, journals[t].previous, Len(journals) + 1)
  BY <1>1, <1>5, TellsLast
<1>7. QED BY <1>1, <1>4, <1>6, TellsTold

\* The steps of an activator, by what becomes of his journal.
Outside(a) ==
  \/ Place(a) \/ PlaceFails(a) \/ StageFails(a) \/ Read(a) \/ Switch(a) \/ SwitchFails(a)
  \/ Truncate(a) \/ Restore(a) \/ RestoreFails(a) \/ RestoreCutOff(a) \/ Clean(a)

LEMMA Ways ==
  ASSUME VInv, NEW a \in Activators, Moving(a)
  PROVE  \/ GiveUp(a)
         \/ Crash(a)
         \/ Holds(a) /\ act'[a].at \in Holding /\ UNCHANGED <<slots, spoiled>>
         \/ /\ Holds(a) /\ act'[a].at = "restore" /\ UNCHANGED <<ledger, slots, spoiled>>
            /\ Mine(a).phase \in {"staged", "rolled_back"} \/ act[a].at = "rolled"
            /\ journals'[act[a].journal].phase = "rolled_back"
         \/ Committed(a) /\ Holds(a) /\ act'[a].at = "idle"
            /\ journals'[act[a].journal].phase = "committed"
         \/ /\ ~Holds(a) /\ act'[a].at \notin Holding /\ Outside(a)
            /\ UNCHANGED <<ledger, journals>>
<1>0. /\ TInv /\ InStep /\ act \in [Activators -> Acts] /\ JournalTypes(journals)
      /\ Holds(a) => act[a].journal \in DOMAIN journals
  BY Split DEF VInv, ActTypes, Owners, Holds
<1>1. /\ \A s \in Steps : Goto(a, s) => act'[a].at = s
      /\ Done(a) => act'[a].at = "idle"
      /\ Read(a) => act'[a].at = IF act[a].at = "staged" THEN "switching" ELSE "registering"
      /\ Truncate(a) => act'[a].at = "restoring"
  BY <1>0, Places
<1>2. \A ph \in Phases : Holds(a) /\ SetPhase(a, ph) => journals'[act[a].journal].phase = ph
  BY <1>0, PhaseSet
<1>3. CASE Record(a) \/ Unrecord(a)
  BY <1>1, <1>3 DEF Record, Unrecord, At, Holds, Holding, Steps, Locked, history
<1>4. CASE Commit(a)
  <2>1. Goto(a, "committing") \/ Goto(a, "undo")
    BY <1>4 DEF Commit
  <2>2. QED BY <1>1, <1>4, <2>1 DEF Commit, At, Holds, Holding, Steps, Locked, history
<1>5. CASE CommitFails(a) \/ RecordFails(a) \/ CommittedFails(a)
  BY <1>1, <1>5 DEF CommitFails, RecordFails, CommittedFails, HalfCommitted, Fails, At,
                    Holds, Holding, Steps, Locked, disk, history
<1>6. CASE Committed(a)
  BY <1>1, <1>2, <1>6 DEF Committed, At, Holds, Holding, Locked, Phases
<1>7. CASE Undo(a)
  <2>1. Holds(a) /\ UNCHANGED <<ledger, slots, spoiled>>
    BY <1>7 DEF Undo, At, Holds, Holding, Locked, history
  <2>2. CASE AfterUndo(Mine(a).phase) = "rolled_back"
    <3>1. Goto(a, "restore") /\ SetPhase(a, "rolled_back")
      BY <1>7, <2>2 DEF Undo
    <3>2. Mine(a).phase \in {"staged", "rolled_back"}
      BY <2>2 DEF AfterUndo
    <3>3. QED BY <1>1, <1>2, <2>1, <3>1, <3>2 DEF Steps, Phases
  <2>3. CASE AfterUndo(Mine(a).phase) = "rolling_back"
    <3>1. Goto(a, "rolling")
      BY <1>7, <2>3 DEF Undo
    <3>2. QED BY <1>1, <2>1, <3>1 DEF Steps, Locked, Holding
  <2>4. QED BY <2>2, <2>3 DEF AfterUndo
<1>8. CASE RolledBack(a)
  BY <1>1, <1>2, <1>8 DEF RolledBack, At, Holds, Holding, Locked, Steps, Phases, history
<1>9. CASE UndoFails(a) \/ UnrecordFails(a) \/ RolledBackFails(a) \/ Crash(a)
  BY <1>9 DEF UndoFails, UnrecordFails, RolledBackFails
<1>10. CASE Place(a) \/ Clean(a) \/ PlaceFails(a)
  BY <1>1, <1>10 DEF Place, Clean, PlaceFails, At, Holds, Holding, Locked, Steps, disk, Outside
<1>11. CASE StageFails(a)
  <2>1. Done(a) \/ Goto(a, "restore")
    BY <1>11 DEF StageFails
  <2>2. QED BY <1>1, <1>11, <2>1 DEF StageFails, At, Holds, Holding, Locked, Steps, disk, Outside
<1>12. CASE Restore(a) \/ RestoreFails(a) \/ RestoreCutOff(a)
  <2>1. Done(a) \/ Goto(a, "clean")
    BY <1>12 DEF Restore, RestoreFails, RestoreCutOff, AfterRestore
  <2>2. ~Holds(a) /\ UNCHANGED <<ledger, journals>>
    BY <1>12 DEF Restore, RestoreFails, RestoreCutOff, At, Holds, Holding, Locked, disk
  <2>3. QED BY <1>1, <1>12, <2>1, <2>2 DEF Holding, Locked, Steps, Outside
<1>13. CASE Truncate(a)
  BY <1>1, <1>13 DEF Truncate, At, Holds, Holding, Locked, Outside
<1>14. CASE Read(a) \/ Switch(a) \/ SwitchFails(a)
  <2>1. UNCHANGED <<ledger, journals, slots, spoiled>>
    BY <1>14 DEF Read, Switch, SwitchFails, disk, history
  <2>2. CASE act[a].at \in {"staged", "switching"}
    <3>1. act'[a].at \in {"switching", "switched", "undo"}
      <4>1. Read(a) => act[a].at = "staged"
        BY <2>2 DEF Read
      <4>2. Switch(a) \/ SwitchFails(a) => Goto(a, "switched") \/ Goto(a, "undo")
        BY <2>2 DEF Switch, SwitchFails, At, Fails, Writing
      <4>3. QED BY <1>1, <1>14, <4>1, <4>2 DEF Steps
    <3>2. QED BY <2>1, <2>2, <3>1 DEF Holds, Holding
  <2>3. CASE act[a].at \in {"register", "registering"}
    <3>1. act'[a].at \in {"registering", "restore"}
      <4>1. Switch(a) \/ SwitchFails(a) => Goto(a, "restore")
        BY <2>3 DEF Switch, SwitchFails, At, Fails, Writing
      <4>2. QED BY <1>1, <1>14, <2>3, <4>1 DEF Steps
    <3>2. QED BY <1>14, <2>1, <2>3, <3>1 DEF Holds, Holding, Locked, Outside
  <2>4. QED BY <1>14, <2>2, <2>3 DEF Read, Switch, SwitchFails, Writing
<1>15. QED BY <1>3, <1>4, <1>5, <1>6, <1>7, <1>8, <1>9, <1>10, <1>11, <1>12, <1>13, <1>14
           DEF Moving, Reverse, Failure

\* The only user of a plugin, what he holds, and what stays in hand.
LEMMA UserFacts ==
  ASSUME VInv, NEW a \in Activators, Moving(a), NEW p \in Plugins, p = act[a].plugin, PInv(p)
  PROVE  /\ TInv /\ Heirs /\ Owners(act, journals) /\ InStep
         /\ DOMAIN journals' = DOMAIN journals /\ Keeps(journals, journals')
         /\ \A t \in DOMAIN journals : (Holds(a) => t # act[a].journal) => journals'[t] = journals[t]
         /\ a \in Users(p) /\ Users(p) = {a}
         /\ Users(p)' = IF act'[a].at = "idle" THEN {} ELSE {a}
         /\ act'[a].at # "idle" => /\ act'[a].plugin = p /\ act'[a].kind = act[a].kind
                                   /\ act'[a].version = act[a].version
                                   /\ act'[a].snapshot = act[a].snapshot
         /\ InHand(p) \subseteq DOMAIN journals /\ InHand(p)' \subseteq InHand(p)
         /\ Unfinished(p)' \subseteq InHand(p)
         /\ Holds(a) => act[a].journal \in InHand(p) /\ \A t \in InHand(p) : t = act[a].journal
<1>1. /\ TInv /\ Heirs /\ Owners(act, journals) /\ InStep
      /\ DOMAIN journals' = DOMAIN journals /\ Keeps(journals, journals')
      /\ \A t \in DOMAIN journals : (Holds(a) => t # act[a].journal) => journals'[t] = journals[t]
  BY MovingActs, MovingKeeps, Split DEF VInv
<1>2. /\ a \in Users(p) /\ Users(p)' \subseteq Users(p)
      /\ act'[a].at # "idle" => /\ act'[a].plugin = p /\ act'[a].kind = act[a].kind
                                /\ act'[a].version = act[a].version
                                /\ act'[a].snapshot = act[a].snapshot
  BY <1>1, MovingUsers
<1>3. Users(p) = {a}
  BY <1>2 DEF PInv, Alone
<1>4. Users(p)' = IF act'[a].at = "idle" THEN {} ELSE {a}
  BY <1>2, <1>3 DEF Users
<1>5. Holds(a) => act[a].journal \in InHand(p)
  BY <1>2 DEF InHand
<1>6. InHand(p) \subseteq DOMAIN journals
  BY <1>1, OneInHand DEF PInv
<1>7. Holds(a) => \A t \in InHand(p) : t = act[a].journal
  BY <1>1, <1>5, OneInHand DEF PInv
<1>8. Unfinished(p)' \subseteq InHand(p)
  <2>1. ASSUME NEW t \in Unfinished(p)' PROVE t \in InHand(p)
    <3>1. t \in DOMAIN journals /\ journals[t].plugin = p /\ journals'[t].phase \notin Final
      BY <1>1 DEF Unfinished, Keeps
    <3>2. CASE Holds(a) /\ t = act[a].journal
      BY <1>5, <3>2
    <3>3. CASE journals'[t] = journals[t]
      BY <3>1, <3>3 DEF InHand, Unfinished
    <3>4. QED BY <1>1, <3>1, <3>2, <3>3
  <2>2. QED BY <2>1
<1>9. InHand(p)' \subseteq InHand(p)
  <2>1. ASSUME NEW t \in InHand(p)' PROVE t \in InHand(p)
    <3>1. t \in Unfinished(p)' \/ (act'[a].at \in Holding /\ t = act'[a].journal)
      BY <1>2, <1>3 DEF InHand, Holds
    <3>2. act'[a].at \in Holding => Holds(a) /\ act'[a].journal = act[a].journal
      BY <1>1 DEF Heirs
    <3>3. QED BY <1>5, <1>8, <3>1, <3>2
  <2>2. QED BY <2>1
<1>10. QED BY <1>1, <1>2, <1>3, <1>4, <1>5, <1>6, <1>7, <1>8, <1>9

\* His journal is closed when he lets go of it and goes on.
LEMMA UserAttended ==
  ASSUME VInv, NEW a \in Activators, Moving(a), NEW p \in Plugins \ incomplete', p = act[a].plugin,
         PInv(p), Attended(p)
  PROVE  Attended(p)'
<1>0. /\ Heirs /\ Users(p) = {a} /\ Unfinished(p)' \subseteq InHand(p)
      /\ Users(p)' = IF act'[a].at = "idle" THEN {} ELSE {a}
      /\ Holds(a) => \A t \in InHand(p) : t = act[a].journal
  BY UserFacts
<1>1. SUFFICES ASSUME NEW t \in Unfinished(p)', act'[a].at # "idle"
               PROVE  act'[a].at \in Holding /\ act'[a].journal = t
  BY <1>0 DEF Attended, Holds
<1>2. Holds(a) /\ act[a].journal = t
  <2>1. t \in InHand(p)
    BY <1>0
  <2>2. CASE t \in Unfinished(p)
    BY <1>0, <2>1, <2>2 DEF Attended
  <2>3. QED BY <1>0, <2>1, <2>2 DEF InHand
<1>3. journals'[t].phase \notin Final
  BY DEF Unfinished
<1>4. ~Crash(a)
  BY <1>1, Places DEF Crash, VInv
<1>5. act'[a].at \in Holding
  BY <1>2, <1>3, <1>4, Ways DEF GiveUp, Final
<1>6. QED BY <1>0, <1>2, <1>5 DEF Heirs

LEMMA BackedMore ==
  \A p, r, S, T : Backed(p, r, S) /\ S \subseteq T => Backed(p, r, T)
BY DEF Backed

\* The two writes of the ledger take it from one end to the other.
LEMMA UserLedger ==
  ASSUME VInv, NEW a \in Activators, Moving(a), NEW p \in Plugins, p = act[a].plugin, PInv(p)
  PROVE  \/ ledger'[p] = ledger[p]
         \/ \E t \in InHand(p) : ledger'[p] \in {journals[t].previous, journals[t].receipt}
<1>1. /\ ledger \in [Plugins -> Receipts] /\ (Holds(a) => act[a].journal \in InHand(p))
  BY UserFacts, Split DEF PlaceTypes
<1>2. CASE act[a].at \in {"committing", "rolling"}
  <2>1. act[a].journal \in InHand(p)
    BY <1>1, <1>2 DEF Holds, Holding, Locked
  <2>2. \/ ledger' = ledger
        \/ SetLedger(a, journals[act[a].journal].receipt)
        \/ SetLedger(a, journals[act[a].journal].previous)
    BY MovingLedger DEF Mine
  <2>3. QED BY <1>1, <2>1, <2>2 DEF SetLedger
<1>3. CASE act[a].at \notin {"committing", "rolling"}
  BY <1>3, MovingLedger
<1>4. QED BY <1>2, <1>3

LEMMA UserBetween ==
  ASSUME VInv, NEW a \in Activators, Moving(a), NEW p \in Plugins, p = act[a].plugin, PInv(p), Between(p)
  PROVE  Between(p)'
<1>1. /\ TInv /\ Keeps(journals, journals') /\ InHand(p)' \subseteq InHand(p)
      /\ InHand(p) \subseteq DOMAIN journals
  BY UserFacts
<1>2. SUFFICES ASSUME NEW t \in InHand(p)
               PROVE  ledger'[p] \in {journals'[t].previous, journals'[t].receipt}
  BY <1>1 DEF Between
<1>3. journals'[t].previous = journals[t].previous /\ journals'[t].receipt = journals[t].receipt
  BY <1>1 DEF Keeps
<1>4. \A u \in InHand(p) : u = t
  BY <1>1, OneInHand DEF PInv
<1>5. QED BY <1>3, <1>4, UserLedger DEF Between

\* The slot of what was active stays until the ledger leaves it.
LEMMA UserHoused ==
  ASSUME VInv, NEW a \in Activators, Moving(a), NEW p \in Plugins \ incomplete', p = act[a].plugin,
         PInv(p), Attended(p), Housed(p)
  PROVE  Housed(p)'
<1>0. /\ TInv /\ Heirs /\ DOMAIN journals' = DOMAIN journals /\ Keeps(journals, journals')
      /\ Owners(act, journals) /\ Users(p) = {a}
      /\ Users(p)' = IF act'[a].at = "idle" THEN {} ELSE {a}
      /\ InHand(p)' \subseteq InHand(p) /\ InHand(p) \subseteq DOMAIN journals
      /\ act'[a].at # "idle" => /\ act'[a].plugin = p /\ act'[a].kind = act[a].kind
                                /\ act'[a].version = act[a].version
  BY UserFacts
<1>1. act'[a].at # "idle" => Slotted(a)' = Slotted(a)
  BY <1>0 DEF Slotted
<1>2. /\ act[a].at = "placed" \/ Holds(a) => Slotted(a) \in slots
      /\ act[a].at = "clean" => act[a].kind = "activate"
      /\ Backed(p, IF Holds(a) THEN Mine(a).previous ELSE ledger[p], Left(a))
      /\ Left(a) \subseteq slots \cup spoiled
  BY <1>0 DEF Housed, Left
<1>3. /\ \A s \in Steps : Goto(a, s) => act'[a].at = s
      /\ Done(a) => act'[a].at = "idle"
  BY <1>0, Places
\* What the ledger and the journals in hand name.
<1>4. CASE slots \cup spoiled \subseteq slots' \cup spoiled'
  <2>1. \A t \in InHand(p) : /\ Backed(p, journals[t].previous, slots' \cup spoiled')
                             /\ Backed(p, journals[t].receipt, slots' \cup spoiled')
    BY <1>4, BackedMore DEF Housed
  <2>2. Backed(p, ledger[p], slots' \cup spoiled')
    BY <1>4, BackedMore DEF Housed
  <2>3. Backed(p, ledger'[p], slots' \cup spoiled')
    BY <2>1, <2>2, UserLedger
  <2>4. \A t \in InHand(p)' : /\ Backed(p, journals'[t].previous, slots' \cup spoiled')
                              /\ Backed(p, journals'[t].receipt, slots' \cup spoiled')
    <3>1. \A t \in InHand(p)' : /\ t \in InHand(p) /\ journals'[t].previous = journals[t].previous
                                /\ journals'[t].receipt = journals[t].receipt
      BY <1>0 DEF Keeps
    <3>2. QED BY <2>1, <3>1
  <2>5. SUFFICES ASSUME act'[a].at # "idle"
                 PROVE  /\ act'[a].at = "placed" \/ act'[a].at \in Holding => Slotted(a) \in slots'
                        /\ act'[a].at = "clean" => act[a].kind = "activate"
                        /\ Backed(p, IF act'[a].at \in Holding THEN Mine(a)'.previous ELSE ledger'[p],
                                  Left(a)')
    BY <1>0, <1>1, <2>3, <2>4 DEF Housed, Holds
  <2>6. UNCHANGED <<slots, spoiled>> => Left(a)' = Left(a)
    BY <1>0, <1>1, <2>5 DEF Left
  <2>7. CASE Holds(a) /\ act'[a].at \in Holding /\ UNCHANGED <<slots, spoiled>>
    <3>1. Mine(a)'.previous = Mine(a).previous
      BY <1>0, <2>7 DEF Mine, Heirs, Keeps, Owners, Holds
    <3>2. act'[a].at # "clean"
      BY <2>7 DEF Holding, Locked
    <3>3. QED BY <1>2, <2>6, <2>7, <3>1, <3>2
  <2>8. CASE /\ Holds(a) /\ act'[a].at = "restore" /\ UNCHANGED <<ledger, slots, spoiled>>
             /\ Mine(a).phase \in {"staged", "rolled_back"} \/ act[a].at = "rolled"
    <3>1. ledger[p] = Mine(a).previous
      BY <1>0, <2>8, Unwound DEF PInv, Written
    <3>2. QED BY <1>2, <2>6, <2>8, <3>1 DEF Holding, Locked
  <2>9. CASE ~Holds(a) /\ act'[a].at \notin Holding /\ Outside(a) /\ UNCHANGED <<ledger, journals>>
    <3>1. CASE Place(a)
      <4>1. act'[a].at = "placed" /\ slots' = slots \cup {Slotted(a)} /\ spoiled' = spoiled
        BY <1>3, <3>1 DEF Place, Steps, history
      <4>2. Left(a) \subseteq Left(a)'
        BY <1>0, <1>1, <4>1 DEF Left
      <4>3. QED BY <1>2, <2>9, <4>1, <4>2, BackedMore
    <3>2. CASE ~Place(a)
      <4>1. UNCHANGED <<slots, spoiled>>
        <5>1. ~Clean(a) /\ ~Committed(a)
          BY <1>3, <2>5 DEF Clean, Committed
        <5>2. QED BY <3>2, <5>1, MovingSlots
      <4>2. act'[a].at # "placed"
        BY <1>0, <3>2, Targets
      <4>3. act'[a].at = "clean" => act[a].kind = "activate"
        <5>1. act'[a].at = "clean" => AfterRestore(a)
          BY <1>0, Targets DEF Restore, RestoreFails, RestoreCutOff
        <5>2. AfterRestore(a) /\ act'[a].at # "idle" => act[a].kind = "activate"
          BY <1>3 DEF AfterRestore
        <5>3. QED BY <2>5, <5>1, <5>2
      <4>4. QED BY <1>2, <2>6, <2>9, <4>1, <4>2, <4>3
    <3>3. QED BY <3>1, <3>2
  <2>10. ~Crash(a) /\ ~Committed(a)
    BY <1>3, <2>5 DEF Crash, Committed
  <2>11. QED BY <2>7, <2>8, <2>9, <2>10, Ways DEF GiveUp
<1>5. CASE Clean(a)
  <2>1. /\ act[a].kind = "activate" /\ act'[a].at = "idle" /\ slots' = slots \ {Slotted(a)}
        /\ spoiled' = spoiled /\ ledger' = ledger /\ ~Holds(a)
    BY <1>2, <1>3, <1>5 DEF Clean, At, history, Holds, Holding, Locked
  <2>2. Left(a) \subseteq slots' \cup spoiled'
    BY <2>1 DEF Left
  <2>3. Backed(p, ledger'[p], slots' \cup spoiled')
    BY <1>2, <2>1, <2>2, BackedMore
  <2>4. InHand(p) = {}
    BY <1>0, <2>1 DEF Attended, InHand
  <2>5. QED BY <1>0, <2>1, <2>3, <2>4 DEF Housed
<1>6. CASE Committed(a)
  <2>1. Slotted(a) \in slots /\ slots' = slots /\ spoiled' = spoiled \ {Slotted(a)}
    BY <1>2, <1>6 DEF Committed, At, Holds, Holding, Locked
  <2>2. QED BY <1>4, <2>1
<1>7. QED BY <1>4, <1>5, <1>6, MovingSlots

\* The switch that is cut off or ends leaves an entry that fits.
LEMMA UserLeaves ==
  ASSUME VInv, NEW a \in Activators, Moving(a), NEW p \in Plugins, p = act[a].plugin, PInv(p),
         p \notin incomplete' \cup torn' \cup trampled', Attended(p), Serves(a, p, registry[p]),
         act'[a].at = "idle"
  PROVE  Fits(p, registry[p])'
<1>0. /\ TInv /\ InStep /\ Owners(act, journals) /\ DOMAIN journals' = DOMAIN journals
      /\ Keeps(journals, journals') /\ Users(p) = {a}
      /\ \A t \in DOMAIN journals : (Holds(a) => t # act[a].journal) => journals'[t] = journals[t]
  BY UserFacts
<1>1. \A t \in Unfinished(p) : Holds(a) /\ t = act[a].journal
  BY <1>0 DEF Attended
<1>2. Unfinished(p)' \subseteq Unfinished(p) \cup {t \in {act[a].journal} : Holds(a)}
  BY <1>0 DEF Unfinished, Keeps
<1>3. ASSUME Unfinished(p)' = {}, registry'[p] = ledger'[p].sha PROVE Fits(p, registry[p])'
  BY <1>3 DEF Fits
<1>4. ~Holds(a) => Unfinished(p)' = {}
  BY <1>1, <1>2
<1>5. CASE Committed(a)
  <2>1. act[a].at = "recorded" /\ Holds(a) /\ UNCHANGED <<ledger, registry>>
    BY <1>5 DEF Committed, At, Holds, Holding, Locked
  <2>2. ledger[p] = Mine(a).receipt /\ Mine(a).receipt.sha = act[a].version
        /\ act[a].journal \in DOMAIN journals
    BY <1>0, <2>1 DEF PInv, Written, Owners, Holds, Mine
  <2>3. registry[p] = act[a].version
    BY <2>1 DEF Serves
  <2>4. journals'[act[a].journal].phase = "committed"
    <3>1. JournalTypes(journals) /\ SetPhase(a, "committed")
      BY <1>0, <1>5, Split DEF Committed
    <3>2. QED BY <2>2, <3>1, PhaseSet DEF Phases
  <2>5. Unfinished(p)' = {}
    <3>1. \A t \in Unfinished(p)' : t = act[a].journal
      BY <1>1, <1>2
    <3>2. \A t \in Unfinished(p)' : journals'[t].phase \notin Final
      BY DEF Unfinished
    <3>3. QED BY <2>4, <3>1, <3>2 DEF Final
  <2>6. QED BY <1>3, <2>1, <2>2, <2>3, <2>5
<1>6. CASE Crash(a)
  <2>1. act[a].at \notin Tearing /\ UNCHANGED <<ledger, journals, registry>>
    BY <1>0, <1>6 DEF Crash, disk
  <2>2. Unfinished(p)' = Unfinished(p)
    BY <2>1 DEF Unfinished
  <2>3. SUFFICES Fits(p, registry[p])
    BY <2>1, <2>2 DEF Fits
  <2>4. CASE act[a].at \in Unwritten
    <3>1. registry[p] = ledger[p].sha
      BY <2>4 DEF Serves
    <3>2. Holds(a) => act[a].at \in {"staged", "switching"}
      BY <2>4 DEF Holds, Holding, Locked, Unwritten
    <3>3. \A t \in Unfinished(p) : journals[t].phase \in {"staged", "rolled_back"}
      BY <1>0, <1>1, <3>2 DEF InStep, Mine
    <3>4. \A t \in Unfinished(p) : journals[t].phase = "staged"
      BY <3>3 DEF Unfinished, Final
    <3>5. QED BY <3>1, <3>4 DEF Fits
  <2>5. CASE act[a].at \in {"committing", "recorded"}
    <3>1. Holds(a) /\ Mine(a).phase = "committing"
      BY <1>0, <2>5 DEF InStep, Holds, Holding, Locked
    <3>2. /\ act[a].journal \in DOMAIN journals /\ journals[act[a].journal].plugin = p
          /\ Mine(a).receipt.sha = act[a].version /\ Mine(a) = journals[act[a].journal]
      BY <1>0, <3>1 DEF Owners, Holds, Mine
    <3>3. act[a].journal \in Unfinished(p)
      BY <3>1, <3>2 DEF Unfinished, Final
    <3>4. registry[p] = act[a].version
      BY <2>5 DEF Serves
    <3>5. QED BY <1>1, <3>1, <3>2, <3>3, <3>4 DEF Fits
  <2>6. act[a].at # "idle" /\ act[a] \in Acts
    BY <1>0, <1>6, Split DEF Crash, At, ActTypes
  <2>7. act[a].at \in Unwritten \cup {"committing", "recorded"}
    BY <2>1, <2>6 DEF Acts, Steps, Locked, Writing, Tearing, Unwritten
  <2>8. QED BY <2>4, <2>5, <2>7
<1>7. CASE ~Holds(a) /\ Outside(a) /\ UNCHANGED <<ledger, journals>>
  <2>1. CASE PlaceFails(a) \/ StageFails(a) \/ Clean(a)
    <3>1. registry' = registry /\ act[a].at \in Unwritten
      BY <2>1 DEF PlaceFails, StageFails, Clean, At, Unwritten, disk
    <3>2. QED BY <1>3, <1>4, <1>7, <3>1 DEF Serves
  <2>2. CASE Restore(a)
    <3>1. p \notin Spilt(a, registry') /\ At(a, "restoring")
      BY <2>2 DEF Restore
    <3>2. registry'[p] = act[a].snapshot[p]
      BY <3>1 DEF Spilt, Restored
    <3>3. QED BY <1>3, <1>4, <1>7, <3>1, <3>2 DEF Serves, At
  <2>3. CASE RestoreFails(a) \/ RestoreCutOff(a)
    BY <2>3 DEF RestoreFails, RestoreCutOff, TearOff
  <2>4. CASE Place(a) \/ Read(a) \/ Switch(a) \/ SwitchFails(a) \/ Truncate(a)
    <3>1. \/ Read(a) \/ Truncate(a)
          \/ Goto(a, "placed") \/ Goto(a, "switched") \/ Goto(a, "restore") \/ Goto(a, "undo")
      BY <2>4 DEF Place, Switch, SwitchFails, Fails
    <3>2. act'[a].at # "idle"
      BY <1>0, <3>1, Places DEF Steps
    <3>3. QED BY <3>2
  <2>5. QED BY <1>7, <2>1, <2>2, <2>3, <2>4 DEF Outside
<1>8. QED BY <1>5, <1>6, <1>7, Ways DEF GiveUp, Holding, Locked

\* The registration of a switch that goes on, and of one that is undone.
LEMMA UserServes ==
  ASSUME VInv, NEW a \in Activators, Moving(a), NEW p \in Plugins, p = act[a].plugin, PInv(p),
         p \notin incomplete' \cup torn' \cup trampled', Serves(a, p, registry[p]),
         act'[a].at # "idle"
  PROVE  Serves(a, p, registry[p])'
<1> DEFINE at == act'[a].at
<1>0. /\ TInv /\ Heirs /\ Owners(act, journals) /\ Keeps(journals, journals') /\ a \in Users(p)
      /\ act'[a].kind = act[a].kind /\ act'[a].version = act[a].version
      /\ act'[a].snapshot = act[a].snapshot /\ registry \in Regs
  BY UserFacts, Split DEF PlaceTypes
<1>1. /\ at # "place" /\ at # "staged" /\ at # "register"
      /\ at = "placed" => Place(a)
      /\ at \in Writing => Read(a)
      /\ at = "switched" => Switch(a) /\ act[a].at = "switching"
      /\ at = "committing" => Commit(a) /\ Committable(Mine(a))
      /\ at = "recorded" => Record(a)
      /\ at = "restoring" => Truncate(a)
      /\ at = "clean" => Restore(a)
  BY <1>0, Targets DEF RestoreFails, RestoreCutOff, TearOff
<1>2. at \in Unwritten => registry'[p] = ledger'[p].sha
  <2>1. CASE at = "placed"
    BY <1>1, <2>1 DEF Place, At, Serves, Unwritten
  <2>2. CASE at \in Writing
    BY <1>1, <2>2 DEF Read, Serves, Unwritten, disk
  <2>3. CASE at = "clean"
    <3>1. p \notin Spilt(a, registry') /\ At(a, "restoring") /\ ledger' = ledger
      BY <1>1, <2>3 DEF Restore
    <3>2. registry'[p] = act[a].snapshot[p]
      BY <3>1 DEF Spilt, Restored
    <3>3. QED BY <3>1, <3>2 DEF Serves, At
  <2>4. QED BY <1>1, <2>1, <2>2, <2>3 DEF Unwritten, Writing
<1>3. at \in {"place", "placed"} /\ act'[a].kind # "activate" => act'[a].snapshot[p] = registry'[p]
  BY <1>0, <1>1 DEF Place, At, Serves
<1>4. at \in {"register", "registering", "restore", "restoring"} => act'[a].snapshot[p] = ledger'[p].sha
  <2>1. CASE at = "registering"
    <3>1. act[a].at = "register" /\ ledger' = ledger
      BY <1>0, <1>1, <2>1, Places DEF Read, Writing, disk
    <3>2. QED BY <1>0, <3>1 DEF Serves
  <2>2. CASE at = "restoring"
    BY <1>0, <1>1, <2>2 DEF Truncate, At, Serves
  <2>3. CASE at = "restore"
    <3>1. CASE /\ Holds(a) /\ ledger' = ledger
               /\ Mine(a).phase \in {"staged", "rolled_back"} \/ act[a].at = "rolled"
      <4>1. ledger[p] = Mine(a).previous
        BY <1>0, <3>1, Unwound DEF PInv, Written
      <4>2. QED BY <1>0, <3>1, <4>1 DEF Serves
    <3>2. CASE ~Holds(a) /\ ledger' = ledger
      <4>1. StageFails(a) \/ Switch(a) \/ SwitchFails(a)
        BY <1>0, <2>3, <3>2, Targets DEF Undo, UndoFails, UnrecordFails, RolledBack, RolledBackFails,
                                         At, Holds, Holding, Locked
      <4>2. CASE StageFails(a)
        <5>1. act[a].at = "placed" /\ act[a].kind # "activate"
          BY <1>0, <2>3, <4>2, Places DEF StageFails, At
        <5>2. QED BY <1>0, <3>2, <5>1 DEF Serves, Unwritten
      <4>3. CASE Switch(a) \/ SwitchFails(a)
        <5>1. act[a].at \in {"register", "registering"}
          BY <3>2, <4>3 DEF Switch, SwitchFails, Writing, Holds, Holding
        <5>2. QED BY <1>0, <3>2, <5>1 DEF Serves
      <4>4. QED BY <4>1, <4>2, <4>3
    <3>3. "restore" \notin Holding /\ "restore" # "idle"
      BY DEF Holding, Locked
    <3>4. ~Crash(a)
      BY <1>0, Places DEF Crash
    <3>5. QED BY <2>3, <3>1, <3>2, <3>3, <3>4, Ways DEF GiveUp
  <2>4. QED BY <1>1, <2>1, <2>2, <2>3
<1>5. at \in Holding => act'[a].snapshot[p] = Mine(a)'.previous.sha
  <2>1. ASSUME at \in Holding PROVE Holds(a) /\ Mine(a)'.previous = Mine(a).previous
    BY <1>0, <2>1 DEF Mine, Heirs, Keeps, Owners, Holds
  <2>2. QED BY <1>0, <2>1 DEF Serves
<1>6. at \in {"switched", "committing", "recorded"} => registry'[p] = act'[a].version
  <2>1. CASE at = "switched"
    <3>1. registry' = [act[a].seen EXCEPT ![p] = act[a].version] /\ act[a].seen \in Regs
      BY <1>0, <1>1, <2>1, Split DEF Switch, ActTypes, Acts
    <3>2. QED BY <1>0, <3>1 DEF Regs
  <2>2. CASE at = "committing"
    BY <1>0, <1>1, <2>2 DEF Commit, At, Serves
  <2>3. CASE at = "recorded"
    BY <1>0, <1>1, <2>3 DEF Record, At, Serves
  <2>4. QED BY <2>1, <2>2, <2>3
<1>7. QED BY <1>2, <1>3, <1>4, <1>5, <1>6 DEF Serves, Holds

LEMMA UserLoaded ==
  ASSUME VInv, VInv', NEW a \in Activators, Moving(a), NEW p \in Plugins, p = act[a].plugin, PInv(p),
         p \notin incomplete' \cup torn' \cup trampled', Attended(p), Loaded(p)
  PROVE  Loaded(p)'
<1>0. /\ TInv /\ TInv' /\ Users(p) = {a}
      /\ Users(p)' = IF act'[a].at = "idle" THEN {} ELSE {a}
      /\ act'[a].at # "idle" => act'[a].plugin = p
      /\ \A b \in Activators : b # a => act'[b] = act[b]
  BY UserFacts, MovingActs DEF VInv
<1>1. Elsewhere(p) = {} /\ Entries(p) = {registry[p]}
  BY <1>0 DEF Loaded, Entries
<1>2. \A b \in Rewriters : act[b].plugin = p /\ b = a
  <2>1. \A b \in Rewriters : act[b].plugin = p
    BY <1>1 DEF Elsewhere
  <2>2. \A b \in Rewriters : b \in Users(p)
    BY <2>1 DEF Rewriters, Users, At
  <2>3. QED BY <1>0, <2>1, <2>2
<1>3. Rewriters' \subseteq {a} /\ Elsewhere(p)' = {}
  <2>1. ASSUME NEW b \in Rewriters' PROVE b = a
    <3>1. b \in Activators /\ act'[b].at = "restoring"
      BY DEF Rewriters, At
    <3>2. b # a => b \in Rewriters
      BY <1>0, <3>1 DEF Rewriters, At
    <3>3. QED BY <1>2, <3>2
  <2>2. a \in Rewriters' => act'[a].plugin = p
    BY <1>0 DEF Rewriters, At
  <2>3. QED BY <2>1, <2>2 DEF Elsewhere
<1>4. Entries(p)' = {registry'[p]}
  BY <1>3 DEF Entries
<1>5. Truncate(a) => RegistryFree
  <2>1. ASSUME Truncate(a), ~RegistryFree PROVE p \in trampled'
    BY <2>1 DEF Truncate, Caught
  <2>2. QED BY <2>1
<1>6. Rewriters' # {} => RegistryFree'
  <2>1. SUFFICES ASSUME act'[a].at = "restoring" PROVE RegistryFree'
    BY <1>3 DEF Rewriters, At
  <2>2. Truncate(a)
    BY <1>0, <2>1, Targets
  <2>3. QED BY <1>0, <1>5, <2>1, <2>2 DEF RegistryFree, Writing
<1>7. ASSUME NEW b \in Activators, act'[b].at \in Writing, act'[b].plugin # p
      PROVE  act'[b].seen[p] = registry'[p]
  <2>1. b # a
    BY <1>0, <1>7 DEF Writing
  <2>2. act'[b] = act[b] /\ act[b].at \in Writing /\ act[b].plugin # p
    BY <1>0, <1>7, <2>1
  <2>3. act[b].seen[p] = registry[p]
    BY <1>1, <2>2 DEF Loaded
  <2>4. ~RegistryFree /\ act[a].at \notin Writing
    BY <1>0, <2>1, <2>2, Split DEF RegistryFree, LockTypes
  <2>5. ~Switch(a) /\ ~Truncate(a)
    BY <1>5, <2>4 DEF Switch
  <2>6. ~Restore(a)
    <3>1. Restore(a) => a \in Rewriters
      BY DEF Restore, Rewriters
    <3>2. QED BY <1>1, <2>4, <3>1 DEF Loaded
  <2>7. QED BY <2>2, <2>3, <2>5, <2>6, MovingRegistry
<1>8. Held(p, registry[p])'
  <2>1. Serves(a, p, registry[p])
    BY <1>0, <1>1 DEF Loaded, Held
  <2>2. QED BY <1>0, <2>1, UserLeaves, UserServes DEF Held
<1>9. QED BY <1>3, <1>4, <1>6, <1>7, <1>8 DEF Loaded

-----------------------------------------------------------------------------
(* The plugins that a step is not about.                                   *)

SameJournals(p) ==
  /\ \A t \in DOMAIN journals : journals[t].plugin = p => t \in DOMAIN journals' /\ journals'[t] = journals[t]
  /\ \A t \in DOMAIN journals' : journals'[t].plugin = p => t \in DOMAIN journals /\ journals'[t] = journals[t]
SameSlots(p) ==
  \A v : (Slot(p, v) \in slots' <=> Slot(p, v) \in slots) /\ (Slot(p, v) \in spoiled' <=> Slot(p, v) \in spoiled)

LEMMA ElsewhereKept ==
  ASSUME TInv, NEW p \in Plugins, ledger'[p] = ledger[p], Users(p)' = Users(p),
         \A b \in Users(p) : act'[b] = act[b], SameJournals(p)
  PROVE  /\ Attended(p) => Attended(p)'
         /\ Between(p) => Between(p)'
         /\ Housed(p) /\ SameSlots(p) => Housed(p)'
         /\ \A e : Held(p, e) => Held(p, e)'
<1>1. Unfinished(p)' = Unfinished(p)
  BY DEF Unfinished, SameJournals
<1>2. \A b \in Users(p) : Holds(b) => Mine(b)' = Mine(b)
  BY Split DEF Mine, Users, Owners, Holds, SameJournals
<1>3. InHand(p)' = InHand(p)
  BY <1>1 DEF InHand, Holds
<1>4. \A t \in InHand(p) : t \in DOMAIN journals /\ journals'[t] = journals[t]
  <2>1. \A t \in InHand(p) : t \in DOMAIN journals /\ journals[t].plugin = p
    BY Split DEF InHand, Unfinished, Users, Owners, Holds
  <2>2. QED BY <2>1 DEF SameJournals
<1>5. ASSUME Attended(p) PROVE Attended(p)'
  BY <1>1, <1>5 DEF Attended, Holds
<1>6. ASSUME Between(p) PROVE Between(p)'
  BY <1>3, <1>4, <1>6 DEF Between
<1>7. ASSUME Housed(p), SameSlots(p) PROVE Housed(p)'
  <2>1. ASSUME NEW r, Backed(p, r, slots \cup spoiled) PROVE Backed(p, r, slots' \cup spoiled')
    BY <1>7, <2>1 DEF Backed, SameSlots
  <2>2. \A b \in Users(p) : /\ Slotted(b)' = Slotted(b)
                            /\ Slotted(b) \in slots => Slotted(b) \in slots'
    BY <1>7 DEF Slotted, Users, SameSlots
  <2>3. ASSUME NEW b \in Users(p), NEW r, Backed(p, r, Left(b)) PROVE Backed(p, r, Left(b)')
    <3>1. act'[b].kind = act[b].kind /\ Slotted(b)' = Slotted(b)
      BY <2>2
    <3>2. QED BY <1>7, <2>3, <3>1 DEF Backed, Left, SameSlots
  <2>4. /\ Backed(p, ledger'[p], slots' \cup spoiled')
        /\ \A t \in InHand(p)' : /\ Backed(p, journals'[t].previous, slots' \cup spoiled')
                                 /\ Backed(p, journals'[t].receipt, slots' \cup spoiled')
    BY <1>3, <1>4, <1>7, <2>1 DEF Housed
  <2>5. ASSUME NEW b \in Users(p)
        PROVE  /\ act'[b].at = "placed" \/ Holds(b)' => Slotted(b)' \in slots'
               /\ act'[b].at = "clean" => act'[b].kind = "activate"
               /\ Backed(p, IF Holds(b)' THEN Mine(b)'.previous ELSE ledger'[p], Left(b)')
    <3>1. /\ act'[b] = act[b] /\ Holds(b)' = Holds(b)
          /\ act[b].at = "placed" \/ Holds(b) => Slotted(b) \in slots
          /\ act[b].at = "clean" => act[b].kind = "activate"
          /\ Backed(p, IF Holds(b) THEN Mine(b).previous ELSE ledger[p], Left(b))
      BY <1>7 DEF Housed, Holds
    <3>2. Backed(p, IF Holds(b) THEN Mine(b).previous ELSE ledger[p], Left(b)')
      BY <2>3, <3>1
    <3>3. QED BY <1>2, <2>2, <3>1, <3>2
  <2>6. QED BY <2>4, <2>5 DEF Housed
<1>8. ASSUME NEW e, Held(p, e) PROVE Held(p, e)'
  <2>1. Fits(p, e) => Fits(p, e)'
    <3>1. \A t \in Unfinished(p) : journals'[t] = journals[t]
      BY <1>4 DEF InHand
    <3>2. QED BY <1>1, <3>1 DEF Fits
  <2>2. \A b \in Users(p) : Serves(b, p, e) => Serves(b, p, e)'
    BY <1>2 DEF Serves, Holds
  <2>3. QED BY <1>8, <2>1, <2>2 DEF Held
<1>9. QED BY <1>5, <1>6, <1>7, <1>8

\* Nobody begins or ends a restore, reads or writes the registry.
LEMMA RegistryKept ==
  ASSUME NEW a \in Activators, \A b \in Activators : b # a => act'[b] = act[b],
         ~At(a, "restoring"), act'[a].at \notin Writing \cup {"restoring"},
         registry' = registry, NEW p \in Plugins, Loaded(p), \A e \in Entries(p) : Held(p, e)',
         Elsewhere(p) # {} => Users(p)' = {}
  PROVE  Loaded(p)'
<1>1. Rewriters' = Rewriters /\ \A b \in Rewriters : act'[b] = act[b]
  BY DEF Rewriters, At
<1>2. Elsewhere(p)' = Elsewhere(p) /\ \A b \in Elsewhere(p) : act'[b] = act[b]
  BY <1>1 DEF Elsewhere
<1>3. Entries(p)' = Entries(p)
  BY <1>2 DEF Entries
<1>4. RegistryFree => RegistryFree'
  BY DEF RegistryFree
<1>5. \A b \in Activators : act'[b].at \in Writing => act[b].at \in Writing /\ act'[b] = act[b]
  OBVIOUS
<1>6. QED BY <1>1, <1>2, <1>3, <1>4, <1>5 DEF Loaded

\* A step of the registry for another plugin.
LEMMA MovingLoaded ==
  ASSUME VInv, NEW a \in Activators, Moving(a), NEW p \in Plugins \ trampled', p # act[a].plugin,
         Loaded(p), Users(p)' = Users(p), \A e : Held(p, e) => Held(p, e)'
  PROVE  Loaded(p)'
<1>0. /\ TInv /\ \A b \in Activators : b # a => act'[b] = act[b]
      /\ act'[a].at # "idle" => act'[a].plugin = act[a].plugin
      /\ act[a].seen \in Regs /\ registry \in Regs
  BY MovingActs, MovingUsers, Split DEF VInv, ActTypes, Acts, PlaceTypes
<1>1. CASE Truncate(a)
  <2>1. p \notin Caught(a) /\ act'[a].at = "restoring" /\ act'[a].seen = registry /\ ~At(a, "restoring")
    BY <1>0, <1>1, Places DEF Truncate, At
  <2>2. Rewriters = {} /\ Users(p) = {}
    BY <2>1 DEF Caught
  <2>3. Rewriters' = {a} /\ Elsewhere(p)' = {a}
    <3>1. \A b \in Activators : act'[b].at = "restoring" <=> b = a
      BY <1>0, <2>1, <2>2 DEF Rewriters, At
    <3>2. Rewriters' = {a}
      BY <3>1 DEF Rewriters, At
    <3>3. QED BY <1>0, <2>1, <3>2 DEF Elsewhere
  <2>4. Entries(p) = {registry[p]} /\ Entries(p)' = {registry[p]}
    BY <2>1, <2>2, <2>3 DEF Entries, Elsewhere
  <2>5. \A b \in Activators : act'[b].at \in Writing => b # a /\ act'[b] = act[b]
    BY <1>0, <2>1 DEF Writing
  <2>6. QED BY <2>2, <2>3, <2>4, <2>5 DEF Loaded
<1>2. CASE At(a, "restoring")
  <2>1. a \in Elsewhere(p) /\ Rewriters = {a} /\ Elsewhere(p) = {a}
    BY <1>2 DEF Loaded, Rewriters, Elsewhere
  <2>2. Restore(a) \/ RestoreCutOff(a) \/ Crash(a)
    BY <1>2 DEF At, Moving, Place, Read, Switch, Commit, Record, Committed, Reverse, Undo, Unrecord,
                RolledBack, Truncate, Clean, Failure, PlaceFails, StageFails, SwitchFails, CommitFails,
                RecordFails, CommittedFails, UndoFails, UnrecordFails, RolledBackFails, RestoreFails,
                Writing
  <2>3. p \notin Spilt(a, registry')
    <3>1. CASE Restore(a)
      BY <3>1 DEF Restore
    <3>2. CASE RestoreCutOff(a)
      BY <3>2 DEF RestoreCutOff, disk
    <3>3. CASE Crash(a)
      BY <1>2, <3>3 DEF Crash, disk
    <3>4. QED BY <2>2, <3>1, <3>2, <3>3
  <2>4. registry'[p] = act[a].seen[p]
    BY <2>3 DEF Spilt
  <2>5. act'[a].at \in {"idle", "clean"}
    <3>1. Done(a) \/ Goto(a, "clean")
      BY <2>2 DEF Restore, RestoreCutOff, Crash, AfterRestore
    <3>2. QED BY <1>0, <3>1, Places DEF Steps
  <2>6. Rewriters' = {}
    BY <1>0, <2>1, <2>5 DEF Rewriters, At
  <2>7. Entries(p)' = {act[a].seen[p]} /\ Entries(p) = {act[a].seen[p]} /\ Elsewhere(p)' = {}
    BY <2>1, <2>4, <2>6 DEF Entries, Elsewhere
  <2>8. \A b \in Activators : act'[b].at \in Writing => act'[b] = act[b]
    BY <1>0, <2>5 DEF Writing
  <2>9. QED BY <2>6, <2>7, <2>8 DEF Loaded
<1>3. CASE Switch(a)
  <2>1. /\ registry'[p] = act[a].seen[p] /\ act[a].at \in Writing
        /\ act'[a].at \in {"switched", "restore"} /\ ~At(a, "restoring")
    <3>1. registry' = [act[a].seen EXCEPT ![act[a].plugin] = act[a].version] /\ act[a].at \in Writing
          /\ (Goto(a, "switched") \/ Goto(a, "restore"))
      BY <1>3 DEF Switch
    <3>2. QED BY <1>0, <3>1, Places DEF Steps, Regs, At, Writing
  <2>2. Rewriters' = Rewriters /\ \A b \in Rewriters : act'[b] = act[b]
    BY <1>0, <2>1 DEF Rewriters, At
  <2>3. Elsewhere(p)' = Elsewhere(p) /\ \A b \in Elsewhere(p) : act'[b] = act[b]
    BY <2>2 DEF Elsewhere
  <2>4. \A e \in Entries(p) : act[a].seen[p] = e
    BY <2>1 DEF Loaded
  <2>5. Entries(p)' = Entries(p)
    BY <2>1, <2>3, <2>4 DEF Entries
  <2>6. ~RegistryFree
    BY <2>1 DEF RegistryFree
  <2>7. \A b \in Activators : act'[b].at \in Writing => act'[b] = act[b]
    BY <1>0, <2>1 DEF Writing
  <2>8. QED BY <2>2, <2>3, <2>5, <2>6, <2>7 DEF Loaded
<1>4. CASE Read(a)
  <2>1. Rewriters = {} /\ registry' = registry /\ ~At(a, "restoring")
    BY <1>4 DEF Read, disk, At
  <2>2. act'[a].at \in Writing /\ act'[a].seen = registry
    BY <1>0, <1>4, Places DEF Writing
  <2>3. Rewriters' = {}
    BY <1>0, <2>1, <2>2 DEF Rewriters, At, Writing
  <2>4. Entries(p) = {registry[p]} /\ Entries(p)' = {registry[p]} /\ Elsewhere(p)' = {}
    BY <2>1, <2>3 DEF Entries, Elsewhere
  <2>5. QED BY <1>0, <2>2, <2>3, <2>4 DEF Loaded
<1>5. CASE ~Truncate(a) /\ ~At(a, "restoring") /\ ~Switch(a) /\ ~Read(a)
  <2>1. ~Restore(a)
    BY <1>5 DEF Restore
  <2>2. registry' = registry
    BY <1>5, <2>1, MovingRegistry
  <2>3. act'[a].at \notin Writing \cup {"restoring"}
    BY <1>0, <1>5, Targets
  <2>4. /\ \A e \in Entries(p) : Held(p, e)'
        /\ Elsewhere(p) # {} => Users(p)' = {}
    BY DEF Loaded
  <2>5. QED BY <1>0, <1>5, <2>2, <2>3, <2>4, RegistryKept
<1>6. QED BY <1>1, <1>2, <1>3, <1>4, <1>5

SKept(p) ==
  /\ p \notin incomplete /\ Attended(p) /\ Between(p) /\ Housed(p)
  /\ p \notin torn \cup trampled => Loaded(p)

LEMMA MovingKept ==
  ASSUME VInv, VInv', [Next]_vars, NEW a \in Activators, Moving(a), NEW p \in Plugins, PInv(p),
         SKept(p), p \notin incomplete'
  PROVE  SKept(p)'
<1>0. TInv /\ torn \cup trampled \subseteq torn' \cup trampled'
  BY HistoryGrows DEF VInv
<1>1. CASE p = act[a].plugin
  BY <1>0, <1>1, UserAttended, UserBetween, UserHoused, UserLoaded DEF SKept
<1>2. CASE p # act[a].plugin
  <2>1. ledger'[p] = ledger[p]
    BY <1>0, <1>2, MovingLedger, Split DEF SetLedger, PlaceTypes
  <2>2. Users(p)' = Users(p) /\ \A b \in Users(p) : act'[b] = act[b]
    BY <1>0, <1>2, MovingUsers, MovingActs DEF Users
  <2>3. SameJournals(p)
    <3>1. /\ DOMAIN journals' = DOMAIN journals /\ Keeps(journals, journals') /\ Owners(act, journals)
          /\ \A t \in DOMAIN journals : (Holds(a) => t # act[a].journal) => journals'[t] = journals[t]
      BY <1>0, MovingKeeps, Split
    <3>2. QED BY <1>2, <3>1 DEF SameJournals, Owners, Holds, Keeps
  <2>4. SameSlots(p)
    <3>1. \A v : Slot(p, v) # Slotted(a)
      BY <1>2 DEF Slot, Slotted
    <3>2. QED BY <3>1, MovingSlots DEF SameSlots
  <2>5. Attended(p)' /\ Between(p)' /\ Housed(p)' /\ \A e : Held(p, e) => Held(p, e)'
    BY <1>0, <2>1, <2>2, <2>3, <2>4, ElsewhereKept DEF SKept
  <2>6. p \notin torn' \cup trampled' => Loaded(p)'
    BY <1>0, <1>2, <2>2, <2>5, MovingLoaded DEF SKept
  <2>7. QED BY <2>5, <2>6 DEF SKept
<1>3. QED BY <1>1, <1>2

LEMMA StageKept ==
  ASSUME VInv, NEW a \in Activators, Stage(a), NEW p \in Plugins, PInv(p), SKept(p)
  PROVE  SKept(p)'
<1> DEFINE n == Len(journals')
<1>0. /\ TInv /\ Users(p)' = Users(p) /\ a \in Users(act[a].plugin)
      /\ UNCHANGED <<ledger, registry, slots, history>> /\ registry \in Regs
      /\ \A b \in Activators : b # a => act'[b] = act[b]
      /\ act[a].at = "placed" /\ act'[a].at = "staged" /\ act'[a].journal = n
      /\ act'[a].plugin = act[a].plugin /\ act'[a].version = act[a].version
  BY StagingUsers, StagingTypes, Split DEF VInv, Stage, PlaceTypes, At
<1>1. /\ n \in DOMAIN journals' /\ DOMAIN journals' = DOMAIN journals \cup {n}
      /\ n \notin DOMAIN journals /\ JournalTypes(journals')
      /\ \A t \in DOMAIN journals : journals'[t] = journals[t]
      /\ journals'[n].plugin = act[a].plugin /\ journals'[n].previous = ledger[act[a].plugin]
      /\ journals'[n].receipt.sha = act[a].version
  BY <1>0, JournalStaged
<1>2. /\ act'[a].kind = act[a].kind
      /\ act'[a].snapshot = IF act[a].kind = "activate" THEN registry ELSE act[a].snapshot
  BY <1>0, <1>1, StageFields, JournalFacts, Split DEF ActTypes, JournalTypes
<1> HIDE DEF n
<1>3. ~At(a, "restoring") /\ act'[a].at \notin Writing \cup {"restoring"}
  BY <1>0 DEF At, Writing
<1>4. ASSUME \A e \in Entries(p) : Held(p, e)', Loaded(p) PROVE Loaded(p)'
  BY <1>0, <1>3, <1>4, RegistryKept DEF Loaded
<1>5. CASE p # act[a].plugin
  <2>1. \A b \in Users(p) : act'[b] = act[b]
    BY <1>0, <1>5 DEF Users
  <2>2. SameJournals(p) /\ SameSlots(p)
    BY <1>0, <1>1, <1>5 DEF SameJournals, SameSlots, history
  <2>3. Attended(p)' /\ Between(p)' /\ Housed(p)' /\ \A e : Held(p, e) => Held(p, e)'
    BY <1>0, <2>1, <2>2, ElsewhereKept DEF SKept
  <2>4. Loaded(p) => Loaded(p)'
    BY <1>4, <2>3 DEF Loaded
  <2>5. QED BY <1>0, <2>3, <2>4 DEF SKept, history
<1>6. CASE p = act[a].plugin
  <2>1. Users(p)' = {a} /\ Users(p) = {a} /\ Mine(a)'.previous = ledger[p]
    BY <1>0, <1>1, <1>6 DEF PInv, Alone, Mine
  <2>2. Unfinished(p)' \subseteq {n}
    BY <1>0, <1>1, <2>1 DEF PInv, Fresh, Unfinished
  <2>3. Attended(p)' /\ InHand(p)' \subseteq {n}
    BY <1>0, <2>1, <2>2 DEF Attended, Holds, Holding, InHand
  <2>4. Between(p)'
    BY <1>0, <1>1, <1>6, <2>3 DEF Between
  <2>5. Housed(p)'
    <3>1. Left(a)' = Left(a) /\ Slotted(a)' = Slotted(a)
      BY <1>0, <1>2 DEF Left, Slotted, history
    <3>2. /\ Slotted(a) \in slots /\ Backed(p, ledger[p], Left(a))
          /\ Backed(p, ledger[p], slots \cup spoiled)
      BY <1>0, <2>1 DEF SKept, Housed, Holds, Holding, Locked
    <3>3. Holds(a)' /\ act'[a].at # "clean"
      BY <1>0 DEF Holds, Holding
    <3>4. UNCHANGED <<slots, spoiled>>
      BY <1>0 DEF history
    <3>5. Backed(p, journals'[n].previous, slots \cup spoiled)
          /\ Backed(p, journals'[n].receipt, slots \cup spoiled)
      BY <1>1, <1>6, <3>2 DEF Backed, Slotted
    <3>6. QED BY <1>0, <2>1, <2>3, <3>1, <3>2, <3>3, <3>4, <3>5 DEF Housed
  <2>6. ASSUME Loaded(p) PROVE Loaded(p)'
    <3>1. Elsewhere(p) = {} /\ Entries(p) = {registry[p]}
      BY <2>1, <2>6 DEF Loaded, Entries
    <3>2. Serves(a, p, registry[p])
      BY <2>1, <2>6, <3>1 DEF Loaded, Held
    <3>3. registry[p] = ledger[p].sha /\ (act[a].kind # "activate" => act[a].snapshot[p] = registry[p])
      BY <1>0, <3>2 DEF Serves, Unwritten
    <3>4. act'[a].snapshot[p] = Mine(a)'.previous.sha
      BY <1>2, <2>1, <3>3
    <3>5. Serves(a, p, registry[p])'
      BY <1>0, <3>3, <3>4 DEF Serves
    <3>6. \A e \in Entries(p) : Held(p, e)'
      BY <1>0, <2>1, <3>1, <3>5 DEF Held
    <3>7. QED BY <1>4, <2>6, <3>6
  <2>7. QED BY <1>0, <2>3, <2>4, <2>5, <2>6 DEF SKept, history
<1>7. QED BY <1>5, <1>6

LEMMA BeginningKept ==
  ASSUME VInv, NEW a \in Activators, Beginning(a), NEW p \in Plugins \ crowded', SKept(p)
  PROVE  SKept(p)'
<1>0. /\ TInv /\ journals' = journals /\ act[a].at = "idle"
      /\ \A b \in Activators : b # a => act'[b] = act[b]
      /\ registry \in Regs /\ act'[a].at \notin Holding
  BY BeginningTypes, Split DEF VInv, At, PlaceTypes
<1>1. PICK q \in Plugins : RollBack(a, q) \/ \E v \in Versions : Activate(a, q, v) \/ Test(a, q, v)
  BY DEF Beginning
<1>2. /\ ledger' = ledger /\ registry' = registry /\ incomplete' = incomplete /\ torn' = torn
      /\ trampled \subseteq trampled' /\ (Rewriters # {} => q \in trampled')
      /\ q \notin crowded' => Unfinished(q) = {} /\ Users(q) = {}
  BY <1>1 DEF RollBack, Activate, Test, disk, Enter
<1>3. act'[a].plugin = q /\ act'[a].at \in {"place", "placed", "register"}
  <2>1. CASE RollBack(a, q)
    BY <1>0, <2>1, Begins
  <2>2. ASSUME NEW v \in Versions, Activate(a, q, v)
        PROVE  act'[a].plugin = q /\ act'[a].at \in {"place", "placed", "register"}
    BY <1>0, <2>2, Begins
  <2>3. ASSUME NEW v \in Versions, Test(a, q, v)
        PROVE  act'[a].plugin = q /\ act'[a].at \in {"place", "placed", "register"}
    BY <1>0, <2>3, Begins
  <2>4. QED BY <1>1, <2>1, <2>2, <2>3
<1>4. ~At(a, "restoring") /\ act'[a].at \notin Writing \cup {"restoring"}
  BY <1>0, <1>3 DEF At, Writing
<1>5. CASE p # q
  <2>1. Users(p)' = Users(p) /\ \A b \in Users(p) : act'[b] = act[b]
    BY <1>0, <1>3, <1>5 DEF Users
  <2>2. SameJournals(p)
    BY <1>0 DEF SameJournals
  <2>3. SameSlots(p)
    <3>1. CASE RollBack(a, q) \/ \E v \in Versions : Test(a, q, v)
      BY <3>1 DEF RollBack, Test, disk, SameSlots
    <3>2. ASSUME NEW v \in Versions, Activate(a, q, v) PROVE SameSlots(p)
      <4>1. \A w : Slot(p, w) # Slot(q, v)
        BY <1>5 DEF Slot
      <4>2. QED BY <3>2, <4>1 DEF Activate, SameSlots
    <3>3. QED BY <1>1, <3>1, <3>2
  <2>4. Attended(p)' /\ Between(p)' /\ Housed(p)' /\ \A e : Held(p, e) => Held(p, e)'
    BY <1>0, <1>2, <2>1, <2>2, <2>3, ElsewhereKept DEF SKept
  <2>5. Loaded(p) => Loaded(p)'
    <3>1. SUFFICES ASSUME Loaded(p) PROVE Loaded(p)'
      OBVIOUS
    <3>2. /\ \A e \in Entries(p) : Held(p, e)'
          /\ Elsewhere(p) # {} => Users(p)' = {}
      BY <2>1, <2>4, <3>1 DEF Loaded
    <3>3. QED BY <1>0, <1>2, <1>4, <3>1, <3>2, RegistryKept
  <2>6. QED BY <1>2, <2>4, <2>5 DEF SKept
<1>6. CASE p = q
  <2>1. Unfinished(p) = {} /\ Users(p) = {} /\ (p \notin trampled' => Rewriters = {})
    BY <1>2, <1>6
  <2>2. Unfinished(p)' = {} /\ Users(p)' = {a}
    BY <1>0, <1>3, <1>6, <2>1 DEF Unfinished, Users
  <2>3. InHand(p)' = {} /\ ~Holds(a)'
    BY <1>0, <2>2 DEF InHand, Holds
  <2>4. Attended(p)' /\ Between(p)'
    BY <2>2, <2>3 DEF Attended, Between
  <2>5. Backed(p, ledger[p], slots \cup spoiled)
    BY DEF SKept, Housed
  <2>6. p \notin torn' \cup trampled' =>
          /\ Loaded(p) /\ registry[p] = ledger[p].sha /\ Elsewhere(p) = {} /\ Entries(p) = {registry[p]}
    <3>1. SUFFICES ASSUME p \notin torn' \cup trampled'
                   PROVE  /\ Loaded(p) /\ registry[p] = ledger[p].sha /\ Elsewhere(p) = {}
                          /\ Entries(p) = {registry[p]}
      OBVIOUS
    <3>2. Loaded(p) /\ Elsewhere(p) = {}
      BY <1>2, <2>1, <3>1 DEF SKept, Elsewhere
    <3>3. Entries(p) = {registry[p]}
      BY <3>2 DEF Entries
    <3>4. Fits(p, registry[p])
      BY <2>1, <3>2, <3>3 DEF Loaded, Held
    <3>5. QED BY <2>1, <3>2, <3>3, <3>4 DEF Fits
  <2>7. ASSUME p \notin torn' \cup trampled', act'[a].kind # "activate" => act'[a].snapshot[p] = registry[p]
        PROVE  Loaded(p)'
    <3>1. registry[p] = ledger[p].sha
      BY <2>6, <2>7
    <3>2. Serves(a, p, registry[p])'
      <4>1. act'[a].at = "register" => act'[a].snapshot[p] = registry[p]
        <5>1. act'[a].at = "register" => act'[a].kind # "activate"
          <6>1. CASE RollBack(a, q)
            BY <1>0, <6>1, Begins
          <6>2. ASSUME NEW v \in Versions, Activate(a, q, v) PROVE act'[a].at # "register"
            BY <1>0, <6>2, Begins
          <6>3. ASSUME NEW v \in Versions, Test(a, q, v) PROVE act'[a].kind # "activate"
            BY <1>0, <6>3, Begins
          <6>4. QED BY <1>1, <6>1, <6>2, <6>3
        <5>2. QED BY <2>7, <5>1
      <4>2. QED BY <1>2, <1>3, <2>3, <2>7, <3>1, <4>1 DEF Serves
    <3>3. \A e \in Entries(p) : Held(p, e)'
      BY <1>2, <2>2, <2>6, <2>7, <3>2 DEF Held
    <3>4. QED BY <1>0, <1>2, <1>4, <2>6, <2>7, <3>3, RegistryKept
  <2>8. CASE RollBack(a, p)
    <3>1. /\ act'[a].at = "placed" /\ act'[a].kind = "rollback" /\ act'[a].plugin = p
          /\ act'[a].version = ledger[p].prev /\ act'[a].snapshot = registry
          /\ Slot(p, ledger[p].prev) \in slots /\ UNCHANGED <<slots, spoiled>>
      BY <1>0, <2>8, Begins DEF RollBack, disk
    <3>2. Left(a)' = slots \cup spoiled /\ Slotted(a)' \in slots
      BY <3>1 DEF Left, Slotted
    <3>3. Housed(p)'
      BY <1>2, <2>2, <2>3, <2>5, <3>1, <3>2 DEF Housed
    <3>4. QED BY <1>2, <2>4, <2>7, <3>1, <3>3 DEF SKept
  <2>9. ASSUME NEW v \in Versions, Activate(a, p, v) PROVE SKept(p)'
    <3>1. /\ act'[a].at = "place" /\ act'[a].kind = "activate" /\ act'[a].plugin = p
          /\ act'[a].version = v /\ slots' = slots \ {Slot(p, v)}
          /\ spoiled' = IF Slot(p, v) \in slots THEN spoiled \cup {Slot(p, v)} ELSE spoiled
      BY ZenonT(40), <1>0, <2>9, Begins DEF Activate
    <3>2. Slotted(a)' = Slot(p, v)
      BY <3>1 DEF Slotted
    <3>3. slots \cup spoiled \subseteq Left(a)' /\ slots \cup spoiled \subseteq slots' \cup spoiled'
      BY <3>1, <3>2 DEF Left
    <3>4. Backed(p, ledger'[p], Left(a)') /\ Backed(p, ledger'[p], slots' \cup spoiled')
      BY <1>2, <2>5, <3>3, BackedMore
    <3>5. Housed(p)'
      BY <2>2, <2>3, <3>1, <3>4 DEF Housed
    <3>6. QED BY <1>2, <2>4, <2>7, <3>1, <3>5 DEF SKept
  <2>10. ASSUME NEW v \in Versions, Test(a, p, v) PROVE SKept(p)'
    <3>1. /\ act'[a].at = "register" /\ act'[a].kind = "test" /\ act'[a].snapshot = registry
          /\ UNCHANGED <<slots, spoiled>>
      BY <1>0, <2>10, Begins DEF Test, disk
    <3>2. Left(a)' = slots \cup spoiled
      BY <3>1 DEF Left
    <3>3. Housed(p)'
      BY <1>2, <2>2, <2>3, <2>5, <3>1, <3>2 DEF Housed
    <3>4. QED BY <1>2, <2>4, <2>7, <3>1, <3>3 DEF SKept
  <2>11. QED BY <1>1, <1>6, <2>8, <2>9, <2>10
<1>7. QED BY <1>5, <1>6

\* recover takes the ledger to one end of the switch that was begun, and leaves it
\* alone if none was.
LEMMA RecoverKept ==
  ASSUME VInv, Recover, NEW p \in Plugins, PInv(p), SKept(p)
  PROVE  SKept(p)'
<1> DEFINE open == {t \in Unfinished(p) : journals[t].phase # "staged"}
           m == CHOOSE t \in open : \A u \in open : u <= t
<1>0. /\ TInv /\ InStep /\ Owners(act, journals) /\ act' = act /\ UNCHANGED <<registry, slots, history>>
      /\ DOMAIN journals' = DOMAIN journals /\ Keeps(journals, journals')
      /\ \A t \in DOMAIN journals : journals'[t].phase \in Final
  BY Split, JournalsRecovered DEF VInv, Recover
<1>1. Users(p)' = Users(p) /\ Unfinished(p)' = {}
  BY <1>0 DEF Users, Unfinished
<1>2. /\ open = {} => ledger'[p] = ledger[p]
      /\ open # {} => ledger'[p] = Recovered(journals[m])
  BY DEF Recover
<1>3. open # {} => m \in open
  <2>1. open \subseteq DOMAIN journals /\ JournalTypes(journals)
    BY <1>0, Split DEF Unfinished
  <2> HIDE DEF open
  <2>2. QED BY <2>1, LastOfSome
<1>4. /\ InHand(p) \subseteq DOMAIN journals /\ InHand(p)' \subseteq InHand(p)
      /\ \A t, u \in InHand(p) : t = u
      /\ open \subseteq InHand(p)
  BY <1>0, <1>1, OneInHand DEF PInv, InHand, Holds
<1>5. \A b \in Activators : Holds(b)' = Holds(b) /\ Left(b)' = Left(b) /\ Slotted(b)' = Slotted(b)
  BY <1>0 DEF Holds, Left, Slotted, history
<1>6. \A b \in Users(p) : Holds(b) => /\ Mine(b)'.previous = Mine(b).previous
                                      /\ act[b].journal \in InHand(p)
  BY <1>0 DEF Mine, Users, Owners, Holds, Keeps, InHand
<1>7. \A b \in Users(p) : ~Holds(b) \/ Mine(b).phase \in {"staged", "rolled_back"} => open = {}
  <2>1. SUFFICES ASSUME NEW b \in Users(p), NEW t \in open
                 PROVE  Holds(b) /\ Mine(b).phase \notin {"staged", "rolled_back"}
    OBVIOUS
  <2>2. PICK c \in Users(p) : Holds(c) /\ act[c].journal = t
    BY <2>1 DEF SKept, Attended
  <2>3. b = c
    BY DEF PInv, Alone
  <2>4. QED BY <2>1, <2>2, <2>3 DEF Mine, Unfinished, Final
<1> HIDE DEF m
<1>8. Between(p)'
  <2>1. SUFFICES ASSUME NEW t \in InHand(p)
                 PROVE  ledger'[p] \in {journals'[t].previous, journals'[t].receipt}
    BY <1>4 DEF Between
  <2>2. journals'[t].previous = journals[t].previous /\ journals'[t].receipt = journals[t].receipt
    BY <1>0, <1>4 DEF Keeps
  <2>3. CASE open = {}
    BY <1>2, <2>2, <2>3 DEF SKept, Between
  <2>4. CASE open # {}
    <3>1. m = t
      BY <1>3, <1>4, <2>4
    <3>2. QED BY <1>2, <2>2, <2>4, <3>1 DEF Recovered
  <2>5. QED BY <2>3, <2>4
<1>9. Housed(p)'
  <2>1. Backed(p, ledger'[p], slots \cup spoiled)
    <3>1. CASE open = {}
      BY <1>2, <3>1 DEF SKept, Housed
    <3>2. CASE open # {}
      BY <1>2, <1>3, <1>4, <3>2 DEF SKept, Housed, Recovered
    <3>3. QED BY <3>1, <3>2
  <2>2. \A t \in InHand(p)' : /\ Backed(p, journals'[t].previous, slots \cup spoiled)
                              /\ Backed(p, journals'[t].receipt, slots \cup spoiled)
    BY <1>0, <1>4 DEF SKept, Housed, Keeps
  <2>3. ASSUME NEW b \in Users(p)
        PROVE  /\ act'[b].at = "placed" \/ Holds(b)' => Slotted(b)' \in slots'
               /\ act'[b].at = "clean" => act'[b].kind = "activate"
               /\ Backed(p, IF Holds(b)' THEN Mine(b)'.previous ELSE ledger'[p], Left(b)')
    <3>1. /\ act[b].at = "placed" \/ Holds(b) => Slotted(b) \in slots
          /\ act[b].at = "clean" => act[b].kind = "activate"
          /\ Backed(p, IF Holds(b) THEN Mine(b).previous ELSE ledger[p], Left(b))
          /\ b \in Activators
      BY DEF SKept, Housed, Users
    <3>2. ~Holds(b) => ledger'[p] = ledger[p]
      BY <1>2, <1>7
    <3>3. QED BY <1>0, <1>5, <1>6, <3>1, <3>2
  <2>4. QED BY <1>0, <1>1, <2>1, <2>2, <2>3 DEF Housed, history
<1>10. ASSUME NEW e, Held(p, e) PROVE Held(p, e)'
  <2>1. ASSUME Users(p) = {} PROVE Fits(p, e)'
    <3>1. Fits(p, e)
      BY <1>10, <2>1 DEF Held
    <3>2. CASE open = {}
      BY <1>1, <1>2, <3>1, <3>2 DEF Fits
    <3>3. CASE open # {}
      <4>1. m \in Unfinished(p) /\ journals[m].phase # "staged"
        BY <1>3, <3>3
      <4>2. journals[m].phase = "committing" /\ e = journals[m].receipt.sha
        BY <3>1, <4>1 DEF Fits
      <4>3. ledger'[p] = journals[m].receipt
        BY <1>2, <3>3, <4>2 DEF Recovered, Verdict
      <4>4. QED BY <1>1, <4>2, <4>3 DEF Fits
    <3>4. QED BY <3>2, <3>3
  <2>2. ASSUME NEW b \in Users(p) PROVE Serves(b, p, e)'
    <3>1. Serves(b, p, e) /\ b \in Activators
      BY <1>10 DEF Held, Users
    <3>2. act[b].at \in Unwritten \cup {"restore", "restoring"}
            => ~Holds(b) \/ Mine(b).phase \in {"staged", "rolled_back"}
      BY <1>0, <3>1 DEF InStep, Holds, Holding, Locked, Unwritten
    <3>3. act[b].at \in Unwritten \cup {"restore", "restoring"} => ledger'[p] = ledger[p]
      BY <1>2, <1>7, <3>2
    <3>4. {"register", "registering"} \subseteq Unwritten
      BY DEF Unwritten
    <3>5. /\ act'[b] = act[b] /\ Holds(b)' = Holds(b)
          /\ Holds(b) => Mine(b)'.previous = Mine(b).previous
      BY <1>0, <1>5, <1>6, <3>1
    <3>6. QED BY <3>1, <3>3, <3>4, <3>5 DEF Serves
  <2>3. QED BY <1>1, <2>1, <2>2 DEF Held
<1>11. ASSUME Loaded(p) PROVE Loaded(p)'
  <2>1. Rewriters' = Rewriters /\ Elsewhere(p)' = Elsewhere(p) /\ Entries(p)' = Entries(p)
    BY <1>0 DEF Rewriters, At, Elsewhere, Entries
  <2>2. RegistryFree' = RegistryFree
    BY <1>0 DEF RegistryFree
  <2>3. QED BY <1>0, <1>1, <1>10, <1>11, <2>1, <2>2 DEF Loaded
<1>12. Attended(p)'
  BY <1>1 DEF Attended
<1>13. QED BY <1>0, <1>8, <1>9, <1>11, <1>12 DEF SKept, history

LEMMA SlotStep == SInv /\ [Next]_vars => SInv'
<1> SUFFICES ASSUME SInv, [Next]_vars PROVE SInv'
  OBVIOUS
<1>1. LInv /\ VInv /\ LInv' /\ VInv' /\ TInv
  BY LedgerStep DEF SInv, LInv, VInv
<1>2. \A p \in Plugins \ crowded : PInv(p) /\ (p \notin incomplete => SKept(p))
  BY <1>1 DEF SInv, LInv, PInv, SKept
<1>3. crowded \subseteq crowded' /\ incomplete \subseteq incomplete'
  BY <1>1, HistoryGrows
<1>4. SUFFICES ASSUME NEW p \in Plugins \ (crowded' \cup incomplete') PROVE SKept(p)'
  BY <1>1 DEF SInv, SKept
<1>5. PInv(p) /\ SKept(p)
  BY <1>2, <1>3
<1>6. ASSUME NEW a \in Activators, Moving(a) PROVE SKept(p)'
  BY <1>1, <1>5, <1>6, MovingKept
<1>7. ASSUME NEW a \in Activators, Stage(a) PROVE SKept(p)'
  BY <1>1, <1>5, <1>7, StageKept
<1>8. ASSUME NEW a \in Activators, Beginning(a) PROVE SKept(p)'
  BY <1>1, <1>5, <1>8, BeginningKept
<1>9. CASE Recover
  BY <1>1, <1>5, <1>9, RecoverKept
<1>10. CASE UNCHANGED vars
  <2>1. /\ ledger' = ledger /\ journals' = journals /\ act' = act /\ registry' = registry
        /\ slots' = slots /\ UNCHANGED history
    BY <1>10 DEF vars, disk
  <2>2. Users(p)' = Users(p) /\ SameJournals(p) /\ SameSlots(p)
    BY <2>1 DEF Users, SameJournals, SameSlots, history
  <2>3. Attended(p)' /\ Between(p)' /\ Housed(p)' /\ \A e : Held(p, e) => Held(p, e)'
    BY <1>1, <1>5, <2>1, <2>2, ElsewhereKept DEF SKept
  <2>4. Rewriters' = Rewriters /\ Elsewhere(p)' = Elsewhere(p) /\ Entries(p)' = Entries(p)
        /\ RegistryFree' = RegistryFree
    BY <2>1 DEF Rewriters, At, Elsewhere, Entries, RegistryFree
  <2>5. Loaded(p) => Loaded(p)'
    BY <2>1, <2>2, <2>3, <2>4 DEF Loaded
  <2>6. QED BY <1>5, <2>1, <2>3, <2>5 DEF SKept, history
<1>11. QED BY <1>6, <1>7, <1>8, <1>9, <1>10 DEF Next, Moving, Write, Beginning

LEMMA SlotInvariant == Spec => []SInv
<1>1. Init => SInv
  <2>1. SUFFICES ASSUME Init, NEW p \in Plugins PROVE Attended(p) /\ Between(p) /\ Housed(p) /\ Loaded(p)
    BY InitLedger DEF SInv
  <2>2. \A a \in Activators : act[a].at = "idle"
    BY <2>1, InitJournals
  <2>3. Users(p) = {} /\ Unfinished(p) = {}
    BY <2>1, <2>2, InitJournals DEF Users, Unfinished, Final
  <2>4. InHand(p) = {} /\ Rewriters = {}
    BY <2>2, <2>3 DEF InHand, Rewriters, At
  <2>5. Backed(p, ledger[p], slots \cup spoiled) /\ registry[p] = ledger[p].sha
    BY <2>1, InitJournals, BackedMore
  <2>6. Elsewhere(p) = {} /\ Entries(p) = {registry[p]} /\ Held(p, registry[p])
    BY <2>3, <2>4, <2>5 DEF Elsewhere, Entries, Held, Fits
  <2>7. Loaded(p)
    BY <2>2, <2>4, <2>6 DEF Loaded, Writing
  <2>8. QED BY <2>3, <2>4, <2>5, <2>7 DEF Attended, Between, Housed
<1>2. QED BY <1>1, SlotStep, PTL DEF Spec

\* When nobody works on a plugin it is loaded from the version the ledger calls
\* active, although the registry is read and written in two steps and restored as a
\* whole without its lock (register_development_plugin_with_mode_at of plugin.rs,
\* DevelopmentRegistrySnapshot, activate and rollback of plugin_authoring.rs).  It
\* is said of the plugins of which no two switches overlapped, no undoing failed,
\* no switch died between its registration and its commit or in its undoing, and
\* that no restore for another plugin ran into or was cut off: the plugins outside
\* crowded, incomplete, torn and trampled.
THEOREM ActiveIsLoaded == Spec => []LoadsWhatIsActive
<1>1. SInv => LoadsWhatIsActive
  <2>1. SUFFICES ASSUME SInv, NEW p \in Plugins \ (crowded \cup incomplete \cup torn \cup trampled),
                        Users(p) = {}, Unfinished(p) = {}, Rewriters = {}
                 PROVE  registry[p] = ledger[p].sha
    BY DEF LoadsWhatIsActive
  <2>2. Entries(p) = {registry[p]}
    BY <2>1 DEF Entries, Elsewhere
  <2>3. Fits(p, registry[p])
    BY <2>1, <2>2 DEF SInv, Loaded, Held
  <2>4. QED BY <2>1, <2>3 DEF Fits
<1>2. QED BY <1>1, SlotInvariant, PTL

\* The slot of the active version is on disk, through a crash at any step: a
\* failed activation removes its candidate's slot only after the ledger has left it
\* (activate_candidate of plugin_authoring.rs).  It is said of the plugins of which
\* no two switches overlapped (crowded) and no ledger could not be undone
\* (incomplete: there the slot is removed all the same), and not of a slot that an
\* activation replaced and did not commit again (spoiled).
THEOREM ActiveIsHoused == Spec => []ActiveHasSlot
<1>1. SInv => ActiveHasSlot
  BY DEF SInv, Housed, Backed, ActiveHasSlot
<1>2. QED BY <1>1, SlotInvariant, PTL

=============================================================================
