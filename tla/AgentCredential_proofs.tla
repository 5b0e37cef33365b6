----------------------- MODULE AgentCredential_proofs -----------------------
(***************************************************************************)
(* Theorems about AgentCredential for every number of clients, credentials *)
(* and faults, and about the Worker that uses the credential.  The first   *)
(* rest on the order in which credentials are made: a rotation leads from  *)
(* an older credential to a newer one, so that the credential the          *)
(* dashboard accepts only ever becomes newer.  The second rest on what an  *)
(* execution goes through: once leased it is never open again.             *)
(***************************************************************************)
EXTENDS Worker, TLAPS

USE CredentialAssumption

\* A state that holds a pending credential holds an older current one.
Formed(s) ==
  /\ s.pending # None => s.credential # None /\ s.credential < s.pending
  /\ s.credential <= made /\ s.pending <= made

\* What a client holds at each of its phases, compared to what it read or
\* wrote last.
Holding(c) ==
  /\ phase[c] \in {"trying", "confirming", "online", "asking", "posting"} => copy[c] = base[c]
  /\ phase[c] \in {"trying", "confirming", "online", "asking"} =>
       c \notin Pages /\ copy[c].credential # None
  /\ phase[c] \in {"trying", "asking"} => copy[c].pending # None
  /\ phase[c] \in {"posting", "staging"} => c \in Pages
  /\ phase[c] \in {"online", "keeping"} => copy[c].pending = None /\ copy[c].credential # None
  /\ phase[c] \in {"online", "keeping", "asking"} => copy[c].credential <= server
  /\ phase[c] = "staging" =>
       /\ copy[c].credential = base[c].credential
       /\ base[c].credential < copy[c].pending /\ base[c].pending < copy[c].pending
       /\ copy[c].pending <= server
  /\ phase[c] = "keeping" =>
       \/ copy[c].credential = base[c].pending
       \/ IF c \in Pages THEN base[c].credential = None
                         ELSE copy[c].credential = base[c].credential

\* Every rotation leads to a newer credential, from one the dashboard accepted.
Upward(r) == r.proof <= server /\ r.proof < r.next /\ r.next <= made

HInv ==
  /\ TypeOK
  /\ server <= made
  /\ Formed(file)
  /\ \A c \in Clients : Formed(copy[c]) /\ Formed(base[c]) /\ Holding(c)
  /\ \A r \in late : Upward(r)

-----------------------------------------------------------------------------
(* What the clients hold.                                                  *)

LEMMA Settled ==
  ASSUME NEW s \in States
  PROVE  /\ Adopted(s) \in States /\ Adopted(s).credential = s.pending /\ Adopted(s).pending = None
         /\ Cleared(s) \in States /\ Cleared(s).credential = s.credential /\ Cleared(s).pending = None
BY DEF States, Adopted, Cleared, None

LEMMA Copies ==
  ASSUME NEW s \in States, NEW n \in Credentials
  PROVE  /\ [s EXCEPT !.pending = n] \in States
         /\ [s EXCEPT !.pending = n].credential = s.credential
         /\ [s EXCEPT !.pending = n].pending = n
         /\ [s EXCEPT !.credential = n] \in States
         /\ [s EXCEPT !.credential = n].credential = n
         /\ [s EXCEPT !.credential = n].pending = s.pending
BY DEF States

LEMMA InitHolding == Init => HInv
<1> SUFFICES ASSUME Init PROVE HInv
  OBVIOUS
<1>1. server \in {0, 1} /\ made = 1 /\ 1 \in Credentials
  BY DEF Init, None, Credentials
<1>2. file \in States /\ file.credential = server /\ file.pending = None
  BY <1>1 DEF Init, States, None
<1>3. /\ copy \in [Clients -> States] /\ base \in [Clients -> States]
      /\ \A c \in Clients : copy[c] = file /\ base[c] = file
  BY <1>2 DEF Init
<1>4. phase \in [Clients -> Phases] /\ \A c \in Clients : phase[c] = "idle"
  BY DEF Init, Phases
<1>5. QED
  BY <1>1, <1>2, <1>3, <1>4 DEF Init, HInv, TypeOK, Formed, Holding, None

\* What a client does to the others, and to what only grows.
LEMMA Frame ==
  ASSUME HInv, NEW c \in Clients, Step(c) \/ Crash(c)
  PROVE  /\ \A d \in Clients \ {c} : phase'[d] = phase[d] /\ copy'[d] = copy[d] /\ base'[d] = base[d]
         /\ server' \in {None} \cup Credentials /\ server <= server' /\ server' <= made'
         /\ made' \in Credentials /\ made <= made' /\ faults' \in 0 .. MaxFaults
         /\ forfeited \subseteq forfeited' /\ forfeited' \subseteq {"stale", "doubt", "enrolment"}
         /\ renewed' \subseteq Workers
<1> USE DEF HInv, TypeOK, Goes, Fault, Forfeit, Written, Credentials, None
<1>1. CASE Load(c) \/ TryPending(c) \/ Confirm(c) \/ Keep(c)
  <2>1. CASE Load(c)
    BY <2>1 DEF Load
  <2>2. CASE TryPending(c)
    BY <2>2 DEF TryPending, Adopted
  <2>3. CASE Confirm(c)
    BY <2>3 DEF Confirm, Cleared, Ready
  <2>4. CASE Keep(c)
    BY <2>4 DEF Keep, Ready
  <2>5. QED BY <1>1, <2>1, <2>2, <2>3, <2>4
<1>2. CASE Rotate(c) \/ Enrol(c) \/ Post(c) \/ Stage(c)
  BY <1>2 DEF Rotate, Enrol, Post, Stage
<1>3. CASE Ask(c)
  <2>1. copy[c].pending \in Credentials /\ copy[c].credential < copy[c].pending
        /\ copy[c].pending <= made
    BY <1>3 DEF Ask, Holding, Formed, States
  <2>2. QED BY <1>3, <2>1 DEF Ask, Applied
<1>4. CASE Leave(c)
  BY <1>4 DEF Leave
<1>5. CASE Crash(c)
  BY <1>5 DEF Crash
<1>6. QED BY <1>1, <1>2, <1>3, <1>4, <1>5 DEF Step

PollsTyped ==
  /\ polls \in [Workers -> {None} \cup Credentials]
  /\ \A c \in Workers : polls[c] # None => phase[c] # "online"
  /\ \A c \in Clients : phase[c] = "silent" => c \in Workers /\ polls[c] # None

\* A worker that is online again polls with a new credential; only the heartbeat
\* thread of a worker that polls falls silent.
LEMMA PollsStep ==
  ASSUME HInv, NEW c \in Clients, Step(c) \/ Crash(c)
  PROVE  PollsTyped'
<1>0. /\ PollsTyped /\ phase \in [Clients -> Phases] /\ Workers \subseteq Clients
      /\ None \in {None} \cup Credentials /\ copy[c].credential \in {None} \cup Credentials
      /\ \A p : Goes(c, p) => phase'[c] = p
  BY DEF HInv, TypeOK, PollsTyped, Clients, States, Goes
<1>1. \A n \in {None} \cup Credentials : Polls(c, n) =>
        /\ polls' \in [Workers -> {None} \cup Credentials]
        /\ \A d \in Workers : d # c => polls'[d] = polls[d]
        /\ c \in Workers => polls'[c] = n
  BY <1>0 DEF Polls, PollsTyped
<1>2. polls' = polls =>
        /\ polls' \in [Workers -> {None} \cup Credentials]
        /\ \A d \in Workers : polls'[d] = polls[d]
  BY <1>0 DEF PollsTyped
<1>3. SUFFICES /\ polls' \in [Workers -> {None} \cup Credentials]
               /\ \A d \in Workers : d # c => polls'[d] = polls[d]
               /\ phase'[c] = "online" /\ c \in Workers => polls'[c] = None
               /\ phase'[c] = "silent" => c \in Workers /\ polls'[c] # None
  <2>1. \A d \in Clients : d # c => phase'[d] = phase[d]
    BY Frame
  <2>2. QED BY <1>0, <1>3, <2>1 DEF PollsTyped
<1>4. ASSUME Ready(c) \/ (Goes(c, "idle") /\ Polls(c, None))
      PROVE  /\ polls' \in [Workers -> {None} \cup Credentials]
             /\ \A d \in Workers : d # c => polls'[d] = polls[d]
             /\ phase'[c] = "online" /\ c \in Workers => polls'[c] = None
             /\ phase'[c] # "silent"
  <2>1. Polls(c, None) /\ phase'[c] \in {"idle", "online"}
    BY <1>0, <1>4 DEF Ready
  <2>2. QED BY <1>0, <1>1, <2>1
<1>5. CASE Load(c) \/ TryPending(c) \/ Ask(c) \/ Enrol(c) \/ Post(c) \/ Stage(c)
  <2>1. polls' = polls
    BY <1>5 DEF Load, TryPending, Ask, Enrol, Post, Stage
  <2>2. phase'[c] \notin {"online", "silent"}
    BY <1>0, <1>5 DEF Load, TryPending, Ask, Enrol, Post, Stage
  <2>3. QED BY <1>2, <2>1, <2>2
<1>6. CASE Rotate(c)
  <2>1. phase'[c] = "asking" /\ (polls' = polls \/ Polls(c, copy[c].credential))
    BY <1>0, <1>6 DEF Rotate
  <2>2. QED BY <1>0, <1>1, <1>2, <2>1
<1>7. CASE Confirm(c)
  <2>1. CASE Ready(c)
    BY <1>4, <2>1
  <2>2. CASE polls' = polls /\ (Goes(c, "keeping") \/ Goes(c, Refused(c)))
    <3>1. phase'[c] # "online" /\ (phase'[c] = "silent" => Renews(c))
      BY <1>0, <2>2 DEF Refused
    <3>2. QED BY <1>2, <2>2, <3>1 DEF Renews
  <2>3. QED BY <1>7, <2>1, <2>2 DEF Confirm
<1>8. CASE Keep(c) \/ Leave(c) \/ Crash(c)
  <2>1. Ready(c) \/ (Goes(c, "idle") /\ Polls(c, None))
    BY <1>8 DEF Keep, Leave, Crash
  <2>2. QED BY <1>4, <2>1
<1>9. QED BY <1>5, <1>6, <1>7, <1>8 DEF Step

\* The frame of a step: what is left to show is about the client itself, about
\* the file and about a rotation that is late from now on.
LEMMA Enough ==
  ASSUME HInv, NEW c \in Clients, Step(c) \/ Crash(c),
         phase' \in [Clients -> Phases],
         copy' \in [Clients -> States], base' \in [Clients -> States],
         file' \in States, Formed(file)',
         Formed(copy[c])', Formed(base[c])', Holding(c)',
         late' \subseteq [proof : Credentials, next : Credentials],
         \A r \in late' \ late : Upward(r)'
  PROVE  HInv'
<1>1. \A s \in States : Formed(s) => s.credential <= made' /\ s.pending <= made'
  BY Frame DEF Formed, States, HInv, TypeOK, Credentials, None
<1>2. ASSUME NEW d \in Clients \ {c} PROVE Formed(copy[d])' /\ Formed(base[d])' /\ Holding(d)'
  <2>1. copy[d] \in States /\ base[d] \in States /\ Formed(copy[d]) /\ Formed(base[d]) /\ Holding(d)
    BY DEF HInv, TypeOK
  <2>2. phase'[d] = phase[d] /\ copy'[d] = copy[d] /\ base'[d] = base[d]
    BY Frame
  <2>3. server \in Int /\ server' \in Int /\ server <= server'
    BY Frame DEF HInv, TypeOK, Credentials, None
  <2>4. Formed(copy[d])' /\ Formed(base[d])'
    BY <1>1, <2>1, <2>2 DEF Formed
  <2>5. copy[d].credential \in Int /\ copy[d].pending \in Int
    BY <2>1 DEF States, Credentials, None
  <2>6. Holding(d)'
    BY <2>1, <2>2, <2>3, <2>5 DEF Holding
  <2>7. QED BY <2>4, <2>6
<1>3. \A r \in late' : Upward(r)'
  <2>1. ASSUME NEW r \in late PROVE Upward(r)'
    BY Frame DEF Upward, HInv, TypeOK, Credentials, None
  <2>2. QED BY <2>1
<1>4. \A d \in Clients : Formed(copy[d])' /\ Formed(base[d])' /\ Holding(d)'
  BY <1>2
<1>5. TypeOK'
  <2>1. \A d \in Clients : copy'[d] \in States
    OBVIOUS
  <2>2. \A s \in States : Formed(s)' /\ s.pending # None => s.credential \notin {None, s.pending}
    BY DEF Formed, States, Credentials, None
  <2>3. file'.pending # None => file'.credential \notin {None, file'.pending}
    BY <2>2 DEF Formed
  <2>4. QED BY <1>4, <2>3, Frame, PollsStep DEF TypeOK, Holding, PollsTyped
<1>6. QED BY <1>3, <1>4, <1>5, Frame DEF HInv

\* The facts about one client that each of its steps starts from.
LEMMA Facts ==
  ASSUME HInv, NEW c \in Clients
  PROVE  /\ copy[c] \in States /\ base[c] \in States /\ file \in States
         /\ Formed(copy[c]) /\ Formed(base[c]) /\ Formed(file) /\ Holding(c)
         /\ copy[c].credential \in Int /\ copy[c].pending \in Int
         /\ base[c].credential \in Int /\ base[c].pending \in Int
         /\ file.credential \in Int /\ file.pending \in Int
         /\ server \in Int /\ made \in Int /\ None \in Int /\ None <= made
         /\ phase \in [Clients -> Phases] /\ copy \in [Clients -> States]
         /\ base \in [Clients -> States] /\ late \subseteq [proof : Credentials, next : Credentials]
BY DEF HInv, TypeOK, States, Credentials, None

LEMMA ConnectHolding ==
  ASSUME HInv, NEW c \in Clients, Load(c) \/ TryPending(c) \/ Confirm(c)
  PROVE  HInv'
<1>1. UNCHANGED <<file, late, made, server>>
  BY DEF Load, TryPending, Confirm
<1>2. \A s : Formed(s)' <=> Formed(s)
  BY <1>1 DEF Formed
<1>3. CASE Load(c)
  <2>1. /\ phase' = [phase EXCEPT ![c] = IF file.pending # None THEN "trying" ELSE "confirming"]
        /\ copy' = [copy EXCEPT ![c] = file] /\ base' = [base EXCEPT ![c] = file]
        /\ c \notin Pages /\ file.credential # None
    BY <1>3 DEF Load, Goes, Tries
  <2>2. phase'[c] \in {"trying", "confirming"} /\ (phase'[c] = "trying" => file.pending # None)
        /\ copy'[c] = file /\ base'[c] = file
    BY <2>1, Facts
  <2>3. Holding(c)'
    BY <2>1, <2>2 DEF Holding
  <2>4. phase' \in [Clients -> Phases]
    BY <2>1, Facts DEF Phases
  <2>5. QED BY <1>1, <1>2, <1>3, <2>1, <2>2, <2>3, <2>4, Facts, Enough DEF Step
<1>4. CASE TryPending(c)
  <2>1. phase[c] = "trying" /\ UNCHANGED base
    BY <1>4 DEF TryPending
  <2>2. CASE /\ server = copy[c].pending /\ copy' = [copy EXCEPT ![c] = Adopted(copy[c])]
             /\ phase' = [phase EXCEPT ![c] = "keeping"]
    <3>1. /\ copy'[c] = Adopted(copy[c]) /\ phase'[c] = "keeping" /\ base'[c] = copy[c]
          /\ copy[c].pending \in Credentials
      BY <2>1, <2>2, Facts DEF Holding, States
    <3>2. copy'[c].credential = copy[c].pending /\ copy'[c].pending = None
      BY <3>1, Settled, Facts
    <3>3. Formed(copy'[c])
      BY <3>1, <3>2, Facts DEF Formed
    <3>4. Holding(c)'
      BY <1>1, <2>1, <2>2, <3>1, <3>2, Facts DEF Holding
    <3>5. phase' \in [Clients -> Phases] /\ copy' \in [Clients -> States]
      BY <2>2, <3>1, Settled, Facts DEF Phases
    <3>6. QED BY <1>1, <1>2, <1>4, <2>1, <3>3, <3>4, <3>5, Facts, Enough DEF Step
  <2>3. CASE UNCHANGED copy /\ phase' = [phase EXCEPT ![c] = "confirming"]
    <3>1. Holding(c)'
      BY <2>1, <2>3, Facts DEF Holding
    <3>2. phase' \in [Clients -> Phases]
      BY <2>3, Facts DEF Phases
    <3>3. QED BY <1>1, <1>2, <1>4, <2>1, <2>3, <3>1, <3>2, Facts, Enough DEF Step
  <2>4. QED BY <1>4, <2>2, <2>3 DEF TryPending, Goes
<1>5. CASE Confirm(c)
  <2>1. phase[c] = "confirming" /\ UNCHANGED base
    BY <1>5 DEF Confirm
  <2>2. CASE /\ server = copy[c].credential /\ copy' = [copy EXCEPT ![c] = Cleared(copy[c])]
             /\ phase' = [phase EXCEPT ![c] = "keeping"]
    <3>1. /\ copy'[c] = Cleared(copy[c]) /\ phase'[c] = "keeping" /\ base'[c] = copy[c]
          /\ copy[c].credential \in Credentials /\ c \notin Pages
      BY <2>1, <2>2, Facts DEF Holding, States
    <3>2. copy'[c].credential = copy[c].credential /\ copy'[c].pending = None
      BY <3>1, Settled, Facts
    <3>3. Formed(copy'[c])
      BY <3>1, <3>2, Facts DEF Formed
    <3>4. Holding(c)'
      BY <1>1, <2>1, <2>2, <3>1, <3>2, Facts DEF Holding
    <3>5. phase' \in [Clients -> Phases] /\ copy' \in [Clients -> States]
      BY <2>2, <3>1, Settled, Facts DEF Phases
    <3>6. QED BY <1>1, <1>2, <1>5, <2>1, <3>3, <3>4, <3>5, Facts, Enough DEF Step
  <2>3. CASE /\ UNCHANGED copy
             /\ \/ /\ server = copy[c].credential /\ copy[c].pending = None
                   /\ phase' = [phase EXCEPT ![c] = "online"]
                \/ phase' = [phase EXCEPT ![c] = "idle"]
                \/ phase' = [phase EXCEPT ![c] = "silent"]
    <3>1. Holding(c)'
      BY <1>1, <2>1, <2>3, Facts DEF Holding
    <3>2. phase' \in [Clients -> Phases]
      BY <2>3, Facts DEF Phases
    <3>3. QED BY <1>1, <1>2, <1>5, <2>1, <2>3, <3>1, <3>2, Facts, Enough DEF Step
  <2>4. QED BY <1>5, <2>2, <2>3 DEF Confirm, Goes, Ready, Refused
<1>6. QED BY <1>3, <1>4, <1>5

LEMMA KeepHolding ==
  ASSUME HInv, NEW c \in Clients, Keep(c) \/ Leave(c) \/ Crash(c)
  PROVE  HInv'
<1>1. UNCHANGED <<copy, late, made, server>>
  BY DEF Keep, Leave, Crash
<1>2. \A s : Formed(s)' <=> Formed(s)
  BY <1>1 DEF Formed
<1>3. CASE Keep(c)
  <2>1. /\ phase[c] = "keeping" /\ file' = copy[c] /\ base' = [base EXCEPT ![c] = copy[c]]
        /\ \/ phase' = [phase EXCEPT ![c] = "idle"]
           \/ phase' = [phase EXCEPT ![c] = "online"] /\ c \notin Pages
    BY <1>3 DEF Keep, Written, Goes, Ready
  <2>2. base'[c] = copy'[c] /\ (phase'[c] = "idle" \/ (phase'[c] = "online" /\ c \notin Pages))
    BY <1>1, <2>1, Facts
  <2>3. Holding(c)'
    BY <1>1, <2>1, <2>2, Facts DEF Holding
  <2>4. phase' \in [Clients -> Phases]
    BY <2>1, Facts DEF Phases
  <2>5. QED BY <1>1, <1>2, <1>3, <2>1, <2>2, <2>3, <2>4, Facts, Enough DEF Step
<1>4. CASE Leave(c) \/ Crash(c)
  <2>1. UNCHANGED <<file, base>> /\ phase' = [phase EXCEPT ![c] = "idle"]
    BY <1>4 DEF Leave, Crash, Goes
  <2>2. Holding(c)' /\ phase' \in [Clients -> Phases]
    BY <2>1, Facts DEF Holding, Phases
  <2>3. QED BY <1>1, <1>2, <1>4, <2>1, <2>2, Facts, Enough DEF Step
<1>5. QED BY <1>3, <1>4

LEMMA RotateHolding ==
  ASSUME HInv, NEW c \in Clients, Rotate(c)
  PROVE  HInv'
<1> DEFINE s == [copy[c] EXCEPT !.pending = made + 1]
<1>1. made + 1 \in Credentials /\ made' = made + 1 /\ phase[c] = "online"
      /\ UNCHANGED <<server, late>>
  BY Facts DEF Rotate, Credentials, HInv, TypeOK
<1>2. s \in States /\ s.credential = copy[c].credential /\ s.pending = made + 1
  BY ZenonT(40), <1>1, Copies, Facts
<1>3. copy' = [copy EXCEPT ![c] = s]
  BY DEF Rotate
<1> HIDE DEF s
<1>4. copy'[c] = s
  BY <1>3, Facts
<1>5. file' = s /\ base' = [base EXCEPT ![c] = s] /\ phase' = [phase EXCEPT ![c] = "asking"]
  BY <1>4 DEF Rotate, Written, Staged, Goes
<1>6. base'[c] = s /\ phase'[c] = "asking"
  BY <1>5, Facts
<1>7. Formed(copy[c])'
  BY <1>1, <1>2, <1>4, Facts DEF Formed, Holding
<1>8. Holding(c)'
  BY <1>1, <1>2, <1>4, <1>6, Facts DEF Holding, Credentials, None
<1>9. phase' \in [Clients -> Phases] /\ copy' \in [Clients -> States] /\ base' \in [Clients -> States]
  BY <1>2, <1>3, <1>5, Facts DEF Phases
<1>10. Formed(file)' /\ Formed(copy[c])' /\ Formed(base[c])'
  BY <1>4, <1>5, <1>6, <1>7
<1>11. QED BY <1>1, <1>2, <1>5, <1>8, <1>9, <1>10, Facts, Enough DEF Step

LEMMA AskHolding ==
  ASSUME HInv, NEW c \in Clients, Ask(c)
  PROVE  HInv'
<1>1. phase[c] = "asking" /\ UNCHANGED <<file, made, base>>
  BY DEF Ask
<1>2. \A s : Formed(s)' <=> Formed(s)
  BY <1>1 DEF Formed
<1>3. /\ copy[c] = base[c] /\ copy[c].pending \in Credentials /\ copy[c].credential \in Credentials
      /\ copy[c].credential <= server /\ copy[c].credential < copy[c].pending
      /\ copy[c].pending <= made
  BY <1>1, Facts DEF Holding, Formed, States
<1>4. CASE /\ server' = copy[c].pending /\ copy' = [copy EXCEPT ![c] = Adopted(copy[c])]
           /\ phase' = [phase EXCEPT ![c] = "keeping"] /\ UNCHANGED late
  <2>1. copy'[c] = Adopted(copy[c]) /\ phase'[c] = "keeping" /\ base'[c] = copy[c]
    BY <1>1, <1>3, <1>4, Facts
  <2>2. copy'[c].credential = copy[c].pending /\ copy'[c].pending = None /\ copy'[c] \in States
    BY <1>3, <2>1, Settled, Facts
  <2>3. Formed(copy'[c])
    BY <1>3, <2>2, Facts DEF Formed
  <2>4. Holding(c)'
    BY <1>3, <1>4, <2>1, <2>2, Facts DEF Holding, Credentials, None
  <2>5. phase' \in [Clients -> Phases] /\ copy' \in [Clients -> States]
    BY <1>4, <2>1, <2>2, Facts DEF Phases
  <2>6. QED BY <1>1, <1>2, <1>4, <2>3, <2>4, <2>5, Facts, Enough DEF Step
<1>5. CASE /\ phase' = [phase EXCEPT ![c] = "idle"] /\ UNCHANGED copy
           /\ late' \subseteq late \cup {[proof |-> copy[c].credential, next |-> copy[c].pending]}
  <2>1. Holding(c)' /\ phase' \in [Clients -> Phases]
    BY <1>5, Facts DEF Holding, Phases
  <2>2. late' \subseteq [proof : Credentials, next : Credentials]
    BY <1>3, <1>5, Facts
  <2>3. \A r \in late' \ late : Upward(r)'
    <3>1. server' \in Int /\ server <= server'
      BY Frame DEF Step, Credentials, None
    <3>2. QED BY <1>1, <1>3, <1>5, <3>1, Facts DEF Upward
  <2>4. QED BY <1>1, <1>2, <1>5, <2>1, <2>2, <2>3, Facts, Enough DEF Step
<1>6. QED BY <1>4, <1>5 DEF Ask, Goes

LEMMA EnrolHolding ==
  ASSUME HInv, NEW c \in Clients, Enrol(c) \/ Post(c) \/ Stage(c)
  PROVE  HInv'
<1>1. CASE Enrol(c)
  <2>1. /\ copy' = [copy EXCEPT ![c] = file] /\ base' = [base EXCEPT ![c] = file]
        /\ phase' = [phase EXCEPT ![c] = "posting"] /\ c \in Pages
        /\ UNCHANGED <<server, file, late, made>>
    BY <1>1 DEF Enrol, Goes
  <2>2. copy'[c] = file /\ base'[c] = file /\ phase'[c] = "posting"
    BY <2>1, Facts
  <2>3. Holding(c)'
    BY <2>1, <2>2 DEF Holding
  <2>4. phase' \in [Clients -> Phases] /\ copy' \in [Clients -> States] /\ base' \in [Clients -> States]
    BY <2>1, Facts DEF Phases
  <2>5. \A s : Formed(s)' <=> Formed(s)
    BY <2>1 DEF Formed
  <2>6. QED BY <1>1, <2>1, <2>2, <2>3, <2>4, <2>5, Facts, Enough DEF Step
<1>2. CASE Post(c)
  <2>1. /\ made + 1 \in Credentials /\ made' = made + 1 /\ server' = made + 1
        /\ phase[c] = "posting" /\ c \in Pages /\ copy[c] = base[c]
        /\ UNCHANGED <<file, late, base>>
    BY <1>2, Facts DEF Post, Credentials, Holding, HInv, TypeOK
  <2>2. \A s \in States : Formed(s) => Formed(s)'
    BY <2>1, Facts DEF Formed, States, Credentials, None
  <2>3. CASE /\ copy[c].credential # None /\ copy' = [copy EXCEPT ![c].pending = made + 1]
             /\ phase' = [phase EXCEPT ![c] = "staging"]
    <3> DEFINE s == [copy[c] EXCEPT !.pending = made + 1]
    <3>1. s \in States /\ s.credential = copy[c].credential /\ s.pending = made + 1
      BY ZenonT(40), <2>1, Copies, Facts
    <3>2. copy' = [copy EXCEPT ![c] = s]
      BY <2>3
    <3> HIDE DEF s
    <3>3. copy'[c] = s /\ phase'[c] = "staging" /\ base'[c] = copy[c]
      BY <2>1, <2>3, <3>2, Facts
    <3>4. Formed(copy[c])'
      BY <2>1, <2>3, <3>1, <3>3, Facts DEF Formed
    <3>5. Holding(c)'
      BY <2>1, <2>3, <3>1, <3>3, Facts DEF Holding, Formed
    <3>6. phase' \in [Clients -> Phases] /\ copy' \in [Clients -> States]
      BY <2>3, <3>1, <3>2, Facts DEF Phases
    <3>7. Formed(file)' /\ Formed(base[c])'
      BY <2>1, <2>2, Facts DEF Formed
    <3>8. QED BY <1>2, <2>1, <3>4, <3>5, <3>6, <3>7, Facts, Enough DEF Step
  <2>4. CASE /\ copy[c].credential = None /\ copy' = [copy EXCEPT ![c].credential = made + 1]
             /\ phase' = [phase EXCEPT ![c] = "keeping"]
    <3> DEFINE s == [copy[c] EXCEPT !.credential = made + 1]
    <3>1. s \in States /\ s.credential = made + 1 /\ s.pending = copy[c].pending
      BY ZenonT(40), <2>1, Copies, Facts
    <3>2. copy' = [copy EXCEPT ![c] = s]
      BY <2>4
    <3> HIDE DEF s
    <3>3. copy'[c] = s /\ phase'[c] = "keeping" /\ base'[c] = copy[c] /\ copy[c].pending = None
      BY <2>1, <2>4, <3>2, Facts DEF Formed
    <3>4. Formed(copy[c])'
      BY <2>1, <3>1, <3>3, Facts DEF Formed, None
    <3>5. Holding(c)'
      BY <2>1, <2>4, <3>1, <3>3, Facts DEF Holding, Credentials, None
    <3>6. phase' \in [Clients -> Phases] /\ copy' \in [Clients -> States]
      BY <2>4, <3>1, <3>2, Facts DEF Phases
    <3>7. Formed(file)' /\ Formed(base[c])'
      BY <2>1, <2>2, Facts DEF Formed
    <3>8. QED BY <1>2, <2>1, <3>4, <3>5, <3>6, <3>7, Facts, Enough DEF Step
  <2>5. CASE UNCHANGED copy /\ phase' = [phase EXCEPT ![c] = "idle"]
    <3>1. Holding(c)' /\ phase' \in [Clients -> Phases]
      BY <2>5, Facts DEF Holding, Phases
    <3>2. Formed(file)' /\ Formed(base[c])' /\ Formed(copy[c])'
      BY <2>1, <2>2, <2>5, Facts DEF Formed
    <3>3. QED BY <1>2, <2>1, <2>5, <3>1, <3>2, Facts, Enough DEF Step
  <2>6. QED BY <1>2, <2>3, <2>4, <2>5 DEF Post, Goes
<1>3. CASE Stage(c)
  <2>1. /\ phase[c] = "staging" /\ c \in Pages /\ file' = copy[c]
        /\ base' = [base EXCEPT ![c] = copy[c]] /\ copy' = [copy EXCEPT ![c] = Adopted(copy[c])]
        /\ phase' = [phase EXCEPT ![c] = "keeping"] /\ UNCHANGED <<server, late, made>>
    BY <1>3, Facts DEF Stage, Written, Goes, Holding
  <2>2. copy'[c] = Adopted(copy[c]) /\ base'[c] = copy[c] /\ phase'[c] = "keeping"
    BY <2>1, Facts
  <2>3. copy[c].pending \in Credentials /\ copy[c].pending <= server
    BY <2>1, Facts DEF Holding, States, Formed, Credentials, None
  <2>4. /\ copy'[c].credential = copy[c].pending /\ copy'[c].pending = None
        /\ copy'[c] \in States
    BY <2>2, <2>3, Settled, Facts
  <2>5. \A s : Formed(s)' <=> Formed(s)
    BY <2>1 DEF Formed
  <2>6. Formed(copy'[c])
    BY <2>3, <2>4, Facts DEF Formed
  <2>7. Holding(c)'
    BY <2>1, <2>2, <2>3, <2>4, Facts DEF Holding, Credentials, None
  <2>8. phase' \in [Clients -> Phases] /\ copy' \in [Clients -> States] /\ base' \in [Clients -> States]
    BY <2>1, <2>2, <2>4, Facts DEF Phases
  <2>9. QED BY <1>3, <2>1, <2>2, <2>5, <2>6, <2>7, <2>8, Facts, Enough DEF Step
<1>4. QED BY <1>1, <1>2, <1>3

LEMMA HoldingStep == HInv /\ [Next]_vars => HInv'
<1> SUFFICES ASSUME HInv, [Next]_vars PROVE HInv'
  OBVIOUS
<1>1. CASE UNCHANGED vars
  BY <1>1 DEF vars, HInv, TypeOK, Formed, Holding, Upward
<1>2. ASSUME NEW c \in Clients, Step(c) \/ Crash(c) PROVE HInv'
  BY <1>2, ConnectHolding, KeepHolding, RotateHolding, AskHolding, EnrolHolding DEF Step
<1>3. ASSUME NEW r \in late, Arrives(r) PROVE HInv'
  <2>1. r.next \in Credentials /\ r.proof < r.next /\ r.next <= made /\ r.proof <= server
    BY DEF HInv, TypeOK, Upward
  <2>2. /\ server' \in {None} \cup Credentials /\ server <= server' /\ server' <= made
        /\ late' \subseteq late
        /\ UNCHANGED <<file, phase, copy, polls, renewed, made, faults, base, forfeited>>
    BY <1>3, <2>1 DEF Arrives, Applied, HInv, TypeOK, Credentials, None
  <2>3. ASSUME NEW d \in Clients PROVE Holding(d)'
    BY <2>2, Facts DEF Holding, Credentials, None
  <2>4. TypeOK'
    BY <2>2 DEF HInv, TypeOK
  <2>5. \A x \in late' : Upward(x)'
    BY <2>2 DEF Upward, HInv, TypeOK, Credentials, None
  <2>6. \A s : Formed(s)' <=> Formed(s)
    BY <2>2 DEF Formed
  <2>7. QED BY <2>2, <2>3, <2>4, <2>5, <2>6 DEF HInv
<1>4. QED BY <1>1, <1>2, <1>3 DEF Next

\* Every reachable state is well typed: a client that proves a credential has
\* one, and a pending credential is never the current one.
THEOREM TypeCorrect == Spec => []TypeOK
<1>1. HInv => TypeOK
  BY DEF HInv
<1>2. QED BY <1>1, InitHolding, HoldingStep, PTL DEF Spec

-----------------------------------------------------------------------------
(* The credential that counts is kept.                                     *)

Rotation(s) == [proof |-> s.credential, next |-> s.pending]

\* The rotations the dashboard may still be asked for.
Rotations == late \cup {Rotation(copy[c]) : c \in {d \in Clients : phase[d] = "asking"}}

\* A rotation that the dashboard would apply is the one the file tells of.
Announced ==
  \A r \in Rotations : r.proof = server => file.credential = r.proof /\ file.pending = r.next

\* A client that drops a pending credential knows that it never counts.
Doubtless(c) ==
  phase[c] = "keeping" /\ c \notin Pages /\ copy[c].credential = base[c].credential =>
    server # base[c].pending /\ \A r \in Rotations : r.next # base[c].pending

\* A page that has got a new credential, and holds it until it is saved.
Holds(c) ==
  /\ c \in Pages /\ phase[c] \in {"staging", "keeping"}
  /\ server \in {copy[c].credential, copy[c].pending}

InFile == server \in {file.credential, file.pending}

Kept ==
  forfeited = {} =>
    /\ Announced
    /\ \A c \in Clients : Doubtless(c)
    /\ InFile \/ \E c \in Pages : Holds(c)

LEMMA RotationFacts ==
  ASSUME HInv, NEW r \in Rotations
  PROVE  /\ r.proof \in Credentials /\ r.next \in Credentials
         /\ r.proof <= server /\ r.proof < r.next /\ r.next <= made
<1>1. CASE r \in late
  BY <1>1 DEF HInv, TypeOK, Upward
<1>2. ASSUME NEW c \in Clients, phase[c] = "asking", r = Rotation(copy[c])
      PROVE  /\ r.proof \in Credentials /\ r.next \in Credentials
             /\ r.proof <= server /\ r.proof < r.next /\ r.next <= made
  <2>1. r.proof = copy[c].credential /\ r.next = copy[c].pending
    BY <1>2 DEF Rotation
  <2>2. QED BY <1>2, <2>1, Facts DEF Holding, Formed, States
<1>3. QED BY <1>1, <1>2 DEF Rotations

\* Only a client that rotates adds a rotation.
LEMMA RotationsStep ==
  ASSUME HInv, NEW c \in Clients, Step(c) \/ Crash(c)
  PROVE  /\ ~Rotate(c) => Rotations' \subseteq Rotations
         /\ Rotate(c) => Rotations' \subseteq Rotations \cup {Rotation(copy'[c])}
<1>1. ASSUME NEW d \in Clients \ {c}, phase'[d] = "asking"
      PROVE  Rotation(copy'[d]) \in Rotations
  <2>1. phase[d] = "asking" /\ copy'[d] = copy[d]
    BY <1>1, Frame
  <2>2. QED BY <2>1 DEF Rotations
<1>2. CASE Rotate(c)
  <2>1. late' = late
    BY <1>2 DEF Rotate
  <2>2. QED BY <1>1, <1>2, <2>1 DEF Rotations
<1>3. CASE ~Rotate(c)
  <2>1. phase'[c] # "asking"
    <3>1. CASE Load(c) \/ TryPending(c) \/ Confirm(c) \/ Keep(c)
      BY <3>1, Facts DEF Load, TryPending, Confirm, Keep, Goes, Ready, Refused
    <3>2. CASE Ask(c) \/ Enrol(c) \/ Post(c) \/ Stage(c) \/ Leave(c) \/ Crash(c)
      BY <3>2, Facts DEF Ask, Enrol, Post, Stage, Leave, Crash, Goes
    <3>3. QED BY <1>3, <3>1, <3>2 DEF Step
  <2>2. late' \subseteq Rotations
    <3>1. CASE Ask(c)
      <4>1. Rotation(copy[c]) \in Rotations /\ late \subseteq Rotations
        BY <3>1 DEF Ask, Rotations
      <4>2. late' \subseteq late \cup {Rotation(copy[c])}
        BY <3>1 DEF Ask, Rotation
      <4>3. QED BY <4>1, <4>2
    <3>2. CASE ~Ask(c)
      <4>1. late' = late
        BY <1>3, <3>2 DEF Step, Load, TryPending, Confirm, Keep, Enrol, Post, Stage, Leave, Crash
      <4>2. QED BY <4>1 DEF Rotations
    <3>3. QED BY <3>1, <3>2
  <2>3. QED BY <1>1, <1>3, <2>1, <2>2 DEF Rotations
<1>4. QED BY <1>2, <1>3

\* A step that changes neither the file nor what the dashboard accepts.
LEMMA QuietKept ==
  ASSUME HInv, Kept, NEW c \in Clients, Step(c) \/ Crash(c), ~Rotate(c),
         UNCHANGED <<server, file>>, forfeited' = {},
         Doubtless(c)',
         InFile \/ ~Holds(c)
  PROVE  Announced' /\ (\A d \in Clients : Doubtless(d)') /\ (InFile \/ \E d \in Pages : Holds(d))'
<1>1. forfeited = {} /\ Rotations' \subseteq Rotations
  BY Frame, RotationsStep
<1>2. Announced'
  BY <1>1 DEF Kept, Announced
<1>3. ASSUME NEW d \in Clients \ {c} PROVE Doubtless(d)' /\ (Holds(d) => Holds(d)')
  <2>1. phase'[d] = phase[d] /\ copy'[d] = copy[d] /\ base'[d] = base[d]
    BY Frame
  <2>2. QED BY <1>1, <2>1 DEF Kept, Doubtless, Holds
<1>4. \A d \in Clients : Doubtless(d)'
  BY <1>3
<1>5. (InFile \/ \E d \in Pages : Holds(d))'
  <2>1. CASE InFile
    BY <2>1 DEF InFile
  <2>2. CASE ~InFile
    <3>1. PICK d \in Pages : Holds(d)
      BY <1>1, <2>2 DEF Kept
    <3>2. d \in Clients \ {c}
      BY <2>2, <3>1 DEF Clients
    <3>3. QED BY <1>3, <3>1, <3>2
  <2>3. QED BY <2>1, <2>2
<1>6. QED BY <1>2, <1>4, <1>5

\* A step by which the dashboard accepts the newer credential of a rotation.
LEMMA TurnKept ==
  ASSUME HInv, Kept, forfeited = {}, NEW r \in Rotations, r.proof = server, server' = r.next,
         UNCHANGED file, Rotations' \subseteq Rotations,
         \A d \in Clients : \/ phase'[d] = phase[d] /\ copy'[d] = copy[d] /\ base'[d] = base[d]
                            \/ Doubtless(d)'
  PROVE  Announced' /\ (\A d \in Clients : Doubtless(d)') /\ (InFile \/ \E d \in Pages : Holds(d))'
<1>1. server \in Int /\ server' \in Int /\ server < server'
  BY RotationFacts, Facts DEF HInv, TypeOK, Credentials, None
<1>2. Announced'
  <2>1. ASSUME NEW x \in Rotations PROVE x.proof \in Int /\ x.proof # server'
    BY <1>1, RotationFacts DEF Credentials
  <2>2. QED BY <2>1 DEF Announced
<1>3. ASSUME NEW d \in Clients PROVE Doubtless(d)'
  <2>1. CASE Doubtless(d)'
    BY <2>1
  <2>2. CASE phase'[d] = phase[d] /\ copy'[d] = copy[d] /\ base'[d] = base[d]
    BY <2>2 DEF Kept, Doubtless
  <2>3. QED BY <2>1, <2>2
<1>4. InFile'
  BY DEF Kept, Announced, InFile
<1>5. QED BY <1>2, <1>3, <1>4

LEMMA ConnectKept ==
  ASSUME HInv, Kept, NEW c \in Clients, forfeited' = {},
         Load(c) \/ TryPending(c) \/ Confirm(c) \/ Enrol(c) \/ Leave(c) \/ Crash(c)
  PROVE  Kept'
<1>1. UNCHANGED <<server, file>> /\ ~Rotate(c)
  BY Facts DEF Load, TryPending, Confirm, Enrol, Leave, Crash, Rotate
<1>2. forfeited = {} /\ Rotations' \subseteq Rotations
  BY <1>1, Frame, RotationsStep DEF Step
<1>3. Doubtless(c)'
  <2>1. CASE Load(c) \/ Enrol(c) \/ Leave(c) \/ Crash(c)
    <3>1. phase'[c] # "keeping"
      BY <2>1, Facts DEF Load, Enrol, Leave, Crash, Goes
    <3>2. QED BY <3>1 DEF Doubtless
  <2>2. CASE TryPending(c)
    <3>1. phase[c] = "trying" /\ base'[c] = copy[c] /\ copy[c].pending # copy[c].credential
      BY <2>2, Facts DEF TryPending, Holding, Formed
    <3>2. CASE copy' = [copy EXCEPT ![c] = Adopted(copy[c])]
      <4>1. copy'[c] = Adopted(copy[c])
        BY <3>2, Facts
      <4>2. copy'[c].credential = copy[c].pending
        BY <4>1, Settled, Facts
      <4>3. QED BY <3>1, <4>2 DEF Doubtless
    <3>3. CASE phase' = [phase EXCEPT ![c] = "confirming"]
      BY <3>3, Facts DEF Doubtless
    <3>4. QED BY <2>2, <3>2, <3>3 DEF TryPending, Goes
  <2>3. CASE Confirm(c)
    <3>1. phase[c] = "confirming" /\ base'[c] = copy[c]
      BY <2>3, Facts DEF Confirm, Holding
    <3>2. CASE /\ server = copy[c].credential /\ copy[c].pending # None
               /\ Forfeit("doubt", Outstanding(copy[c]))
      <4>1. ~Outstanding(copy[c])
        BY <3>2 DEF Forfeit
      <4>2. \A r \in Rotations : r.next # copy[c].pending
        BY <4>1 DEF Outstanding, Rotations, Rotation
      <4>3. server # copy[c].pending
        BY <3>2, Facts DEF Formed
      <4>4. QED BY <1>1, <1>2, <3>1, <4>2, <4>3 DEF Doubtless
    <3>3. CASE \E p \in {"online", "idle", "silent"} : phase' = [phase EXCEPT ![c] = p]
      BY <3>3, Facts DEF Doubtless
    <3>4. QED BY <2>3, <3>2, <3>3 DEF Confirm, Goes, Ready, Refused
  <2>4. QED BY <2>1, <2>2, <2>3
<1>4. InFile \/ ~Holds(c)
  <2>1. CASE Crash(c)
    <3>1. ~(c \in Pages /\ Unsaved(c))
      BY <2>1 DEF Crash, Forfeit
    <3>2. QED BY <3>1 DEF Unsaved, InFile, Holds
  <2>2. CASE ~Crash(c)
    BY <2>2 DEF Load, TryPending, Confirm, Enrol, Leave, Holds
  <2>3. QED BY <2>1, <2>2
<1>5. QED BY <1>1, <1>3, <1>4, QuietKept DEF Step, Kept

LEMMA AskKept ==
  ASSUME HInv, Kept, NEW c \in Clients, Ask(c), forfeited' = {}
  PROVE  Kept'
<1>1. phase[c] = "asking" /\ UNCHANGED <<file, base>> /\ ~Rotate(c)
  BY DEF Ask, Rotate
<1>2. forfeited = {} /\ Rotations' \subseteq Rotations
  BY <1>1, Frame, RotationsStep DEF Step
<1>3. copy[c] = base[c] /\ copy[c].pending # copy[c].credential /\ c \notin Pages
  BY <1>1, Facts DEF Holding, Formed
<1>4. Doubtless(c)'
  <2>1. CASE copy' = [copy EXCEPT ![c] = Adopted(copy[c])]
    <3>1. copy'[c] = Adopted(copy[c])
      BY <2>1, Facts
    <3>2. copy'[c].credential = copy[c].pending
      BY <3>1, Settled, Facts
    <3>3. QED BY <1>1, <1>3, <3>2 DEF Doubtless
  <2>2. CASE phase' = [phase EXCEPT ![c] = "idle"]
    BY <2>2, Facts DEF Doubtless
  <2>3. QED BY <2>1, <2>2 DEF Ask, Goes
<1>5. CASE server' = server
  BY <1>1, <1>3, <1>4, <1>5, QuietKept DEF Step, Kept, Holds
<1>6. CASE server' # server
  <2> DEFINE r == Rotation(copy[c])
  <2>1. r \in Rotations /\ r.proof = copy[c].credential /\ r.next = copy[c].pending
    BY <1>1 DEF Rotations, Rotation
  <2>2. server = copy[c].credential /\ server' = copy[c].pending
    BY <1>6 DEF Ask, Applied
  <2>3. \A d \in Clients : \/ phase'[d] = phase[d] /\ copy'[d] = copy[d] /\ base'[d] = base[d]
                           \/ Doubtless(d)'
    BY <1>4, Frame DEF Step
  <2> HIDE DEF r
  <2>4. QED BY <1>1, <1>2, <2>1, <2>2, <2>3, TurnKept DEF Kept
<1>7. QED BY <1>5, <1>6

LEMMA ArrivesKept ==
  ASSUME HInv, Kept, NEW r \in late, Arrives(r), forfeited' = {}
  PROVE  Kept'
<1>1. /\ late' = late \ {r} /\ server' = Applied(r.proof, r.next)
      /\ UNCHANGED <<file, phase, copy, base, forfeited>>
  BY DEF Arrives
<1>2. r \in Rotations /\ Rotations' \subseteq Rotations
  BY <1>1 DEF Rotations
<1>3. CASE server' = server
  BY <1>1, <1>2, <1>3 DEF Kept, Announced, Doubtless, InFile, Holds
<1>4. CASE server' # server
  BY <1>1, <1>2, <1>4, TurnKept DEF Applied, Kept
<1>5. QED BY <1>3, <1>4

LEMMA PostKept ==
  ASSUME HInv, Kept, NEW c \in Clients, Post(c), forfeited' = {}
  PROVE  Kept'
<1>1. /\ server' = made + 1 /\ phase[c] = "posting" /\ c \in Pages /\ ~Rotate(c)
      /\ UNCHANGED <<file, base>> /\ made + 1 \in Credentials
  BY Facts DEF Post, Rotate, Holding, HInv, TypeOK, Credentials
<1>2. forfeited = {} /\ Rotations' \subseteq Rotations
  BY <1>1, Frame, RotationsStep DEF Step
<1>3. \A r \in Rotations : r.proof # server' /\ r.next # server'
  BY <1>1, RotationFacts, Facts DEF Credentials
<1>4. Announced'
  BY <1>2, <1>3 DEF Announced
<1>5. ASSUME NEW d \in Clients PROVE Doubtless(d)'
  <2>1. CASE d = c
    BY <1>1, <2>1 DEF Doubtless
  <2>2. CASE d # c
    <3>1. phase'[d] = phase[d] /\ copy'[d] = copy[d] /\ base'[d] = base[d]
      BY <2>2, Frame DEF Step
    <3>2. server' # base[d].pending
      BY <1>1, Facts DEF Formed
    <3>3. QED BY <1>2, <3>1, <3>2 DEF Kept, Doubtless
  <2>3. QED BY <2>1, <2>2
<1>6. Holds(c)'
  <2>1. ~Forfeit("enrolment", TRUE)
    BY DEF Forfeit
  <2>2. CASE copy' = [copy EXCEPT ![c].pending = made + 1] /\ phase' = [phase EXCEPT ![c] = "staging"]
    <3>1. copy'[c].pending = made + 1 /\ phase'[c] = "staging"
      BY <2>2, Facts DEF States
    <3>2. QED BY <1>1, <3>1 DEF Holds
  <2>3. CASE copy' = [copy EXCEPT ![c].credential = made + 1] /\ phase' = [phase EXCEPT ![c] = "keeping"]
    <3>1. copy'[c].credential = made + 1 /\ phase'[c] = "keeping"
      BY <2>3, Facts DEF States
    <3>2. QED BY <1>1, <3>1 DEF Holds
  <2>4. QED BY <2>1, <2>2, <2>3 DEF Post, Goes
<1>7. QED BY <1>1, <1>4, <1>5, <1>6 DEF Kept

\* A step that writes the file: the client wrote over what it had read.
LEMMA WriteKept ==
  ASSUME HInv, Kept, NEW c \in Clients, Rotate(c) \/ Keep(c) \/ Stage(c), forfeited' = {},
         Announced', Doubtless(c)', InFile \/ Holds(c) => InFile'
  PROVE  Kept'
<1>1. forfeited = {} /\ server' = server
  BY Frame DEF Step, Rotate, Keep, Stage
<1>2. ASSUME NEW d \in Clients \ {c} PROVE Doubtless(d)' /\ (Holds(d) => Holds(d)')
  <2>1. phase'[d] = phase[d] /\ copy'[d] = copy[d] /\ base'[d] = base[d]
    BY Frame DEF Step
  <2>2. \A r \in Rotations' : r \in Rotations \/ r.next # base[d].pending
    <3>1. CASE ~Rotate(c)
      BY <3>1, RotationsStep DEF Step
    <3>2. CASE Rotate(c)
      <4>1. copy'[c].pending = made + 1
        BY <3>2, Facts DEF Rotate, States
      <4>2. \A r \in Rotations' : r \in Rotations \/ r.next = made + 1
        BY <3>2, <4>1, RotationsStep DEF Step, Rotation
      <4>3. base[d].pending # made + 1
        BY Facts DEF Formed
      <4>4. QED BY <4>2, <4>3
    <3>3. QED BY <3>1, <3>2
  <2>3. QED BY <1>1, <2>1, <2>2 DEF Kept, Doubtless, Holds
<1>3. \A d \in Clients : Doubtless(d)'
  BY <1>2
<1>4. InFile' \/ \E d \in Pages : Holds(d)'
  <2>1. CASE InFile \/ Holds(c)
    BY <2>1
  <2>2. CASE ~InFile /\ ~Holds(c)
    <3>1. PICK d \in Pages : Holds(d)
      BY <1>1, <2>2 DEF Kept
    <3>2. d \in Clients \ {c}
      BY <2>2, <3>1 DEF Clients
    <3>3. QED BY <1>2, <3>1, <3>2
  <2>3. QED BY <2>1, <2>2
<1>5. QED BY <1>3, <1>4 DEF Kept

LEMMA RotateKept ==
  ASSUME HInv, Kept, NEW c \in Clients, Rotate(c), forfeited' = {}
  PROVE  Kept'
<1>1. /\ copy[c] = base[c] /\ copy[c].pending = None /\ copy[c].credential # None
      /\ copy[c].credential <= server /\ c \notin Pages /\ phase[c] = "online"
  BY Facts DEF Rotate, Holding
<1>2. forfeited = {} /\ server' = server /\ file' = copy'[c] /\ file = base[c]
  BY Frame DEF Step, Rotate, Written, Staged, Forfeit
<1>3. copy'[c].credential = copy[c].credential /\ copy'[c].pending = made + 1
  BY Facts DEF Rotate, States
<1>4. \A r \in Rotations : r.proof # server
  <2>1. ASSUME NEW r \in Rotations, r.proof = server PROVE FALSE
    <3>1. r.next = None
      BY <1>1, <1>2, <2>1 DEF Kept, Announced
    <3>2. QED BY <3>1, RotationFacts DEF Credentials, None
  <2>2. QED BY <2>1
<1>5. Announced'
  BY <1>2, <1>4, RotationsStep DEF Announced, Step, Rotation
<1>6. Doubtless(c)'
  BY Facts DEF Rotate, Goes, Doubtless
<1>7. InFile \/ Holds(c) => InFile'
  BY <1>1, <1>2, <1>3, Facts DEF InFile, Holds, States, Credentials, None
<1>8. QED BY <1>5, <1>6, <1>7, WriteKept

LEMMA KeepKept ==
  ASSUME HInv, Kept, NEW c \in Clients, Keep(c), forfeited' = {}
  PROVE  Kept'
<1>1. /\ phase[c] = "keeping" /\ file = base[c] /\ file' = copy[c] /\ server' = server
      /\ \/ phase' = [phase EXCEPT ![c] = "idle"]
         \/ phase' = [phase EXCEPT ![c] = "online"]
      /\ forfeited = {} /\ ~Rotate(c)
  BY Frame DEF Step, Keep, Written, Forfeit, Goes, Rotate, Ready
<1>2. /\ copy[c].pending = None /\ copy[c].credential # None /\ copy[c].credential <= server
      /\ \/ copy[c].credential = base[c].pending
         \/ IF c \in Pages THEN base[c].credential = None
                           ELSE copy[c].credential = base[c].credential
  BY <1>1, Facts DEF Holding
<1>3. Formed(base[c]) /\ base[c].credential \in Int /\ base[c].pending \in Int /\ Doubtless(c)
  BY <1>1, Facts DEF Kept
<1>4. \A r \in Rotations : r.proof # server
  <2>1. ASSUME NEW r \in Rotations, r.proof = server PROVE FALSE
    <3>1. base[c].credential = server /\ base[c].pending = r.next /\ r.next > server /\ server # None
      BY <1>1, <2>1, RotationFacts DEF Kept, Announced, Credentials, None
    <3>2. QED BY <1>1, <1>2, <1>3, <2>1, <3>1, Facts DEF Doubtless
  <2>2. QED BY <2>1
<1>5. Announced'
  BY <1>1, <1>4, RotationsStep DEF Announced, Step
<1>6. Doubtless(c)'
  BY <1>1, Facts DEF Doubtless
<1>7. InFile \/ Holds(c) => InFile'
  <2>1. CASE Holds(c)
    BY <1>1, <2>1 DEF Holds, InFile
  <2>2. CASE server \in {base[c].credential, base[c].pending}
    <3>1. server = copy[c].credential
      BY <1>1, <1>2, <1>3, <2>2, Facts DEF Formed, Doubtless, States, Credentials, None
    <3>2. QED BY <1>1, <3>1 DEF InFile
  <2>3. QED BY <1>1, <2>1, <2>2 DEF InFile
<1>8. QED BY <1>5, <1>6, <1>7, WriteKept

LEMMA StageKept ==
  ASSUME HInv, Kept, NEW c \in Clients, Stage(c), forfeited' = {}
  PROVE  Kept'
<1>1. /\ phase[c] = "staging" /\ file = base[c] /\ file' = copy[c] /\ server' = server
      /\ forfeited = {} /\ ~Rotate(c) /\ c \in Pages
  BY Frame, Facts DEF Step, Stage, Written, Forfeit, Rotate, Holding
<1>2. /\ base[c].credential < copy[c].pending /\ base[c].pending < copy[c].pending
      /\ copy[c].pending <= server
  BY <1>1, Facts DEF Holding
<1>3. server \notin {base[c].credential, base[c].pending}
  BY <1>2, Facts
<1>4. \A r \in Rotations : r.proof # server
  BY <1>1, <1>3 DEF Kept, Announced
<1>5. Announced'
  BY <1>1, <1>4, RotationsStep DEF Announced, Step
<1>6. Doubtless(c)'
  BY <1>1 DEF Doubtless
<1>7. InFile \/ Holds(c) => InFile'
  BY <1>1, <1>3 DEF InFile, Holds
<1>8. QED BY <1>5, <1>6, <1>7, WriteKept

LEMMA KeptStep == HInv /\ Kept /\ [Next]_vars => Kept'
<1> SUFFICES ASSUME HInv, Kept, [Next]_vars, forfeited' = {} PROVE Kept'
  BY DEF Kept
<1>1. CASE UNCHANGED vars
  BY <1>1 DEF vars, Kept, Announced, Rotations, Doubtless, InFile, Holds
<1>2. ASSUME NEW c \in Clients, Step(c) \/ Crash(c) PROVE Kept'
  BY <1>2, ConnectKept, AskKept, PostKept, RotateKept, KeepKept, StageKept DEF Step
<1>3. ASSUME NEW r \in late, Arrives(r) PROVE Kept'
  BY <1>3, ArrivesKept
<1>4. QED BY <1>1, <1>2, <1>3 DEF Next

\* The device never loses its credential: as long as no copy was saved over a
\* changed file, no pending credential was dropped while its rotation was under
\* way and no enrolment was lost unsaved, the file, or a page about to save it,
\* holds what the dashboard accepts (rotate_agent_credential, load_or_register).
THEOREM CredentialIsKept == Spec => []Recoverable
<1>1. Init => Kept
  <2>1. ASSUME Init PROVE Kept
    <3>1. Rotations = {} /\ InFile /\ \A c \in Clients : Doubtless(c)
      BY <2>1 DEF Init, Rotations, InFile, Doubtless
    <3>2. QED BY <3>1 DEF Kept, Announced
  <2>2. QED BY <2>1
<1>2. Kept => Recoverable
  BY DEF Kept, Recoverable, InFile, Holds
<1>3. QED BY <1>1, <1>2, InitHolding, HoldingStep, KeptStep, PTL DEF Spec

-----------------------------------------------------------------------------
(* The worker: the credential under it.                                    *)

\* The main thread changes nothing of the credential, but may meet a fault.
LEMMA FaultsHolding ==
  ASSUME HInv, UNCHANGED <<server, file, phase, copy, polls, renewed, late, made, base, forfeited>>,
         faults' \in 0 .. MaxFaults
  PROVE  HInv'
BY DEF HInv, TypeOK, Formed, Holding, Upward

LEMMA FaultsStep ==
  ASSUME HInv, UNCHANGED faults \/ Fault
  PROVE  faults' \in 0 .. MaxFaults
BY DEF HInv, TypeOK, Fault

LEMMA CredentialUnderWorker == HInv /\ [WorkerNext]_<<vars, taskVars>> => HInv'
<1> SUFFICES ASSUME HInv, [WorkerNext]_<<vars, taskVars>> PROVE HInv'
  OBVIOUS
<1>1. CASE UNCHANGED <<vars, taskVars>>
  BY <1>1, HoldingStep
<1>2. ASSUME NEW c \in Clients, Step(c) \/ Crash(c) PROVE HInv'
  BY <1>2, HoldingStep DEF Next
<1>3. ASSUME NEW r \in late, Arrives(r) PROVE HInv'
  BY <1>3, HoldingStep DEF Next
<1>4. ASSUME NEW w \in Workers, MainStep(w) \/ Reconnect(w) \/ Die(w) PROVE HInv'
  <2>1. CASE Connect(w) \/ Poll(w) \/ Prune(w) \/ Clean(w) \/ Finish(w) \/ Reconnect(w)
    <3>1. UNCHANGED vars
      BY <2>1 DEF Connect, Poll, Prune, Clean, Finish, Reconnect
    <3>2. QED BY <3>1, HoldingStep
  <2>2. CASE Replay(w) \/ PostReport(w) \/ Store(w)
    <3>1. UNCHANGED faults \/ Fault
      BY <2>2 DEF Replay, PostReport, Store, GoesOn, Accepted, Conflict, Denied, Lost
    <3>2. UNCHANGED <<server, file, phase, copy, polls, renewed, late, made, base, forfeited>>
      BY <2>2 DEF Replay, PostReport, Store
    <3>3. QED BY <3>1, <3>2, FaultsStep, FaultsHolding
  <2>3. CASE Die(w)
    BY <1>2, <2>3 DEF Die, Clients
  <2>4. QED BY <1>4, <2>1, <2>2, <2>3 DEF MainStep
<1>5. ASSUME NEW t \in Tasks, Expire(t) PROVE HInv'
  BY <1>5, HoldingStep DEF Expire
<1>6. QED BY <1>1, <1>2, <1>3, <1>4, <1>5 DEF WorkerNext

-----------------------------------------------------------------------------
(* The worker: what an execution goes through at the dashboard.            *)

\* The execution was leased to somebody.
Past(t, e) == e <= board[t].exec /\ (e = board[t].exec => board[t].status # "open")

InHand(t) == board[t].status \in {"leased", "running"}

Boards == [exec : Executions, status : {"open", "leased"} \cup Statuses]

\* The execution goes on, ends, or is offered again under a new number.
Continues(t) ==
  \/ board'[t] = board[t]
  \/ InHand(t) /\ board'[t].exec = board[t].exec /\ board'[t].status \in Statuses
  \/ InHand(t) /\ board'[t].exec = board[t].exec + 1 /\ board'[t].status = "open"

Leased(t) == board[t].status = "open" /\ board'[t] = [board[t] EXCEPT !.status = "leased"]

Forward == board' \in [Tasks -> Boards] /\ \A t \in Tasks : Continues(t)

\* What the worker holds in its hand: it had the execution leased, and when it
\* is about to forget the end of it, the dashboard knows it or it is stored.
Purpose(w) ==
  hand[w] # NoHand =>
    /\ Past(hand[w].task, hand[w].exec)
    /\ hand[w].do = "work" => hand[w].status = "running"
    /\ (hand[w].do = "clean" /\ hand[w].status = "done") => Told(hand[w].task, hand[w].exec)
    /\ (hand[w].do = "prune" /\ hand[w].status = "done") =>
         Told(hand[w].task, hand[w].exec) \/ Report(w) \in outbox

WInv ==
  /\ WorkerTypeOK
  /\ \A w \in Workers : Purpose(w)
  /\ \A v, w \in Workers : (v # w /\ hand[v] # NoHand /\ hand[w] # NoHand) =>
       hand[v].task # hand[w].task \/ hand[v].exec # hand[w].exec
  /\ \A r \in outbox : Past(r.task, r.exec)
  /\ \A w \in Workers : \A r \in queue[w] : Past(r.task, r.exec)
  /\ EndIsKept

LEMMA Numbers == Executions \subseteq Nat /\ \A t \in Tasks : 1 .. MaxExecutions[t] \subseteq Executions
BY WorkerAssumption DEF Executions

LEMMA BoardFacts ==
  ASSUME WorkerTypeOK, NEW t \in Tasks
  PROVE  /\ board[t] \in Boards /\ board[t].exec \in Executions /\ board[t].exec \in Nat
         /\ board[t].status \in {"open", "leased", "running", "done"}
<1>1. board[t] \in Boards
  BY DEF WorkerTypeOK, Boards
<1>2. QED BY <1>1, Numbers DEF Boards, Statuses

LEMMA HandFacts ==
  ASSUME WorkerTypeOK, NEW w \in Workers, hand[w] # NoHand
  PROVE  /\ hand[w].task \in Tasks /\ hand[w].exec \in Executions /\ hand[w].status \in Statuses
         /\ hand[w].do \in {"post", "store", "prune", "clean", "work"}
         /\ Report(w) \in Reports
BY DEF WorkerTypeOK, Hands, Report, Reports

\* A hand that does something is not empty.
LEMMA BusyHand ==
  ASSUME NEW w \in Workers, hand[w].do \in {"post", "store", "prune", "clean", "work"}
  PROVE  hand[w] # NoHand
BY DEF NoHand

\* What was leased stays leased, and what the dashboard knows it knows.
LEMMA Lifecycle ==
  ASSUME WorkerTypeOK, Forward, NEW t \in Tasks, NEW e \in Executions
  PROVE  /\ Past(t, e) => Past(t, e)'
         /\ Told(t, e) => Told(t, e)'
<1>1. board[t].exec \in Nat /\ e \in Nat
  BY BoardFacts, Numbers
<1>2. QED BY <1>1 DEF Forward, Continues, InHand, Past, Told, Statuses

\* Only what is in hand stays in hand.
LEMMA StillInHand ==
  ASSUME WorkerTypeOK, Forward, NEW t \in Tasks, InHand(t)'
  PROVE  InHand(t) /\ board'[t].exec = board[t].exec
BY DEF Forward, Continues, InHand

LEMMA SameBoard == ASSUME WorkerTypeOK, UNCHANGED board PROVE Forward
BY DEF WorkerTypeOK, Forward, Continues, Boards

\* A report that counts, of an execution that was leased.
LEMMA KnownBoard ==
  ASSUME WorkerTypeOK, NEW r \in Reports, Past(r.task, r.exec), Current(r), Known(r)
  PROVE  Forward /\ (r.status = "done" => Told(r.task, r.exec)')
<1>1. r.task \in Tasks /\ r.status \in Statuses
  BY DEF Reports
<1>2. board \in [Tasks -> Boards] /\ InHand(r.task)
  BY <1>1, BoardFacts DEF WorkerTypeOK, Boards, Past, Current, InHand
<1> DEFINE new == [board[r.task] EXCEPT !.status = r.status]
<1>3. new \in Boards /\ new.exec = board[r.task].exec /\ new.status = r.status
  BY <1>1, BoardFacts DEF Boards
<1>4. board' = [board EXCEPT ![r.task] = new]
  BY DEF Known
<1> HIDE DEF new
<1>5. board' \in [Tasks -> Boards] /\ board'[r.task] = new
      /\ \A t \in Tasks \ {r.task} : board'[t] = board[t]
  BY <1>1, <1>2, <1>3, <1>4
<1>6. QED BY <1>1, <1>2, <1>3, <1>5 DEF Forward, Continues, Told

LEMMA ExpireBoard ==
  ASSUME WorkerTypeOK, NEW t \in Tasks, Expire(t)
  PROVE  Forward
<1> DEFINE new == [exec |-> board[t].exec + 1, status |-> "open"]
<1>1. board' = [board EXCEPT ![t] = new] /\ InHand(t) /\ board[t].exec < MaxExecutions[t]
  BY DEF Expire, InHand
<1>2. new \in Boards
  <2>1. board[t].exec \in Nat /\ MaxExecutions[t] \in Nat
    BY BoardFacts, WorkerAssumption
  <2>2. board[t].exec + 1 \in 1 .. MaxExecutions[t]
    BY <1>1, <2>1
  <2>3. QED BY <2>2, Numbers DEF Boards
<1> HIDE DEF new
<1>3. board' \in [Tasks -> Boards] /\ board'[t] = new /\ \A u \in Tasks \ {t} : board'[u] = board[u]
  BY <1>1, <1>2 DEF WorkerTypeOK, Boards
<1>4. new.exec = board[t].exec + 1 /\ new.status = "open"
  BY DEF new
<1>5. QED BY <1>1, <1>3, <1>4 DEF Forward, Continues

-----------------------------------------------------------------------------
(* The worker: its steps.                                                  *)

\* Who answers for an execution that is in hand.
Safe(t, e) == Told(t, e) \/ Stored(t, e) \/ Making(t, e) \/ <<t, e>> \in dropped

LEMMA EndFromSafe ==
  ASSUME WorkerTypeOK',
         \A t \in Tasks, e \in Executions : (InHand(t)' /\ e = board'[t].exec) => Safe(t, e)'
  PROVE  EndIsKept'
<1> SUFFICES ASSUME NEW t \in Tasks, NEW e \in 1 .. board'[t].exec,
                    ~(e = board'[t].exec /\ board'[t].status = "open")
             PROVE  Safe(t, e)'
  BY DEF EndIsKept, Safe
<1>1. /\ board'[t].exec \in Executions /\ board'[t].exec \in Nat
      /\ board'[t].status \in {"open", "leased", "running", "done"}
  BY Numbers DEF WorkerTypeOK, Statuses
<1>2. CASE e # board'[t].exec
  <2>1. board'[t].exec > e
    BY <1>1, <1>2
  <2>2. QED BY <2>1 DEF Safe, Told
<1>3. CASE e = board'[t].exec
  BY <1>1, <1>3 DEF Safe, Told, InHand
<1>4. QED BY <1>2, <1>3

LEMMA SafeNow ==
  ASSUME WInv, NEW t \in Tasks, NEW e \in Executions, InHand(t), e = board[t].exec
  PROVE  Safe(t, e)
<1>1. e \in 1 .. board[t].exec
  BY BoardFacts, Numbers DEF WInv, Executions
<1>2. QED BY <1>1 DEF WInv, EndIsKept, Safe, InHand

\* A step that changes no hand, and removes the report of an end only when the
\* dashboard knows it.
LEMMA QuietStep ==
  ASSUME WInv, Forward, UNCHANGED <<hand, dropped>>,
         outbox' \subseteq outbox,
         \A r \in outbox \ outbox' : r.status = "done" => Told(r.task, r.exec)',
         queue' \in [Workers -> SUBSET Reports],
         \A w \in Workers : queue'[w] \subseteq queue[w] \cup outbox,
         main' \in [Workers -> {"connecting", "replaying", "polling"}],
         with' \in [Workers -> {None} \cup Credentials]
  PROVE  WInv'
<1>1. WorkerTypeOK /\ outbox \subseteq Reports /\ outbox' \subseteq Reports
  BY DEF WInv, WorkerTypeOK
<1>2. \A t \in Tasks, e \in Executions : (Past(t, e) => Past(t, e)') /\ (Told(t, e) => Told(t, e)')
  BY <1>1, Lifecycle
<1>3. \A r \in Reports : r.task \in Tasks /\ r.exec \in Executions
  BY DEF Reports
<1>4. \A r, s \in outbox' : (SameExecution(r, s) /\ r # s) =>
         Making(r.task, r.exec)' \/ <<r.task, r.exec>> \in dropped'
  BY <1>1 DEF WorkerTypeOK, Making
<1>5. WorkerTypeOK'
  BY <1>1, <1>4 DEF WorkerTypeOK, Forward, Boards
<1>6. ASSUME NEW w \in Workers PROVE Purpose(w)'
  <2>1. SUFFICES ASSUME hand[w] # NoHand PROVE Purpose(w)'
    BY DEF Purpose
  <2>2. hand[w].task \in Tasks /\ hand[w].exec \in Executions /\ Report(w) \in Reports
        /\ Report(w)' = Report(w)
        /\ Report(w).task = hand[w].task /\ Report(w).exec = hand[w].exec
    BY <1>1, <2>1, HandFacts DEF Report
  <2>3. PICK t \in Tasks, e \in Executions : t = hand[w].task /\ e = hand[w].exec
    BY <2>2
  <2>4. Past(t, e)' /\ (Told(t, e) => Told(t, e)') /\ Purpose(w)
    BY <1>2, <2>1, <2>3 DEF WInv, Purpose
  <2>5. hand[w].status = "done" /\ Report(w) \in outbox => Report(w)' \in outbox' \/ Told(t, e)'
    <3>1. Report(w).status = hand[w].status
      BY DEF Report
    <3>2. QED BY <2>2, <2>3, <3>1
  <2>6. QED BY <2>1, <2>3, <2>4, <2>5 DEF Purpose, Past, Told
<1>7. /\ \A r \in outbox' : Past(r.task, r.exec)'
      /\ \A w \in Workers : \A r \in queue'[w] : Past(r.task, r.exec)'
  <2>1. ASSUME NEW r \in Reports, Past(r.task, r.exec) PROVE Past(r.task, r.exec)'
    BY <1>2, <1>3, <2>1
  <2>2. ASSUME NEW w \in Workers, NEW r \in queue'[w] PROVE r \in Reports /\ Past(r.task, r.exec)
    BY <1>1, <2>2 DEF WInv, WorkerTypeOK
  <2>3. QED BY <1>1, <2>1, <2>2 DEF WInv
<1>8. EndIsKept'
  <2>1. ASSUME NEW t \in Tasks, NEW e \in Executions, InHand(t)', e = board'[t].exec
        PROVE  Safe(t, e)'
    <3>1. InHand(t) /\ e = board[t].exec
      BY <1>1, <2>1, StillInHand
    <3>2. Safe(t, e)
      BY <3>1, SafeNow
    <3>3. Stored(t, e) => Stored(t, e)' \/ Told(t, e)'
      BY DEF Stored
    <3>4. QED BY <1>2, <3>2, <3>3 DEF Safe, Making
  <2>2. QED BY <1>5, <2>1, EndFromSafe
<1>9. QED BY <1>5, <1>6, <1>7, <1>8 DEF WInv

\* A step of a worker with the execution in its hand: it goes on with it, or it
\* ends and the dashboard knows, or the end is stored, or it is lost.
LEMMA HandStep ==
  ASSUME WInv, Forward, NEW w \in Workers, hand[w] # NoHand,
         hand' \in [Workers -> Hands], \A v \in Workers \ {w} : hand'[v] = hand[v],
         dropped \subseteq dropped', dropped' \subseteq dropped \cup {<<hand[w].task, hand[w].exec>>},
         outbox' \subseteq outbox \cup {Report(w)}, outbox \ outbox' \subseteq Same(hand[w]),
         queue' \in [Workers -> SUBSET Reports], \A v \in Workers : queue'[v] \subseteq queue[v],
         main' \in [Workers -> {"connecting", "replaying", "polling"}], UNCHANGED with,
         NEW t \in Tasks, NEW e \in Executions, t = hand[w].task, e = hand[w].exec,
         \/ /\ hand'[w] # NoHand /\ hand'[w].task = t /\ hand'[w].exec = e
            /\ hand'[w].do = "work" => hand'[w].status = "running"
            /\ (hand'[w].do = "clean" /\ hand'[w].status = "done") => Told(t, e)'
            /\ (hand'[w].do = "prune" /\ hand'[w].status = "done") =>
                 Told(t, e)' \/ Report(w)' \in outbox'
         \/ /\ hand'[w] = NoHand
            /\ Told(t, e)' \/ Stored(t, e)' \/ <<t, e>> \in dropped'
            /\ \/ <<t, e>> \in dropped'
               \/ \A r \in outbox' : (r.task = t /\ r.exec = e) => r = Report(w)
  PROVE  WInv'
<1>1. WorkerTypeOK /\ outbox \subseteq Reports /\ outbox' \subseteq Reports /\ Report(w) \in Reports
  BY HandFacts DEF WInv, WorkerTypeOK
<1>2. \A u \in Tasks, x \in Executions : (Past(u, x) => Past(u, x)') /\ (Told(u, x) => Told(u, x)')
  BY <1>1, Lifecycle
<1>3. \A r \in Reports : r.task \in Tasks /\ r.exec \in Executions
  BY DEF Reports
<1>4. Past(t, e) /\ Past(t, e)' /\ Report(w).task = t /\ Report(w).exec = e
  BY <1>2 DEF WInv, Purpose, Report
\* Of the other executions nothing changes but the board.
<1>5. ASSUME NEW u \in Tasks, NEW x \in Executions, u # t \/ x # e
      PROVE  /\ Making(u, x) <=> Making(u, x)'
             /\ <<u, x>> \in dropped <=> <<u, x>> \in dropped'
             /\ \A r \in Reports : (r.task = u /\ r.exec = x) => (r \in outbox <=> r \in outbox')
  <2>1. Making(u, x) <=> Making(u, x)'
    BY <1>5 DEF Making
  <2>2. <<u, x>> \in dropped <=> <<u, x>> \in dropped'
    BY <1>5
  <2>3. \A r \in Reports : (r.task = u /\ r.exec = x) => r \notin Same(hand[w]) /\ r # Report(w)
    BY <1>4, <1>5 DEF Same
  <2>4. QED BY <2>1, <2>2, <2>3
<1>6. hand'[w] # NoHand => Making(t, e)'
  BY DEF Making
<1>7. WorkerTypeOK'
  <2>1. ASSUME NEW r \in outbox', NEW s \in outbox', SameExecution(r, s), r # s
        PROVE  Making(r.task, r.exec)' \/ <<r.task, r.exec>> \in dropped'
    <3>1. CASE r.task = t /\ r.exec = e
      BY <1>6, <2>1, <3>1 DEF SameExecution
    <3>2. CASE r.task # t \/ r.exec # e
      <4>1. PICK u \in Tasks, x \in Executions : u = r.task /\ x = r.exec
        BY <1>1, <1>3
      <4>2. s.task = u /\ s.exec = x /\ r \in outbox /\ s \in outbox
        BY <1>1, <1>5, <2>1, <3>2, <4>1 DEF SameExecution
      <4>3. Making(u, x) \/ <<u, x>> \in dropped
        BY <1>1, <2>1, <4>1, <4>2 DEF WorkerTypeOK
      <4>4. QED BY <1>5, <3>2, <4>1, <4>3
    <3>3. QED BY <3>1, <3>2
  <2>2. dropped' \subseteq Tasks \X Executions
    BY <1>1 DEF WorkerTypeOK
  <2>3. QED BY <1>1, <2>1, <2>2 DEF WorkerTypeOK, Forward, Boards
<1>8. ASSUME NEW v \in Workers PROVE Purpose(v)'
  <2>1. CASE v = w
    BY <1>4, <2>1 DEF Purpose, Past, Told
  <2>2. CASE v # w /\ hand[v] # NoHand
    <3>1. hand'[v] = hand[v] /\ Report(v)' = Report(v) /\ Report(v) \in Reports
          /\ Report(v).task = hand[v].task /\ Report(v).exec = hand[v].exec
      BY <1>1, <2>2, HandFacts DEF Report
    <3>2. PICK u \in Tasks, x \in Executions : u = hand[v].task /\ x = hand[v].exec
      BY <1>1, <2>2, HandFacts
    <3>3. u # t \/ x # e
      BY <2>2, <3>2 DEF WInv
    <3>4. Past(u, x)' /\ (Told(u, x) => Told(u, x)') /\ (Report(v) \in outbox => Report(v) \in outbox')
      BY <1>2, <1>5, <2>2, <3>1, <3>2, <3>3 DEF WInv, Purpose
    <3>5. Purpose(v)
      BY DEF WInv
    <3>6. QED BY <2>2, <3>1, <3>2, <3>4, <3>5 DEF Purpose, Past, Told
  <2>3. CASE v # w /\ hand[v] = NoHand
    BY <2>3 DEF Purpose
  <2>4. QED BY <2>1, <2>2, <2>3
<1>9. \A v, x \in Workers : (v # x /\ hand'[v] # NoHand /\ hand'[x] # NoHand) =>
         hand'[v].task # hand'[x].task \/ hand'[v].exec # hand'[x].exec
  BY DEF WInv
<1>10. /\ \A r \in outbox' : Past(r.task, r.exec)'
       /\ \A v \in Workers : \A r \in queue'[v] : Past(r.task, r.exec)'
  <2>1. ASSUME NEW r \in Reports, Past(r.task, r.exec) PROVE Past(r.task, r.exec)'
    BY <1>2, <1>3, <2>1
  <2>2. ASSUME NEW v \in Workers, NEW r \in queue'[v] PROVE r \in Reports /\ Past(r.task, r.exec)
    BY <1>1, <2>2 DEF WInv, WorkerTypeOK
  <2>3. ASSUME NEW r \in outbox' PROVE r \in Reports /\ Past(r.task, r.exec)
    BY <1>1, <1>4, <2>3 DEF WInv
  <2>4. QED BY <2>1, <2>2, <2>3
<1>11. EndIsKept'
  <2>1. ASSUME NEW u \in Tasks, NEW x \in Executions, InHand(u)', x = board'[u].exec
        PROVE  Safe(u, x)'
    <3>1. CASE u = t /\ x = e
      BY <1>6, <3>1 DEF Safe
    <3>2. CASE u # t \/ x # e
      <4>1. InHand(u) /\ x = board[u].exec
        BY <1>1, <2>1, StillInHand
      <4>2. Safe(u, x)
        BY <4>1, SafeNow
      <4>3. Stored(u, x) => Stored(u, x)'
        BY <1>1, <1>5, <3>2 DEF Stored
      <4>4. QED BY <1>2, <1>5, <3>2, <4>2, <4>3 DEF Safe
    <3>3. QED BY <3>1, <3>2
  <2>2. QED BY <1>7, <2>1, EndFromSafe
<1>12. QED BY <1>7, <1>8, <1>9, <1>10, <1>11 DEF WInv

\* A step that changes nothing of the worker's but what it connects with.
LEMMA RestStep ==
  ASSUME HInv, WInv, NEW w \in Workers,
         UNCHANGED taskVars \/ Connect(w) \/ Reconnect(w)
  PROVE  WInv'
<1>1. WorkerTypeOK /\ UNCHANGED <<board, hand, dropped, outbox>>
  BY DEF WInv, taskVars, Connect, Reconnect
<1>2. copy[w].credential \in {None} \cup Credentials
  BY Facts DEF Clients, States
<1>3. /\ queue' \in [Workers -> SUBSET Reports]
      /\ \A v \in Workers : queue'[v] \subseteq queue[v] \cup outbox
      /\ main' \in [Workers -> {"connecting", "replaying", "polling"}]
      /\ with' \in [Workers -> {None} \cup Credentials]
  BY <1>1, <1>2 DEF WorkerTypeOK, taskVars, Connect, Reconnect
<1>4. QED BY <1>1, <1>3, SameBoard, QuietStep

LEMMA ReplayStep ==
  ASSUME WInv, NEW w \in Workers, Replay(w)
  PROVE  WInv'
<1>1. WorkerTypeOK /\ UNCHANGED <<hand, dropped, with>>
  BY DEF WInv, Replay
<1>2. CASE queue[w] = {} /\ main' = [main EXCEPT ![w] = "polling"] /\ UNCHANGED <<board, queue, outbox>>
  BY <1>1, <1>2, SameBoard, QuietStep DEF WorkerTypeOK
<1>3. ASSUME NEW r \in queue[w],
             \/ /\ GoesOn(w, r) /\ outbox' = outbox \ {r}
                /\ queue' = [queue EXCEPT ![w] = queue[w] \ {r}] /\ UNCHANGED main
             \/ /\ Denied(w, r) \/ Lost(w, r)
                /\ queue' = [queue EXCEPT ![w] = {}]
                /\ main' = [main EXCEPT ![w] = "polling"] /\ UNCHANGED outbox
      PROVE  WInv'
  <2>1. r \in Reports /\ Past(r.task, r.exec) /\ r.task \in Tasks /\ r.exec \in Executions
    BY <1>1, <1>3 DEF WInv, WorkerTypeOK, Reports
  <2>2. Forward
    BY <1>1, <1>3, <2>1, SameBoard, KnownBoard DEF GoesOn, Accepted, Conflict, Denied, Lost
  <2>3. GoesOn(w, r) => (r.status = "done" => Told(r.task, r.exec)')
    <3>1. CASE Accepted(w, r)
      BY <1>1, <2>1, <3>1, KnownBoard DEF Accepted
    <3>2. CASE Conflict(w, r)
      <4>1. board[r.task].exec \in Nat /\ r.exec \in Nat
        BY <1>1, <2>1, BoardFacts, Numbers
      <4>2. QED BY <2>1, <3>2, <4>1 DEF Conflict, Current, Past, Told
    <3>3. QED BY <3>1, <3>2 DEF GoesOn
  <2>4. /\ queue' \in [Workers -> SUBSET Reports]
        /\ \A v \in Workers : queue'[v] \subseteq queue[v] \cup outbox
        /\ main' \in [Workers -> {"connecting", "replaying", "polling"}]
        /\ with' \in [Workers -> {None} \cup Credentials]
    BY <1>1, <1>3 DEF WorkerTypeOK
  <2>5. /\ outbox' \subseteq outbox
        /\ \A s \in outbox \ outbox' : s.status = "done" => Told(s.task, s.exec)'
    BY <1>3, <2>3
  <2>6. QED BY <1>1, <2>2, <2>4, <2>5, QuietStep
<1>4. QED BY <1>2, <1>3 DEF Replay

LEMMA ExpireStep ==
  ASSUME WInv, NEW t \in Tasks, Expire(t)
  PROVE  WInv'
BY ExpireBoard, QuietStep DEF WInv, WorkerTypeOK, Expire

LEMMA PollStep ==
  ASSUME WInv, NEW w \in Workers, Poll(w)
  PROVE  WInv'
<1>1. PICK t \in Tasks :
        /\ board[t].status = "open"
        /\ board' = [board EXCEPT ![t].status = "leased"]
        /\ hand' = [hand EXCEPT ![w] =
             [do |-> "post", task |-> t, exec |-> board[t].exec, status |-> "running"]]
  BY DEF Poll
<1>2. PICK e \in Executions : e = board[t].exec
  BY BoardFacts DEF WInv
<1>3. /\ WorkerTypeOK /\ hand[w] = NoHand
      /\ UNCHANGED <<main, with, queue, outbox, dropped>>
  BY DEF WInv, Poll
<1> DEFINE new == [board[t] EXCEPT !.status = "leased"]
           h   == [do |-> "post", task |-> t, exec |-> e, status |-> "running"]
<1>4. new \in Boards /\ new.exec = e /\ new.status = "leased"
  BY <1>2, <1>3, BoardFacts DEF Boards
<1>5. h \in Hands /\ h.do = "post" /\ h.task = t /\ h.exec = e /\ h.status = "running" /\ h # NoHand
  BY DEF Hands, Statuses, NoHand
<1>6. board' = [board EXCEPT ![t] = new] /\ hand' = [hand EXCEPT ![w] = h]
  BY <1>1, <1>2
<1> HIDE DEF new, h
<1>7. /\ board' \in [Tasks -> Boards] /\ board'[t] = new
      /\ \A u \in Tasks \ {t} : board'[u] = board[u]
  BY <1>3, <1>4, <1>6 DEF WorkerTypeOK, Boards
<1>8. /\ hand' \in [Workers -> Hands] /\ hand'[w] = h
      /\ \A v \in Workers \ {w} : hand'[v] = hand[v]
  BY <1>3, <1>5, <1>6 DEF WorkerTypeOK
<1>9. \A u \in Tasks, x \in Executions :
        (Past(u, x) => Past(u, x)') /\ (Told(u, x) => Told(u, x)') /\ (Making(u, x) => Making(u, x)')
  <2>1. \A u \in Tasks, x \in Executions : (Past(u, x) => Past(u, x)') /\ (Told(u, x) => Told(u, x)')
    BY <1>1, <1>2, <1>4, <1>7 DEF Past, Told
  <2>2. \A u \in Tasks, x \in Executions : Making(u, x) => Making(u, x)'
    BY <1>3, <1>8 DEF Making
  <2>3. QED BY <2>1, <2>2
<1>10. Making(t, e)' /\ Past(t, e)'
  <2>1. e \in Nat
    BY Numbers
  <2>2. QED BY <1>4, <1>5, <1>7, <1>8, <2>1 DEF Making, Past
<1>11. outbox \subseteq Reports /\ \A r \in Reports : r.task \in Tasks /\ r.exec \in Executions
  BY <1>3 DEF WorkerTypeOK, Reports
<1>12. WorkerTypeOK'
  <2>1. \A r, s \in outbox' : (SameExecution(r, s) /\ r # s) =>
          Making(r.task, r.exec)' \/ <<r.task, r.exec>> \in dropped'
    BY <1>3, <1>9, <1>11 DEF WorkerTypeOK
  <2>2. QED BY <1>3, <1>7, <1>8, <2>1 DEF WorkerTypeOK, Boards
<1>13. ASSUME NEW v \in Workers PROVE Purpose(v)'
  <2>1. CASE v = w
    BY <1>5, <1>8, <1>10, <2>1 DEF Purpose, Past
  <2>2. CASE v # w /\ hand[v] # NoHand
    <3>1. PICK u \in Tasks, x \in Executions : u = hand[v].task /\ x = hand[v].exec
      BY <1>3, <2>2, HandFacts
    <3>2. Past(u, x)' /\ (Told(u, x) => Told(u, x)') /\ Purpose(v)
      BY <1>9, <2>2, <3>1 DEF WInv, Purpose
    <3>3. hand'[v] = hand[v] /\ Report(v)' = Report(v) /\ outbox' = outbox
      BY <1>3, <1>8, <2>2 DEF Report
    <3>4. QED BY <2>2, <3>1, <3>2, <3>3 DEF Purpose, Past, Told
  <2>3. CASE v # w /\ hand[v] = NoHand
    BY <1>8, <2>3 DEF Purpose
  <2>4. QED BY <2>1, <2>2, <2>3
\* What was open was in nobody's hand.
<1>14. ASSUME NEW v \in Workers, hand[v] # NoHand PROVE hand[v].task # t \/ hand[v].exec # e
  BY <1>1, <1>2, <1>14 DEF WInv, Purpose, Past
<1>15. \A v, x \in Workers : (v # x /\ hand'[v] # NoHand /\ hand'[x] # NoHand) =>
          hand'[v].task # hand'[x].task \/ hand'[v].exec # hand'[x].exec
  BY <1>5, <1>8, <1>14 DEF WInv
<1>16. /\ \A r \in outbox' : Past(r.task, r.exec)'
       /\ \A v \in Workers : \A r \in queue'[v] : Past(r.task, r.exec)'
  BY <1>3, <1>9, <1>11 DEF WInv, WorkerTypeOK
<1>17. EndIsKept'
  <2>1. ASSUME NEW u \in Tasks, NEW x \in Executions, InHand(u)', x = board'[u].exec
        PROVE  Safe(u, x)'
    <3>1. CASE u = t
      BY <1>4, <1>7, <1>10, <2>1, <3>1 DEF Safe
    <3>2. CASE u # t
      <4>1. InHand(u) /\ x = board[u].exec
        BY <1>7, <2>1, <3>2 DEF InHand
      <4>2. Safe(u, x)
        BY <4>1, SafeNow
      <4>3. QED BY <1>3, <1>9, <4>2 DEF Safe, Stored
    <3>3. QED BY <3>1, <3>2
  <2>2. QED BY <1>12, <2>1, EndFromSafe
<1>18. QED BY <1>12, <1>13, <1>15, <1>16, <1>17 DEF WInv

LEMMA HandEnds ==
  ASSUME WorkerTypeOK, NEW w \in Workers, Ends(w)
  PROVE  /\ hand' \in [Workers -> Hands] /\ hand'[w] = NoHand
         /\ \A v \in Workers \ {w} : hand'[v] = hand[v]
BY DEF WorkerTypeOK, Ends, Hands

LEMMA HandDoes ==
  ASSUME WorkerTypeOK, NEW w \in Workers, hand[w] # NoHand,
         NEW what \in {"post", "store", "prune", "clean", "work"}, Does(w, what)
  PROVE  /\ hand' \in [Workers -> Hands] /\ hand'[w] # NoHand
         /\ \A v \in Workers \ {w} : hand'[v] = hand[v]
         /\ hand'[w].do = what /\ hand'[w].task = hand[w].task /\ hand'[w].exec = hand[w].exec
         /\ hand'[w].status = hand[w].status /\ Report(w)' = Report(w)
<1> DEFINE h == [hand[w] EXCEPT !.do = what]
<1>1. hand[w] \in [do : {"post", "store", "prune", "clean", "work"}, task : Tasks,
                   exec : Executions, status : Statuses]
  BY DEF WorkerTypeOK, Hands
<1>2. /\ h \in Hands /\ h.do = what /\ h # NoHand
      /\ h.task = hand[w].task /\ h.exec = hand[w].exec /\ h.status = hand[w].status
  BY <1>1 DEF Hands, NoHand
<1>3. hand' = [hand EXCEPT ![w] = h]
  BY DEF Does
<1> HIDE DEF h
<1>4. hand' \in [Workers -> Hands] /\ hand'[w] = h /\ \A v \in Workers \ {w} : hand'[v] = hand[v]
  BY <1>2, <1>3 DEF WorkerTypeOK
<1>5. QED BY <1>2, <1>4 DEF Report

\* What a step of a hand leaves alone.
LEMMA Rest ==
  ASSUME WorkerTypeOK, UNCHANGED <<main, with, queue>>
  PROVE  /\ queue' \in [Workers -> SUBSET Reports] /\ \A v \in Workers : queue'[v] \subseteq queue[v]
         /\ main' \in [Workers -> {"connecting", "replaying", "polling"}]
BY DEF WorkerTypeOK

LEMMA PostReportStep ==
  ASSUME WInv, NEW w \in Workers, PostReport(w)
  PROVE  WInv'
<1> DEFINE r == Report(w)
<1>1. /\ WorkerTypeOK /\ hand[w] # NoHand /\ Past(hand[w].task, hand[w].exec)
      /\ UNCHANGED <<main, with, queue, outbox, dropped>>
  BY BusyHand DEF WInv, Purpose, PostReport, Busy
<1>2. PICK t \in Tasks, e \in Executions : t = hand[w].task /\ e = hand[w].exec
  BY <1>1, HandFacts
<1>3. r \in Reports /\ r.task = t /\ r.exec = e /\ r.status = hand[w].status /\ Past(t, e)
  BY <1>1, <1>2, HandFacts DEF Report
<1>4. PICK what \in {"clean", "store"} :
        /\ Does(w, what)
        /\ what = "clean" => Accepted(w, r)
        /\ what = "store" => Conflict(w, r) \/ Denied(w, r) \/ Lost(w, r)
  BY DEF PostReport
<1> HIDE DEF r
<1>5. Forward /\ ((what = "clean" /\ hand[w].status = "done") => Told(t, e)')
  BY <1>1, <1>3, <1>4, SameBoard, KnownBoard DEF Accepted, Conflict, Denied, Lost
<1>6. /\ hand' \in [Workers -> Hands] /\ hand'[w] # NoHand
      /\ \A v \in Workers \ {w} : hand'[v] = hand[v]
      /\ hand'[w].do = what /\ hand'[w].task = t /\ hand'[w].exec = e
      /\ hand'[w].status = hand[w].status
  BY <1>1, <1>2, <1>4, HandDoes
<1>7. /\ dropped \subseteq dropped' /\ dropped' \subseteq dropped \cup {<<hand[w].task, hand[w].exec>>}
      /\ outbox' \subseteq outbox \cup {Report(w)} /\ outbox \ outbox' \subseteq Same(hand[w])
      /\ UNCHANGED with /\ queue' \in [Workers -> SUBSET Reports]
      /\ \A v \in Workers : queue'[v] \subseteq queue[v]
      /\ main' \in [Workers -> {"connecting", "replaying", "polling"}]
  BY <1>1, Rest
<1>8. /\ hand'[w] # NoHand /\ hand'[w].task = t /\ hand'[w].exec = e
      /\ hand'[w].do = "work" => hand'[w].status = "running"
      /\ (hand'[w].do = "clean" /\ hand'[w].status = "done") => Told(t, e)'
      /\ (hand'[w].do = "prune" /\ hand'[w].status = "done") =>
           Told(t, e)' \/ Report(w)' \in outbox'
  BY <1>5, <1>6
<1>9. Forward
  BY <1>5
<1>10. /\ hand' \in [Workers -> Hands] /\ \A v \in Workers \ {w} : hand'[v] = hand[v]
  BY <1>6
<1>11. QED BY <1>1, <1>2, <1>7, <1>8, <1>9, <1>10, HandStep

LEMMA StoreStep ==
  ASSUME WInv, NEW w \in Workers, Store(w)
  PROVE  WInv'
<1>1. /\ WorkerTypeOK /\ hand[w] # NoHand /\ UNCHANGED <<board, main, with, queue>>
  BY BusyHand DEF WInv, Store, Busy
<1>2. PICK t \in Tasks, e \in Executions : t = hand[w].task /\ e = hand[w].exec
  BY <1>1, HandFacts
<1>3. Forward
  BY <1>1, SameBoard
<1>4. CASE outbox' = outbox \cup {Report(w)} /\ Does(w, "prune") /\ UNCHANGED dropped
  <2>1. /\ hand' \in [Workers -> Hands] /\ hand'[w] # NoHand
        /\ \A v \in Workers \ {w} : hand'[v] = hand[v]
        /\ hand'[w].do = "prune" /\ hand'[w].task = t /\ hand'[w].exec = e
        /\ Report(w)' = Report(w)
    BY <1>1, <1>2, <1>4, HandDoes
  <2>2. Report(w)' \in outbox' /\ outbox \ outbox' \subseteq Same(hand[w])
    BY <1>4, <2>1
  <2>3. QED BY <1>1, <1>2, <1>3, <1>4, <2>1, <2>2, Rest, HandStep
<1>5. CASE Ends(w) /\ UNCHANGED outbox /\ dropped' = dropped \cup {<<hand[w].task, hand[w].exec>>}
  BY <1>1, <1>2, <1>3, <1>5, HandEnds, Rest, HandStep
<1>6. QED BY <1>4, <1>5 DEF Store

LEMMA RemoveStep ==
  ASSUME WInv, NEW w \in Workers, Prune(w) \/ Clean(w)
  PROVE  WInv'
<1>1. /\ WorkerTypeOK /\ hand[w] # NoHand /\ UNCHANGED <<board, main, with, queue, dropped>>
      /\ AfterReport(w) /\ outbox' \subseteq outbox
  BY BusyHand DEF WInv, Prune, Clean, Busy
<1>2. PICK t \in Tasks, e \in Executions : t = hand[w].task /\ e = hand[w].exec
  BY <1>1, HandFacts
<1>3. Forward /\ (Told(t, e) => Told(t, e)')
  BY <1>1, SameBoard, Lifecycle
<1>4. outbox \ outbox' \subseteq Same(hand[w])
  BY DEF Prune, Clean, Pruned
<1>5. CASE hand[w].status = "running"
  <2>1. Does(w, "work")
    BY <1>1, <1>5 DEF AfterReport
  <2>2. /\ hand' \in [Workers -> Hands] /\ hand'[w] # NoHand
        /\ \A v \in Workers \ {w} : hand'[v] = hand[v]
        /\ hand'[w].do = "work" /\ hand'[w].task = t /\ hand'[w].exec = e
        /\ hand'[w].status = "running"
    BY <1>1, <1>2, <1>5, <2>1, HandDoes
  <2>3. QED BY <1>1, <1>2, <1>3, <1>4, <2>2, Rest, HandStep
<1>6. CASE hand[w].status # "running"
  <2>1. Ends(w) /\ hand[w].status = "done"
    BY <1>1, <1>6, HandFacts DEF AfterReport, Statuses
  <2>2. /\ \/ Told(t, e)' \/ Stored(t, e)'
        /\ \A r \in outbox' : (r.task = t /\ r.exec = e) => r = Report(w)
    <3>1. CASE Prune(w)
      <4>1. outbox' = outbox \ Pruned(w) /\ (Told(t, e) \/ Report(w) \in outbox)
        BY <1>1, <1>2, <2>1, <3>1 DEF Prune, Busy, WInv, Purpose
      <4>2. Report(w).task = t /\ Report(w).exec = e /\ Report(w).status = "done"
        BY <1>2, <2>1 DEF Report
      <4>3. ASSUME NEW r \in outbox', r.task = t, r.exec = e PROVE r = Report(w)
        BY <1>2, <4>1, <4>3 DEF Pruned, Same
      <4>4. Report(w) \in outbox => Stored(t, e)'
        BY <4>1, <4>2 DEF Stored, Pruned
      <4>5. QED BY <1>3, <4>1, <4>3, <4>4
    <3>2. CASE Clean(w)
      <4>1. Told(t, e)
        BY <1>1, <1>2, <2>1, <3>2 DEF Clean, Busy, WInv, Purpose
      <4>2. \A r \in outbox' : r.task # t \/ r.exec # e
        BY <1>2, <3>2 DEF Clean, Same
      <4>3. QED BY <1>3, <4>1, <4>2
    <3>3. QED BY <3>1, <3>2
  <2>3. /\ dropped \subseteq dropped' /\ dropped' \subseteq dropped \cup {<<hand[w].task, hand[w].exec>>}
        /\ outbox' \subseteq outbox \cup {Report(w)} /\ outbox \ outbox' \subseteq Same(hand[w])
        /\ UNCHANGED with /\ queue' \in [Workers -> SUBSET Reports]
        /\ \A v \in Workers : queue'[v] \subseteq queue[v]
        /\ main' \in [Workers -> {"connecting", "replaying", "polling"}]
    BY <1>1, <1>4, Rest
  <2>4. /\ hand' \in [Workers -> Hands] /\ hand'[w] = NoHand
        /\ \A v \in Workers \ {w} : hand'[v] = hand[v]
    BY <1>1, <2>1, HandEnds
  <2>5. /\ hand'[w] = NoHand
        /\ Told(t, e)' \/ Stored(t, e)' \/ <<t, e>> \in dropped'
        /\ \/ <<t, e>> \in dropped'
           \/ \A r \in outbox' : (r.task = t /\ r.exec = e) => r = Report(w)
    BY <2>2, <2>4
  <2>6. WInv /\ Forward
    BY <1>3
  <2>7. QED BY <1>1, <1>2, <2>3, <2>4, <2>5, <2>6, HandStep
<1>7. QED BY <1>5, <1>6

LEMMA FinishStep ==
  ASSUME WInv, NEW w \in Workers, Finish(w)
  PROVE  WInv'
<1>1. /\ WorkerTypeOK /\ hand[w] # NoHand /\ UNCHANGED <<board, main, with, queue, outbox>>
  BY BusyHand DEF WInv, Finish, Busy
<1>2. PICK t \in Tasks, e \in Executions : t = hand[w].task /\ e = hand[w].exec
  BY <1>1, HandFacts
<1>3. Forward
  BY <1>1, SameBoard
<1>4. CASE hand' = [hand EXCEPT ![w].do = "post", ![w].status = "done"] /\ UNCHANGED dropped
  <2> DEFINE h == [hand[w] EXCEPT !.do = "post", !.status = "done"]
  <2>1. hand[w] \in [do : {"post", "store", "prune", "clean", "work"}, task : Tasks,
                     exec : Executions, status : Statuses]
    BY <1>1 DEF WorkerTypeOK, Hands
  <2>2. /\ h \in Hands /\ h.do = "post" /\ h # NoHand /\ h.task = t /\ h.exec = e
    BY <1>2, <2>1 DEF Hands, NoHand, Statuses
  <2>3. hand' = [hand EXCEPT ![w] = h]
    BY <1>1, <1>4 DEF WorkerTypeOK
  <2> HIDE DEF h
  <2>4. /\ hand' \in [Workers -> Hands] /\ hand'[w] = h
        /\ \A v \in Workers \ {w} : hand'[v] = hand[v]
    BY <1>1, <2>2, <2>3 DEF WorkerTypeOK
  <2>5. /\ dropped \subseteq dropped' /\ dropped' \subseteq dropped \cup {<<hand[w].task, hand[w].exec>>}
        /\ outbox' \subseteq outbox \cup {Report(w)} /\ outbox \ outbox' \subseteq Same(hand[w])
        /\ UNCHANGED with /\ queue' \in [Workers -> SUBSET Reports]
        /\ \A v \in Workers : queue'[v] \subseteq queue[v]
        /\ main' \in [Workers -> {"connecting", "replaying", "polling"}]
    BY <1>1, <1>4, Rest
  <2>6. hand'[w] # NoHand /\ hand'[w].task = t /\ hand'[w].exec = e /\ hand'[w].do = "post"
    BY <2>2, <2>4
  <2>7. QED BY <1>1, <1>2, <1>3, <2>4, <2>5, <2>6, HandStep
<1>5. CASE Ends(w) /\ dropped' = dropped \cup {<<hand[w].task, hand[w].exec>>}
  BY <1>1, <1>2, <1>3, <1>5, HandEnds, Rest, HandStep
<1>6. QED BY <1>4, <1>5 DEF Finish

LEMMA DieStep ==
  ASSUME WInv, NEW w \in Workers, Die(w)
  PROVE  WInv'
<1>1. WorkerTypeOK /\ UNCHANGED <<board, with, outbox>> /\ Ends(w)
  BY DEF WInv, Die
<1>2. /\ Forward
      /\ queue' \in [Workers -> SUBSET Reports] /\ \A v \in Workers : queue'[v] \subseteq queue[v]
      /\ main' \in [Workers -> {"connecting", "replaying", "polling"}]
  BY <1>1, SameBoard DEF Die, WorkerTypeOK
<1>3. CASE hand[w] = NoHand
  <2>1. UNCHANGED <<hand, dropped>>
    BY <1>1, <1>3 DEF WorkerTypeOK, Ends, Die
  <2>2. QED BY <1>1, <1>2, <2>1, QuietStep DEF WorkerTypeOK
<1>4. CASE hand[w] # NoHand
  <2>1. PICK t \in Tasks, e \in Executions : t = hand[w].task /\ e = hand[w].exec
    BY <1>1, <1>4, HandFacts
  <2>2. dropped' = dropped \cup {<<hand[w].task, hand[w].exec>>}
    BY <1>4 DEF Die
  <2>3. QED BY <1>1, <1>2, <1>4, <2>1, <2>2, HandEnds, HandStep
<1>5. QED BY <1>3, <1>4

LEMMA WorkerStart == WorkerInit => HInv /\ WInv
<1> SUFFICES ASSUME WorkerInit PROVE HInv /\ WInv
  OBVIOUS
<1>1. HInv /\ \A w \in Workers : copy[w] \in States
  BY InitHolding, Facts DEF WorkerInit, Clients
<1>2. /\ board = [t \in Tasks |-> [exec |-> 1, status |-> "open"]]
      /\ main = [w \in Workers |-> "connecting"] /\ with = [w \in Workers |-> None]
      /\ hand = [w \in Workers |-> NoHand] /\ queue = [w \in Workers |-> {}]
      /\ outbox = {} /\ dropped = {}
  BY DEF WorkerInit
<1>3. \A t \in Tasks : [exec |-> 1, status |-> "open"] \in Boards /\ board[t].exec = 1
                       /\ board[t].status = "open"
  <2>1. ASSUME NEW t \in Tasks PROVE 1 \in Executions
    <3>1. 1 \in 1 .. MaxExecutions[t]
      BY WorkerAssumption
    <3>2. QED BY <3>1, Numbers
  <2>2. QED BY <1>2, <2>1 DEF Boards
<1>4. WorkerTypeOK
  BY <1>2, <1>3 DEF WorkerTypeOK, Boards, Hands
<1>5. EndIsKept
  BY <1>3 DEF EndIsKept
<1>6. QED BY <1>1, <1>2, <1>4, <1>5 DEF WInv, Purpose

LEMMA WorkerStep == HInv /\ WInv /\ [WorkerNext]_<<vars, taskVars>> => WInv'
<1> SUFFICES ASSUME HInv, WInv, [WorkerNext]_<<vars, taskVars>> PROVE WInv'
  OBVIOUS
<1>1. CASE UNCHANGED taskVars
  BY <1>1, SameBoard, QuietStep DEF taskVars, WInv, WorkerTypeOK
<1>2. ASSUME NEW w \in Workers, MainStep(w) \/ Reconnect(w) \/ Die(w) PROVE WInv'
  BY <1>2, RestStep, ReplayStep, PollStep, PostReportStep, StoreStep, RemoveStep, FinishStep,
     DieStep DEF MainStep
<1>3. ASSUME NEW t \in Tasks, Expire(t) PROVE WInv'
  BY <1>3, ExpireStep
<1>4. QED BY <1>1, <1>2, <1>3 DEF WorkerNext, taskVars

\* The worker's thread, its hand and its outbox are what worker/mod.rs and
\* store/outbox.rs say; two reports of one execution are stored only while one
\* of them is being made, or after the worker died in it.
THEOREM WorkerTypeCorrect == WorkerSpec => []WorkerTypeOK
<1>1. WInv => WorkerTypeOK
  BY DEF WInv
<1>2. QED BY <1>1, WorkerStart, WorkerStep, CredentialUnderWorker, PTL DEF WorkerSpec

\* What the worker did for the dashboard is never forgotten, for every number of
\* workers, tasks, offers and faults: as long as its process lives and the report
\* can be stored, the end of an execution is known to the dashboard or waits in
\* the outbox (report_task and execute_task of main.rs, flush_report_outbox of
\* worker/mod.rs, remove_reports_for_execution of store/outbox.rs).
THEOREM EndsAreKept == WorkerSpec => []EndIsKept
<1>1. WInv => EndIsKept
  BY DEF WInv
<1>2. QED BY <1>1, WorkerStart, WorkerStep, CredentialUnderWorker, PTL DEF WorkerSpec

=============================================================================
