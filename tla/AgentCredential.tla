-------------------------- MODULE AgentCredential --------------------------
(***************************************************************************)
(* The credential by which the dashboard knows a device (api/client.rs).   *)
(* The dashboard has one, the state file has one and perhaps a pending     *)
(* one.  The worker of the desktop (worker/mod.rs) loads it and rotates it *)
(* when it is due, a console rotates it on demand, a page of the desktop   *)
(* enrols the device again; each works on the copy it loaded and saves the *)
(* copy as a whole.                                                        *)
(***************************************************************************)
EXTENDS Integers, FiniteSets

CONSTANTS
  Workers, Consoles, Pages,
  MaxCredentials, \* bound: credentials ever made
  MaxFaults       \* bound: crashes, lost and late messages, errors of a heartbeat

Clients == Workers \cup Consoles \cup Pages

ASSUME CredentialAssumption ==
  /\ IsFiniteSet(Clients)
  /\ Workers \cap (Consoles \cup Pages) = {} /\ Consoles \cap Pages = {}
  /\ MaxCredentials \in Nat \ {0} /\ MaxFaults \in Nat

Credentials == 1 .. MaxCredentials
None        == 0

VARIABLES
  server,   \* the credential the dashboard accepts
  file,     \* the state file
  phase,    \* what a client does
  copy,     \* the state a client works on
  polls,    \* what a worker polls with while its heartbeat thread renews the credential
  renewed,  \* workers that have not noticed that their desktop was enrolled
  late,     \* rotations whose sender gave up, still on their way
  made,     \* credentials made so far
  faults

VARIABLES
  base,     \* history: the file as a client read or wrote it last
  forfeited \* history: what may have cost the device its credential

vars == <<server, file, phase, copy, polls, renewed, late, made, faults, base, forfeited>>

States == [credential : {None} \cup Credentials, pending : {None} \cup Credentials]
Phases == {"idle", "trying", "confirming", "keeping", "online", "asking", "posting",
           "staging", "silent"}

\* A client that proves a credential has one, and a pending one is a new one; the
\* thread that fell silent is that of a worker that polls.
TypeOK ==
  /\ server \in {None} \cup Credentials
  /\ file \in States /\ (file.pending # None => file.credential \notin {None, file.pending})
  /\ phase \in [Clients -> Phases] /\ copy \in [Clients -> States]
  /\ \A c \in Clients :
       /\ phase[c] \in {"trying", "asking"} => copy[c].pending # None
       /\ phase[c] \in {"confirming", "online", "asking"} => copy[c].credential # None
  /\ polls \in [Workers -> {None} \cup Credentials]
  /\ \A c \in Workers : polls[c] # None => phase[c] # "online"
  /\ \A c \in Clients : phase[c] = "silent" => c \in Workers /\ polls[c] # None
  /\ renewed \subseteq Workers
  /\ late \subseteq [proof : Credentials, next : Credentials]
  /\ made \in Credentials /\ faults \in 0 .. MaxFaults
  /\ base \in [Clients -> States]
  /\ forfeited \subseteq {"stale", "doubt", "enrolment"}

Init ==
  /\ server \in {None, 1} /\ file = [credential |-> server, pending |-> None]
  /\ phase = [c \in Clients |-> "idle"]
  /\ copy = [c \in Clients |-> file] /\ base = copy
  /\ polls = [c \in Workers |-> None]
  /\ renewed = {} /\ late = {} /\ made = 1 /\ faults = 0 /\ forfeited = {}

Fault     == faults < MaxFaults /\ faults' = faults + 1
Goes(c, p) == phase' = [phase EXCEPT ![c] = p]
\* The heartbeat thread of the worker renews its credential.
Renews(c) == c \in Workers /\ polls[c] # None
Polls(c, credential) ==
  polls' = IF c \in Workers THEN [polls EXCEPT ![c] = credential] ELSE polls

\* A worker that renewed its credential reconnects; one that connects is online.
Ready(c)  == Goes(c, IF c \in Pages \/ Renews(c) THEN "idle" ELSE "online") /\ Polls(c, None)

Forfeit(reason, cond) == forfeited' = IF cond THEN forfeited \cup {reason} ELSE forfeited

\* save_agent_state: the whole copy, whatever the file holds by now.
Written(c, s) ==
  /\ file' = s /\ base' = [base EXCEPT ![c] = s]
  /\ Forfeit("stale", file # base[c])

-----------------------------------------------------------------------------
(* load_or_register, without an enrolment token.                           *)

\* mutant: the pending credential is never tried
NeverTries(s) == FALSE

Tries(s) == s.pending # None

Load(c) ==
  /\ phase[c] = "idle" /\ c \notin Pages /\ file.credential # None
  /\ copy' = [copy EXCEPT ![c] = file] /\ base' = [base EXCEPT ![c] = file]
  /\ Goes(c, IF Tries(file) THEN "trying" ELSE "confirming")
  /\ renewed' = IF Renews(c) THEN renewed ELSE renewed \ {c}
  /\ UNCHANGED <<server, file, polls, late, made, faults, forfeited>>

\* mutant: the adopted credential stays pending as well
AdoptedTwice(s) == [s EXCEPT !.credential = s.pending]

Adopted(s) == [credential |-> s.pending, pending |-> None]

Cleared(s) == [s EXCEPT !.pending = None]

\* A heartbeat with the pending credential; an error is no answer.
TryPending(c) ==
  /\ phase[c] = "trying"
  /\ \/ /\ server = copy[c].pending
        /\ copy' = [copy EXCEPT ![c] = Adopted(@)] /\ Goes(c, "keeping")
        /\ UNCHANGED faults
     \/ server # copy[c].pending /\ Goes(c, "confirming") /\ UNCHANGED <<copy, faults>>
     \/ Fault /\ Goes(c, "confirming") /\ UNCHANGED copy
  /\ UNCHANGED <<server, file, polls, renewed, late, made, base, forfeited>>

\* A rotation to this credential may still be applied.
Outstanding(s) ==
  \/ \E r \in late : r.next = s.pending
  \/ \E d \in Clients : phase[d] = "asking" /\ copy[d].pending = s.pending

\* The supervisor of a worker connects again, but the heartbeat thread that cannot
\* load the state ends without asking for it.
Refused(c) == IF Renews(c) THEN "silent" ELSE "idle"

\* A heartbeat with the current one: if it counts, a pending one is dropped.
Confirm(c) ==
  /\ phase[c] = "confirming"
  /\ \/ /\ server = copy[c].credential /\ copy[c].pending = None
        /\ Ready(c) /\ UNCHANGED <<copy, faults, forfeited>>
     \/ /\ server = copy[c].credential /\ copy[c].pending # None
        /\ copy' = [copy EXCEPT ![c] = Cleared(@)] /\ Goes(c, "keeping")
        /\ Forfeit("doubt", Outstanding(copy[c])) /\ UNCHANGED <<polls, faults>>
     \/ /\ server # copy[c].credential
        /\ Goes(c, Refused(c)) /\ UNCHANGED <<copy, polls, faults, forfeited>>
     \/ Fault /\ Goes(c, Refused(c)) /\ UNCHANGED <<copy, polls, forfeited>>
  /\ UNCHANGED <<server, file, renewed, late, made, base>>

Keep(c) ==
  /\ phase[c] = "keeping" /\ Written(c, copy[c])
  /\ Ready(c)
  /\ renewed' = IF c \in Pages THEN Workers ELSE renewed
  /\ UNCHANGED <<server, copy, late, made, faults>>

-----------------------------------------------------------------------------
(* rotate_agent_credential, by a worker when it is due (as it connects, or *)
(* in its heartbeat thread while it polls), or by a console.               *)

\* mutant: the pending credential is not saved before the request
StagedLater(c) == base[c]

Staged(c) == copy'[c]

Rotate(c) ==
  /\ phase[c] = "online" /\ made < MaxCredentials
  /\ made' = made + 1
  /\ copy' = [copy EXCEPT ![c].pending = made + 1]
  /\ Written(c, Staged(c)) /\ Goes(c, "asking")
  /\ UNCHANGED polls \/ Polls(c, copy[c].credential)
  /\ UNCHANGED <<server, renewed, late, faults>>

\* The dashboard applies a rotation that its current credential proves.
Applied(proof, next) == IF server = proof THEN next ELSE server

\* The request and its answer; whoever gets none loads the state again.
Ask(c) ==
  /\ phase[c] = "asking"
  /\ \/ /\ server = copy[c].credential
        /\ server' = copy[c].pending
        /\ copy' = [copy EXCEPT ![c] = Adopted(@)] /\ Goes(c, "keeping")
        /\ UNCHANGED <<late, faults>>
     \/ /\ server # copy[c].credential
        /\ Goes(c, "idle") /\ UNCHANGED <<server, copy, late, faults>>
     \/ /\ Fault /\ Goes(c, "idle")
        /\ \/ UNCHANGED <<server, late>>
           \/ server' = Applied(copy[c].credential, copy[c].pending) /\ UNCHANGED late
           \/ /\ late' = late \cup {[proof |-> copy[c].credential, next |-> copy[c].pending]}
              /\ UNCHANGED server
        /\ UNCHANGED copy
  /\ UNCHANGED <<file, polls, renewed, made, base, forfeited>>

Arrives(r) ==
  /\ r \in late /\ late' = late \ {r}
  /\ server' = Applied(r.proof, r.next)
  /\ UNCHANGED <<file, phase, copy, polls, renewed, made, faults, base, forfeited>>

-----------------------------------------------------------------------------
(* register_agent, from a page with an enrolment token.                    *)

Enrol(c) ==
  /\ phase[c] = "idle" /\ c \in Pages /\ made < MaxCredentials
  /\ copy' = [copy EXCEPT ![c] = file] /\ base' = [base EXCEPT ![c] = file]
  /\ Goes(c, "posting")
  /\ UNCHANGED <<server, file, polls, renewed, late, made, faults, forfeited>>

\* The dashboard makes a new credential; a lost answer takes it along.
Post(c) ==
  /\ phase[c] = "posting" /\ made < MaxCredentials
  /\ made' = made + 1 /\ server' = made + 1
  /\ \/ /\ copy[c].credential # None
        /\ copy' = [copy EXCEPT ![c].pending = made + 1] /\ Goes(c, "staging")
        /\ UNCHANGED <<faults, forfeited>>
     \/ /\ copy[c].credential = None
        /\ copy' = [copy EXCEPT ![c].credential = made + 1] /\ Goes(c, "keeping")
        /\ UNCHANGED <<faults, forfeited>>
     \/ Fault /\ Goes(c, "idle") /\ Forfeit("enrolment", TRUE) /\ UNCHANGED copy
  /\ UNCHANGED <<file, polls, renewed, late, base>>

Stage(c) ==
  /\ phase[c] = "staging" /\ Written(c, copy[c])
  /\ copy' = [copy EXCEPT ![c] = Adopted(@)] /\ Goes(c, "keeping")
  /\ UNCHANGED <<server, polls, renewed, late, made, faults>>

-----------------------------------------------------------------------------

\* A worker is refused or sees a new identity and reconnects; a console ends.  The
\* refusal of a worker whose heartbeat thread fell silent is that of its polling.
Leave(c) ==
  /\ \/ /\ phase[c] = "online"
        /\ c \in Workers => server # copy[c].credential \/ c \in renewed
     \/ phase[c] = "silent" /\ (server # polls[c] \/ c \in renewed)
  /\ Goes(c, "idle") /\ Polls(c, None)
  /\ UNCHANGED <<server, file, copy, renewed, late, made, faults, base, forfeited>>

\* The new credential of an enrolment that is not saved yet dies with its page.
Unsaved(c) == phase[c] \in {"staging", "keeping"} /\ server \notin {file.credential, file.pending}

Crash(c) ==
  /\ phase[c] # "idle" \/ Renews(c)
  /\ Fault /\ Goes(c, "idle") /\ Polls(c, None)
  /\ Forfeit("enrolment", c \in Pages /\ Unsaved(c))
  /\ UNCHANGED <<server, file, copy, renewed, late, made, base>>

Step(c) ==
  \/ Load(c) \/ TryPending(c) \/ Confirm(c) \/ Keep(c) \/ Rotate(c) \/ Ask(c)
  \/ Enrol(c) \/ Post(c) \/ Stage(c) \/ Leave(c)

Next ==
  \/ \E c \in Clients : Step(c) \/ Crash(c)
  \/ \E r \in late : Arrives(r)

Spec == Init /\ [][Next]_vars

\* The supervisor of a worker goes on, and a request that was started ends.
Work(c) == Load(c) \/ TryPending(c) \/ Confirm(c) \/ Keep(c) \/ Ask(c) \/ Post(c) \/ Stage(c)

FairSpec == Spec /\ \A c \in Workers : WF_vars(Work(c) \/ Leave(c))

-----------------------------------------------------------------------------
(* Properties.                                                             *)

\* The state file always holds a credential the dashboard accepts, whatever
\* answers are lost and whoever dies in between.  Three things can cost the
\* device its credential: a copy saved over a file that changed since it was
\* read, a pending credential dropped while its rotation is under way, and an
\* enrolment whose answer is not saved.
Recoverable ==
  forfeited = {} =>
    \/ server \in {file.credential, file.pending}
    \/ \E c \in Pages : phase[c] \in {"staging", "keeping"}
                        /\ server \in {copy[c].credential, copy[c].pending}

\* A worker comes back with the credential that counts, whoever changed it,
\* unless that was lost as above, or its heartbeat thread fell silent: when a
\* rotation and the loading of the state after it fail, that thread ends without
\* asking for a restart, and as long as the credential with which the worker polls
\* counts, there is no other way back than an enrolment or a new process.
WorkerReturns ==
  \A c \in Workers :
    []<>(\/ phase[c] = "online" /\ copy[c].credential = server
         \/ phase[c] = "silent" /\ polls[c] = server
         \/ forfeited # {} \/ server = None
         \/ \E p \in Pages : Unsaved(p))
=============================================================================
