-------------------------- MODULE ApprovalDecision --------------------------
(***************************************************************************)
(* What the approval of one workflow step promises, whatever processes,    *)
(* queues and files take part in it: at most one verdict is accepted, the  *)
(* run goes on only with an approval, and it ends only with a rejection or *)
(* because somebody cancels it (src/src/approval/ownership.rs: "Every      *)
(* approval has exactly one decision owner.").                             *)
(***************************************************************************)
VARIABLES
  told,     \* what was accepted from people and rules
  outcome   \* "open", "granted" or "ended"

Init == told = {} /\ outcome = "open"

\* A verdict is accepted, the first time only; a run may be canceled any time.
Decide(v) == told \cap {"approved", "rejected"} = {} /\ told' = told \cup {v}
Cancel    == told' = told \cup {"canceled"}

\* The accepted verdict, or a cancellation, reaches the run.
Grant == outcome = "open" /\ "approved" \in told /\ outcome' = "granted"
End   == \/ outcome = "open" /\ "rejected" \in told /\ outcome' = "ended"
         \/ "canceled" \in told /\ outcome' = "ended"

Next == \/ UNCHANGED outcome /\ (Cancel \/ \E v \in {"approved", "rejected"} : Decide(v))
        \/ UNCHANGED told /\ (Grant \/ End)

Spec == Init /\ [][Next]_<<told, outcome>>
=============================================================================
