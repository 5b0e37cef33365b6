------------------------ MODULE MCProjectionOutbox ------------------------
(* A run whose projections arrive, if not at once, and one whose projections *)
(* the dashboard refuses, or takes without an answer that arrives.           *)
EXTENDS ProjectionOutbox, TLC

CONSTANTS well, ill, loop, drain

Replies == well :> {"accepted", "transient"} @@ ill :> {"lost", "permanent"}
States  == well :> 2 @@ ill :> 1
=============================================================================
