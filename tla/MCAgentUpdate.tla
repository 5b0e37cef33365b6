--------------------------- MODULE MCAgentUpdate ---------------------------
(* An update that may fail, and one that follows it or overlaps it. *)
EXTENDS AgentUpdate
=============================================================================
