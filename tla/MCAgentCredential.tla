------------------------ MODULE MCAgentCredential ------------------------
(* One worker, one console and one page. *)
EXTENDS AgentCredential
CONSTANTS worker, console, page
=============================================================================
