---------------------------- MODULE MCApprovals ----------------------------
(***************************************************************************)
(* Small instances of Approvals.  desk1 and desk2 are two lives of the     *)
(* desktop process; tool is another process, such as an MCP server.  The   *)
(* workflow step asks under the same id in both lives of the desktop.      *)
(***************************************************************************)
EXTENDS Approvals

CONSTANTS desk1, desk2, tool, flow1, flow2, call1, window

TwoLives == flow1 :> desk1 @@ flow2 :> desk2 @@ call1 :> tool
Together == flow1 :> desk1 @@ flow2 :> desk2 @@ call1 :> desk2
FlowIds  == flow1 :> flow1 @@ flow2 :> flow1 @@ call1 :> call1

Ask3 == [c \in Callers |-> {"manual"}]
Rules == [c \in Callers |-> IF c \in Stable THEN {"manual"} ELSE {"manual", "approve", "deny"}]

\* A person at the window of the second desktop.
OneWindow == window :> desk2
=============================================================================
