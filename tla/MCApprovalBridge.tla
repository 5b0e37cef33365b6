-------------------------- MODULE MCApprovalBridge --------------------------
(***************************************************************************)
(* Small instances of ApprovalBridge: two lives of the desktop, a window   *)
(* in each of them and a console elsewhere, and one waiting run.           *)
(***************************************************************************)
EXTENDS ApprovalBridge, TLC

CONSTANTS desk1, desk2, tool, a1, a2, window1, window2, console

\* One run with a coordinator in each life of the desktop.
OneRunHome == a1 :> desk1 @@ a2 :> desk2
OneRunId   == a1 :> a1 @@ a2 :> a1
Seats == window1 :> desk1 @@ window2 :> desk2 @@ console :> tool

AskOrGrant == [c \in Callers |-> {"manual", "approve"}]
=============================================================================
