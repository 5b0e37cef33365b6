-------------------------- MODULE MCWorkflowRunner --------------------------
(***************************************************************************)
(* Small instances of WorkflowRunner.  Step 1 is an ordinary step, step 2  *)
(* depends on it and requires approval, and later steps depend on step 2.  *)
(***************************************************************************)
EXTENDS WorkflowRunner, TLC

CONSTANTS p1, p2, w1, w2, user, sweeper

ChainDeps == [s \in Steps |-> IF s = 1 THEN {} ELSE {s - 1}]
\* Every step depends on all steps before it.
AllBefore == [s \in Steps |-> 1..(s - 1)]

\* Each approval id ends with the id of its own step only.
DistinctIds == {<<s, s>> : s \in Steps}

TwoProcs == w1 :> p1 @@ w2 :> p2
OneProc  == w1 :> p1 @@ w2 :> p1

Person == {"approve", "reject", "cancel"}
DeciderAndSweep == user :> {"approve", "cancel"} @@ sweeper :> {"abandon"}
Everybody == user :> Person \cup {"recover", "force"} @@ sweeper :> {"abandon"}
RecoverAndSweep == user :> Person \cup {"recover"} @@ sweeper :> {"abandon"}
=============================================================================
