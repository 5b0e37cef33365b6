------------------------------ MODULE MCWorker ------------------------------
(* The worker of a desktop, which rotates its credential, with two tasks of  *)
(* which the first may be offered twice.                                     *)
EXTENDS Worker, TLC

CONSTANT worker

Offers == 1 :> 2 @@ 2 :> 1
=============================================================================
