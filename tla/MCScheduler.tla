---------------------------- MODULE MCScheduler ----------------------------
(* Two schedules of one workflow that are due together, one client, and a     *)
(* person who starts the workflow as well.                                    *)
EXTENDS Scheduler

CONSTANTS flow1, window

OneFlow == <<flow1, flow1>>
Rates   == <<2, 2>>
=============================================================================
