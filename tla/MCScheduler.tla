---------------------------- MODULE MCScheduler -----------------------------
(* Two processors, one thread that delivers, and one routine, of a data    *)
(* visitor or of a task manager: a notification meets every location of    *)
(* the routine, of its creation, of its removal and of the shutdown. One   *)
(* priority (MCScheduler.cfg), or two, of which a processor passes one     *)
(* that is empty (MCTaskManagerWakeup.cfg).                                *)
EXTENDS Scheduler, TLC

CONSTANTS v, w
MCPrio == v :> 1 @@ w :> 0
MCOnePrio == v :> 0 @@ w :> 0
=============================================================================
