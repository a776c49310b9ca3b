---------------------------- MODULE MCScheduler -----------------------------
(* Scheduler over a small calendar; the cfg files name the workers.        *)
EXTENDS Scheduler, TLC

=============================================================================
