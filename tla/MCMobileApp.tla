---------------------------- MODULE MCMobileApp -----------------------------
(* MobileApp with a few requests. They are interchangeable, but the run      *)
(* checks liveness, so no symmetry is declared.                             *)
EXTENDS MobileApp, TLC

=============================================================================
