----------------------------- MODULE MCScreens ------------------------------
(* Two of everything that is picked, opened or switched between.           *)
EXTENDS Screens, TLC

Symmetry ==
  Permutations(Properties) \cup Permutations(Units)
    \cup Permutations(Tasks) \cup Permutations(Reviews)

=============================================================================
