---------------------------- MODULE MCTaskReview ----------------------------
(* TLC instance of TaskReview: the calls are interchangeable. *)
EXTENDS TaskReview, TLC

CallSymmetry == Permutations(Txns)

=============================================================================
