--------------------------- MODULE MCResourceTxn ----------------------------
(* ResourceTxn with a few requests; requests and tickets are               *)
(* interchangeable.                                                        *)
EXTENDS ResourceTxn, TLC

Requests == Permutations(Txns) \cup Permutations(Tickets)

=============================================================================
