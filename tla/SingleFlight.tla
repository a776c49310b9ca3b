---------------------------- MODULE SingleFlight ----------------------------
(* What every shared request of the clients promises: whoever asks while    *)
(* one is under way joins it, nobody starts a second one, and all who       *)
(* joined go on together when it lands.  The token refresh of the web and   *)
(* of the mobile client and the unit refresh of the web store implement it. *)
CONSTANT Callers

VARIABLES
  flight,   \* one is under way
  waiting   \* who waits for it

vars == <<flight, waiting>>

Init == flight = FALSE /\ waiting = {}

\* The request is sent, or joined, by some callers (or by nobody who waits).
Ask ==
  /\ flight' = TRUE
  /\ waiting' \in SUBSET Callers
  /\ waiting \subseteq waiting'

\* It lands, whatever came of it, for all who wait.
Land ==
  /\ flight
  /\ flight' = FALSE
  /\ waiting' = {}

Next == Ask \/ Land

Spec == Init /\ [][Next]_vars

=============================================================================
