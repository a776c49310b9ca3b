------------------------------ MODULE RoomStay ------------------------------
(***************************************************************************)
(* What the resource-state engine promises a front desk, with the tasks    *)
(* and tickets hidden: a guest arrives only in an available room, a room   *)
(* whose guest leaves is withheld until its work is done, a withheld room  *)
(* returns to whoever is recorded in it, and only an override ends a stay  *)
(* and puts the room back on sale in one step.                             *)
(***************************************************************************)
EXTENDS ResourceDomain

CONSTANT Rooms

VARIABLES status, guest

vars == <<status, guest>>

Init ==
  /\ status = [r \in Rooms |-> "available"]
  /\ guest = [r \in Rooms |-> FALSE]

Arrive(r) ==
  /\ status[r] = "available" /\ ~guest[r]
  /\ status' = [status EXCEPT ![r] = "occupied"]
  /\ guest' = [guest EXCEPT ![r] = TRUE]

Withhold(r, to) ==
  /\ status' = [status EXCEPT ![r] = to]
  /\ UNCHANGED guest

Leave(r, to) ==
  /\ guest[r]
  /\ status' = [status EXCEPT ![r] = to]
  /\ guest' = [guest EXCEPT ![r] = FALSE]

Return(r) ==
  /\ status[r] \in ReleaseEligible
  /\ status' = [status EXCEPT ![r] =
                  IF guest[r] THEN "occupied" ELSE "available"]
  /\ UNCHANGED guest

\* The Super Admin's force-release.
Evict(r) ==
  /\ status[r] # "available"
  /\ status' = [status EXCEPT ![r] = "available"]
  /\ guest' = [guest EXCEPT ![r] = FALSE]

Next == \E r \in Rooms:
  \/ Arrive(r)
  \/ \E to \in ReleaseEligible: Withhold(r, to) \/ Leave(r, to)
  \/ Return(r)
  \/ Evict(r)

Spec == Init /\ [][Next]_vars

=============================================================================
