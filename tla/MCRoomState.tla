---------------------------- MODULE MCRoomState -----------------------------
(* RoomState on small sets of rows.  Task and ticket rows are              *)
(* interchangeable: no definition orders or names one.                     *)
EXTENDS RoomState, TLC

\* What is written of tasks: a title of the user's own for repeated cleaning
\* and for other work, and the unit board's checkout title for either kind.
Written ==
  [title: Names, cleaning: {TRUE}, repeats: {TRUE}] \cup
  [title: Names \cup ({"checkout"} \X Rooms), cleaning: {FALSE},
   repeats: {FALSE}] \cup
  {BoardWork("checkout", r): r \in Rooms}

RowSymmetry == Permutations(Tasks) \cup Permutations(Tickets)

\* Rooms are interchangeable too, where no property singles one out.
RoomSymmetry == Permutations(Tasks) \cup Permutations(Rooms)

=============================================================================
