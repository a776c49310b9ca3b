---------------------------- MODULE MCUnitStore -----------------------------
(* UnitStore with the operations of WebCommands, as the lists of an         *)
(* instance see them.                                                       *)
EXTENDS UnitStore, TLC
W == INSTANCE WebCommands

\* Rooms and tasks: two polled lists, of which one holds units, and the
\* operations on rooms, in bulk and on the work of a room.
RoomsAndTasks == {"rooms", "tasks"}
RoomsOnly == {"rooms"}
RoomTaskCommands ==
  {W!Within(cmd, RoomsAndTasks) :
     cmd \in W!RoomCommands \cup W!BulkCommands
             \cup {c \in W!TaskCommands \cup W!ReviewCommands : c.asks = {RoomsOnly}}}
=============================================================================
