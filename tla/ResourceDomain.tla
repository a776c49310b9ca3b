--------------------------- MODULE ResourceDomain ---------------------------
(***************************************************************************)
(* The canonical vocabulary of the resource-state engine: the statuses of  *)
(* each resource type, the statuses of the work that blocks a resource,    *)
(* and the table of legal transitions with its source gates.  There is no  *)
(* state here: every module of the project reads the same tables, as every *)
(* service of the backend imports the same domain package.                 *)
(***************************************************************************)

RoomStatuses == {"available", "occupied", "cleaning", "maintenance"}

\* Work statuses.  "none" is a row that does not exist (yet, or any more).
\* "overdue" and a task's "cancelled" are named by the code's sets, but no
\* handler ever writes them.
TaskStatuses == {"pending", "assigned", "scheduled", "in_progress",
                 "submitted", "reopened", "completed", "abandoned"}
TicketStatuses == {"open", "assigned", "in_progress", "on_hold", "resolved",
                   "closed", "cancelled"}

BlockingTask == {"pending", "assigned", "in_progress", "submitted",
                 "reopened", "scheduled", "overdue"}
BlockingMaintenance == {"open", "assigned", "in_progress", "on_hold",
                        "resolved"}

\* The statuses derive() may release a resource from.
ReleaseEligible == {"cleaning", "maintenance"}

\* The statuses the daily rollover may close, and those an occurrence
\* boundary may expire: delivered work ("submitted") outlives the latter.
OpenStatuses == {"pending", "assigned", "in_progress", "submitted",
                 "reopened", "overdue"}
ExpirableStatuses == OpenStatuses \ {"submitted"}

-----------------------------------------------------------------------------

\* The base graph: what a room may become.
RoomTransitions == [from \in RoomStatuses |->
  CASE from = "available" -> {"occupied", "cleaning", "maintenance"}
    [] from = "occupied" -> {"available", "cleaning", "maintenance"}
    [] from = "cleaning" -> {"available", "maintenance"}
    [] from = "maintenance" -> {"available"}]

\* The workflow sources a transition may be requested by.
Sources == {"occupancy_checkin", "occupancy_checkout", "admin_override",
            "task_start", "task_queued", "ticket_created"}

\* The gate of an edge: only these sources may commit it.  The gate on
\* entering "occupied" holds from every state; the other edges are open.
Gate(from, to) ==
  CASE to = "occupied" -> {"occupancy_checkin"}
    [] from = "occupied" /\ to = "available" ->
         {"occupancy_checkout", "admin_override"}
    [] from = "occupied" /\ to = "cleaning" ->
         {"occupancy_checkout", "admin_override", "task_start", "task_queued"}
    [] from \in {"occupied", "cleaning"} /\ to = "maintenance" ->
         {"ticket_created", "admin_override"}
    [] OTHER -> Sources

IsLegal(from, to, source) ==
  /\ to \in RoomTransitions[from]
  /\ source \in Gate(from, to)

=============================================================================
