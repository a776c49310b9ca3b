----------------------------- MODULE RoomState ------------------------------
(***************************************************************************)
(* A room's materialised status and the records it is projected from.      *)
(*                                                                         *)
(* The backend stores rooms.status and keeps it in step with three other   *)
(* tables: the open occupancy (a guest), the tasks and the maintenance     *)
(* tickets of the room.  Every handler that touches one of the four is an  *)
(* action here, with every write of its transaction; a transaction is one  *)
(* step, so this module answers what the handlers do to each other in any  *)
(* serial order.  ResourceTxn opens the transactions up.                   *)
(*                                                                         *)
(* Left out: who calls (the role checks), the clock (an expired instance   *)
(* refuses a call, which a model may always do), evidence and history.     *)
(***************************************************************************)
EXTENDS ResourceDomain

CONSTANTS
  Rooms,    \* the rooms of one property
  Tasks,    \* slots for task rows: the bound on coexisting tasks
  Tickets,  \* slots for maintenance tickets
  Names,    \* titles that are nobody's but the user's
  Works,    \* what users and the scheduler make of a task
  NoRoom    \* the target of a task without one

\* What a task is, as far as a room can tell: its title, whether its work
\* type is cleaning and whether it repeats.  The unit board titles a cleaning
\* task by its label and the room's number.
Titles == ({"checkout", "cleaning"} \X Rooms) \cup Names
Kinds == [title: Titles, cleaning: BOOLEAN, repeats: BOOLEAN]
BoardWork(label, r) ==
  [title |-> <<label, r>>, cleaning |-> TRUE, repeats |-> FALSE]

ASSUME WorksAssumption == Works \subseteq Kinds
ASSUME NoRoomAssumption == NoRoom \notin Rooms

VARIABLES
  status,   \* rooms.status
  guest,    \* does the room have an open occupancy row?
  task,     \* the task rows
  ticket    \* the ticket rows

vars == <<status, guest, task, ticket>>

NoTask == [status |-> "none", room |-> NoRoom]
NoTicket == [status |-> "none", room |-> NoRoom]

\* Work and target can both be edited: nothing of a task is fixed for life.
TaskRow == [status: TaskStatuses, work: Kinds, room: Rooms \cup {NoRoom}]
           \cup {NoTask}
TicketRow == [status: TicketStatuses, room: Rooms] \cup {NoTicket}

TypeOK ==
  /\ status \in [Rooms -> RoomStatuses]
  /\ guest \in [Rooms -> BOOLEAN]
  /\ task \in [Tasks -> TaskRow]
  /\ ticket \in [Tickets -> TicketRow]

-----------------------------------------------------------------------------
(* Blocking queries and the projection.  The rows are parameters: a handler *)
(* evaluates them after its own pending writes have been flushed.           *)

TaskBlocks(r, tk, t) == tk[t].room = r /\ tk[t].status \in BlockingTask
HasTask(r, tk) == \E t \in Tasks: TaskBlocks(r, tk, t)

TicketBlocks(r, mt, m) ==
  mt[m].room = r /\ mt[m].status \in BlockingMaintenance
HasTicket(r, mt) == \E m \in Tickets: TicketBlocks(r, mt, m)

\* A resolver that forgets the occupancy axis.
BlindTarget(r, g, tk, mt) ==
  CASE HasTicket(r, mt) -> "maintenance"
    [] ~HasTicket(r, mt) /\ HasTask(r, tk) -> "cleaning"
    [] OTHER -> "available"

\* _resolve_leaf_target: maintenance, then cleaning, then the occupancy.
Target(r, g, tk, mt) ==
  CASE HasTicket(r, mt) -> "maintenance"
    [] ~HasTicket(r, mt) /\ HasTask(r, tk) -> "cleaning"
    [] OTHER -> IF g[r] THEN "occupied" ELSE "available"

\* derive(): a room of rs is recomputed, unless its status is not one that
\* work alone can release.
Derive(rs, g, tk, mt) ==
  [r \in Rooms |-> IF r \in rs /\ status[r] \in ReleaseEligible
                   THEN Target(r, g, tk, mt)
                   ELSE status[r]]

\* transition() as its callers use it to flag: an illegal flag is skipped.
Flag(rs, to, source) ==
  [r \in Rooms |-> IF r \in rs /\ IsLegal(status[r], to, source)
                   THEN to
                   ELSE status[r]]

\* uq_tasks_open_room_title: one open task per (room, title).
TitleFree(t, tk, r, title) ==
  \/ r = NoRoom
  \/ \A u \in Tasks \ {t}: TaskBlocks(r, tk, u) => tk[u].work.title # title

NewTask(st, work, r) == [status |-> st, work |-> work, room |-> r]

\* The unit board's cleaning task for r, unless an open one has its title.
WithCleaningTask(r, label, tk) ==
  IF \E t \in Tasks: TaskBlocks(r, tk, t) /\ tk[t].work.title = <<label, r>>
  THEN {tk}
  ELSE {[tk EXCEPT ![t] = NewTask(st, BoardWork(label, r), r)]:
          t \in {u \in Tasks: tk[u].status = "none"},
          st \in {"pending", "assigned"}}

Init ==
  /\ status = [r \in Rooms |-> "available"]
  /\ guest = [r \in Rooms |-> FALSE]
  /\ task = [t \in Tasks |-> NoTask]
  /\ ticket = [m \in Tickets |-> NoTicket]

-----------------------------------------------------------------------------
(* Occupancy *)

\* A front desk that asks only for a room without a guest.
HastyCheckIn(r) ==
  /\ status[r] # "occupied" /\ ~guest[r]
  /\ guest' = [guest EXCEPT ![r] = TRUE]
  /\ status' = [status EXCEPT ![r] = "occupied"]
  /\ UNCHANGED <<task, ticket>>

CheckIn(r) ==
  /\ status[r] = "available" /\ ~guest[r]
  /\ IsLegal("available", "occupied", "occupancy_checkin")
  /\ guest' = [guest EXCEPT ![r] = TRUE]
  /\ status' = [status EXCEPT ![r] = "occupied"]
  /\ UNCHANGED <<task, ticket>>

\* The occupancy closes, the cleaning task is spawned, then the room moves.
CheckOut(r) ==
  /\ guest[r] \/ status[r] = "occupied"
  /\ guest' = [guest EXCEPT ![r] = FALSE]
  /\ task' \in WithCleaningTask(r, "checkout", task)
  /\ status' = IF status[r] = "occupied"
               THEN [status EXCEPT ![r] = "cleaning"]
               ELSE Derive({r}, guest', task', ticket)
  /\ UNCHANGED ticket

-----------------------------------------------------------------------------
(* Task lifecycle *)

\* A task is created queued, and never flags its room.
CreateTask(t, r, work) ==
  /\ task[t].status = "none"
  /\ TitleFree(t, task, r, work.title)
  /\ \E st \in {"pending", "assigned", "scheduled"}:
       task' = [task EXCEPT ![t] = NewTask(st, work, r)]
  /\ UNCHANGED <<status, guest, ticket>>

\* A target is refused once work was started on it; the rest of a task is
\* never.  The old target is derived before the new title is written, so the
\* title the task had must be free there as well.
Editable(t, r, work) ==
  LET from == task[t].room
      free(title) == task[t].status \in BlockingTask =>
                       TitleFree(t, task, r, title) IN
  /\ task[t].status # "none"
  /\ r # from => task[t].status \notin {"in_progress", "submitted", "reopened"}
  /\ free(work.title)
  /\ r # from /\ from # NoRoom => free(task[t].work.title)

\* A new target that leaves the old one as it was.
StrandingUpdate(t, r, work) ==
  /\ Editable(t, r, work)
  /\ task' = [task EXCEPT ![t] = NewTask(task[t].status, work, r)]
  /\ UNCHANGED <<status, guest, ticket>>

\* The room is derived when the task leaves it, and at no other edit: work
\* that becomes cleaning while somebody is at it flags nothing.
UpdateTask(t, r, work) ==
  /\ Editable(t, r, work)
  /\ task' = [task EXCEPT ![t] = NewTask(task[t].status, work, r)]
  /\ status' = Derive({task[t].room} \ {r}, guest, task', ticket)
  /\ UNCHANGED <<guest, ticket>>

DeleteTask(t) ==
  /\ task[t].status # "none"
  /\ task' = [task EXCEPT ![t] = NoTask]
  /\ status' = Derive({task[t].room}, guest, task', ticket)
  /\ UNCHANGED <<guest, ticket>>

\* A start that leaves the flag to the first submission.
UnflaggedStart(t) ==
  /\ task[t].status \in {"pending", "assigned", "reopened"}
  /\ task' = [task EXCEPT ![t].status = "in_progress"]
  /\ UNCHANGED <<status, guest, ticket>>

\* Only a started cleaning task commits its room to cleaning.
StartTask(t) ==
  /\ task[t].status \in {"pending", "assigned", "reopened"}
  /\ task' = [task EXCEPT ![t].status = "in_progress"]
  /\ status' = IF task[t].work.cleaning
               THEN Flag({task[t].room}, "cleaning", "task_start")
               ELSE status
  /\ UNCHANGED <<guest, ticket>>

\* The employee delivers; the room is not touched, whatever the task was.
SubmitTask(t) ==
  /\ task[t].status \notin {"none", "submitted", "completed", "abandoned"}
  /\ task' = [task EXCEPT ![t].status = "submitted"]
  /\ UNCHANGED <<status, guest, ticket>>

\* The rows once t is completed, with the next instance of its series in a
\* row of its own or (schedule exhausted, slot already taken) without it.
WithSuccessor(t, tk) ==
  {tk} \cup
  {[tk EXCEPT ![u] = [tk[t] EXCEPT !.status = st]]:
     u \in {v \in Tasks: tk[v].status = "none" /\ tk[t].work.repeats /\
              TitleFree(v, tk, tk[t].room, tk[t].work.title)},
     st \in {"pending", "assigned"}}

\* The room is derived from the completed rows, before the successor is
\* inserted: a queued occurrence does not hold the room it will clean.
Finish(t) ==
  LET done == [task EXCEPT ![t].status = "completed"] IN
  /\ status' = Derive({task[t].room}, guest, done, ticket)
  /\ task' \in WithSuccessor(t, done)
  /\ UNCHANGED <<guest, ticket>>

\* Direct completion by the management.
CompleteTask(t) ==
  /\ task[t].status \notin {"none", "submitted", "completed", "abandoned"}
  /\ Finish(t)

\* An acknowledgement that frees the room without looking at other work.
RashAcknowledge(t) ==
  /\ task[t].status = "completed"
  /\ task[t].room \in {r \in Rooms: status[r] \in ReleaseEligible}
  /\ status' = [status EXCEPT ![task[t].room] =
                  IF guest[task[t].room] THEN "occupied" ELSE "available"]
  /\ UNCHANGED <<guest, task, ticket>>

\* A completed task may be acknowledged again while its room is held.
Acknowledge(t) ==
  /\ task[t].status = "completed"
  /\ task[t].room \in {r \in Rooms: status[r] \in ReleaseEligible}
  /\ status' = Derive({task[t].room}, guest, task, ticket)
  /\ UNCHANGED <<guest, task, ticket>>

ApproveTask(t) ==
  \/ task[t].status = "submitted" /\ Finish(t)
  \/ Acknowledge(t)

RejectTask(t) ==
  /\ task[t].status = "submitted"
  /\ task' = [task EXCEPT ![t].status = "reopened"]
  /\ status' = Derive({task[t].room}, guest, task', ticket)
  /\ UNCHANGED <<guest, ticket>>

\* Fails as a whole when another open task now holds the title.
ReopenTask(t) ==
  /\ task[t].status \in {"completed", "abandoned"}
  /\ TitleFree(t, task, task[t].room, task[t].work.title)
  /\ \E st \in {"pending", "assigned"}:
       task' = [task EXCEPT ![t].status = st]
  /\ status' = Derive({task[t].room}, guest, task', ticket)
  /\ UNCHANGED <<guest, ticket>>

RequestRedo(t) ==
  /\ task[t].status \notin {"none", "submitted", "completed", "abandoned"}
  /\ task' = [task EXCEPT ![t].status = "pending"]
  /\ status' = Derive({task[t].room}, guest, task', ticket)
  /\ UNCHANGED <<guest, ticket>>

\* The sweeps (daily rollover, occurrence expiry) close unfinished work with
\* one conditional UPDATE; the room is not derived.
Abandon(t) ==
  /\ task[t].status \in OpenStatuses
  /\ task' = [task EXCEPT ![t].status = "abandoned"]
  /\ UNCHANGED <<status, guest, ticket>>

-----------------------------------------------------------------------------
(* Maintenance tickets *)

CreateTicket(m, r) ==
  /\ ticket[m].status = "none"
  /\ \E st \in {"open", "assigned"}:
       ticket' = [ticket EXCEPT ![m] = [status |-> st, room |-> r]]
  /\ status' = Flag({r}, "maintenance", "ticket_created")
  /\ UNCHANGED <<guest, task>>

\* Assignment resets the workflow; an edit may do it to a resolved ticket.
AssignTicket(m) ==
  /\ ticket[m].status \in BlockingMaintenance
  /\ \E st \in {"open", "assigned"}:
       ticket' = [ticket EXCEPT ![m].status = st]
  /\ UNCHANGED <<status, guest, task>>

StartTicket(m) ==
  /\ ticket[m].status \in {"open", "assigned", "on_hold"}
  /\ ticket' = [ticket EXCEPT ![m].status = "in_progress"]
  /\ UNCHANGED <<status, guest, task>>

HoldTicket(m) ==
  /\ ticket[m].status \in {"open", "assigned", "in_progress"}
  /\ ticket' = [ticket EXCEPT ![m].status = "on_hold"]
  /\ UNCHANGED <<status, guest, task>>

\* Resolution alone never releases the room.
ResolveTicket(m) ==
  /\ ticket[m].status \in BlockingMaintenance \ {"resolved"}
  /\ ticket' = [ticket EXCEPT ![m].status = "resolved"]
  /\ UNCHANGED <<status, guest, task>>

\* The ticket goes back to work and its room is flagged again.
DisapproveTicket(m) ==
  /\ ticket[m].status = "resolved"
  /\ ticket' = [ticket EXCEPT ![m].status = "in_progress"]
  /\ status' = Flag({ticket[m].room}, "maintenance", "ticket_created")
  /\ UNCHANGED <<guest, task>>

CloseTicket(m) ==
  /\ ticket[m].status = "resolved"
  /\ ticket' = [ticket EXCEPT ![m].status = "closed"]
  /\ status' = Derive({ticket[m].room}, guest, task, ticket')
  /\ UNCHANGED <<guest, task>>

CancelTicket(m) ==
  /\ ticket[m].status \in BlockingMaintenance
  /\ ticket' = [ticket EXCEPT ![m].status = "cancelled"]
  /\ status' = Derive({ticket[m].room}, guest, task, ticket')
  /\ UNCHANGED <<guest, task>>

\* An active ticket is cancelled, its room derived, and the row removed.
DeleteTicket(m) ==
  /\ ticket[m].status # "none"
  /\ ticket' = [ticket EXCEPT ![m] = NoTicket]
  /\ status' = IF ticket[m].status \in BlockingMaintenance
               THEN Derive({ticket[m].room}, guest, task, ticket')
               ELSE status
  /\ UNCHANGED <<guest, task>>

-----------------------------------------------------------------------------
(* Unit board and administration *)

\* The request is the flag: a task is queued and the room goes cleaning.
BulkCleaning(r) ==
  /\ task' \in WithCleaningTask(r, "cleaning", task)
  /\ status' = IF status[r] \in {"available", "occupied"}
               THEN Flag({r}, "cleaning", "task_queued")
               ELSE status
  /\ UNCHANGED <<guest, ticket>>

\* Tasks closed with the status a ticket ends in.
MislabelledTasksClosed(r) ==
  [t \in Tasks |-> IF TaskBlocks(r, task, t)
                   THEN [task[t] EXCEPT !.status = "closed"]
                   ELSE task[t]]

TasksClosed(r) ==
  [t \in Tasks |-> IF TaskBlocks(r, task, t)
                   THEN [task[t] EXCEPT !.status = "completed"]
                   ELSE task[t]]

TicketsClosed(r) ==
  [m \in Tickets |-> IF TicketBlocks(r, ticket, m)
                     THEN [ticket[m] EXCEPT !.status = "closed"]
                     ELSE ticket[m]]

\* "available" and "cleaned" terminate all work on the room.  They differ on
\* an occupied room: "available" checks its guest out, "cleaned" skips it.
BulkRelease(r, action) ==
  /\ task' = TasksClosed(r)
  /\ ticket' = TicketsClosed(r)
  /\ IF status[r] = "occupied"
     THEN IF action = "available"
          THEN /\ status' = Flag({r}, "available", "admin_override")
               /\ guest' = [guest EXCEPT ![r] = FALSE]
          ELSE UNCHANGED <<status, guest>>
     ELSE /\ status' = Derive({r}, guest, task', ticket')
          /\ UNCHANGED guest

\* An override, not a ticket: nothing but the status changes.
BulkMaintenance(r) ==
  /\ status[r] # "occupied"
  /\ status' = Flag({r}, "maintenance", "admin_override")
  /\ UNCHANGED <<guest, task, ticket>>

\* The explicit transition: entering "available" is a checkout.
AdminTransition(r, to) ==
  /\ IsLegal(status[r], to, "admin_override")
  /\ status' = [status EXCEPT ![r] = to]
  /\ guest' = [guest EXCEPT ![r] = @ /\ to # "available"]
  /\ UNCHANGED <<task, ticket>>

\* Reconciliation repair: the projection is recomputed from any status.
Repair(r) ==
  /\ status' = [status EXCEPT ![r] = Target(r, guest, task, ticket)]
  /\ UNCHANGED <<guest, task, ticket>>

-----------------------------------------------------------------------------

RoomNext(r) ==
  \/ CheckIn(r)
  \/ CheckOut(r)
  \/ BulkCleaning(r)
  \/ \E action \in {"available", "cleaned"}: BulkRelease(r, action)
  \/ BulkMaintenance(r)
  \/ \E to \in RoomStatuses: AdminTransition(r, to)
  \/ Repair(r)

TaskNext(t) ==
  \/ \E r \in Rooms \cup {NoRoom}, work \in Works:
       CreateTask(t, r, work) \/ UpdateTask(t, r, work)
  \/ DeleteTask(t)
  \/ StartTask(t)
  \/ SubmitTask(t)
  \/ CompleteTask(t)
  \/ ApproveTask(t)
  \/ RejectTask(t)
  \/ ReopenTask(t)
  \/ RequestRedo(t)
  \/ Abandon(t)

TicketNext(m) ==
  \/ \E r \in Rooms: CreateTicket(m, r)
  \/ AssignTicket(m)
  \/ StartTicket(m)
  \/ HoldTicket(m)
  \/ ResolveTicket(m)
  \/ DisapproveTicket(m)
  \/ CloseTicket(m)
  \/ CancelTicket(m)
  \/ DeleteTicket(m)

Next ==
  \/ \E r \in Rooms: RoomNext(r)
  \/ \E t \in Tasks: TaskNext(t)
  \/ \E m \in Tickets: TicketNext(m)

Spec == Init /\ [][Next]_vars

-----------------------------------------------------------------------------
(* Properties *)

\* An occupied room has an open occupancy, and an open occupancy is never
\* under an available room: the projection and the record cannot diverge,
\* although a dozen handlers write one of the two (transition 187-209,
\* _release_axis).
OccupancyProjection ==
  \A r \in Rooms: /\ status[r] = "occupied" => guest[r]
                  /\ guest[r] => status[r] # "available"

\* Only an administrative transition takes a room with a blocking ticket
\* out of maintenance (or finds one there and leaves it unflagged): no task
\* verdict, checkout, sweep or repair may (flag_ticket_resource 107-153).
TicketHolds(r) == HasTicket(r, ticket) => status[r] = "maintenance"

TicketAuthority ==
  [][\A r \in Rooms: TicketHolds(r) /\ ~TicketHolds(r)' =>
       \E to \in RoomStatuses: AdminTransition(r, to)]_vars

\* A room somebody is cleaning is not on sale: once a cleaning task is in
\* progress its room stays cleaning or maintenance (start_task 790-805 and
\* every derive()), until an administrative transition says otherwise or
\* work already in progress there is edited into cleaning: update_task
\* 636-644 flags nothing.
UnderWay(r, tk) ==
  \E t \in Tasks: tk[t].room = r /\ tk[t].status = "in_progress"
                 /\ tk[t].work.cleaning
WorkHolds(r) == UnderWay(r, task) => status[r] \in ReleaseEligible

BecomesCleaning(t, r) ==
  /\ task[t].status = "in_progress" /\ task[t].room = r
  /\ ~task[t].work.cleaning
  /\ task'[t] = [task[t] EXCEPT !.work = task'[t].work]
  /\ task'[t].work.cleaning

WorkAuthority ==
  [][\A r \in Rooms: WorkHolds(r) /\ ~WorkHolds(r)' =>
       \/ \E to \in RoomStatuses: AdminTransition(r, to)
       \/ \E t \in Tasks: BecomesCleaning(t, r)]_vars

\* A room leaves cleaning or maintenance only when nothing that was open
\* still blocks it: approval of one task never outvotes another, and the
\* successor of a completed occurrence is the one row it may overlook.
CleanRelease ==
  [][\A r \in Rooms:
       /\ status[r] \in ReleaseEligible
       /\ status'[r] \notin ReleaseEligible
       => \/ /\ ~HasTicket(r, ticket')
             /\ \A t \in Tasks: TaskBlocks(r, task', t) =>
                                  task[t].status = "none"
          \/ AdminTransition(r, "available")]_vars

\* A room withheld for a reason keeps one as long as it is withheld: every
\* handler that ends, moves or removes work also derives the room.  Only
\* the sweeps and the overrides may strand it.
Reason(r) ==
  status[r] \in ReleaseEligible => HasTask(r, task) \/ HasTicket(r, ticket)

NoStranding ==
  [][\A r \in Rooms: Reason(r) /\ ~Reason(r)' =>
       \/ \E t \in Tasks: Abandon(t)
       \/ BulkMaintenance(r)
       \/ \E to \in RoomStatuses: AdminTransition(r, to)]_vars

\* The abstract front-desk contract, tasks and tickets hidden.
Stay == INSTANCE RoomStay WITH Rooms <- Rooms, status <- status, guest <- guest
StayContract == Stay!Spec

=============================================================================
