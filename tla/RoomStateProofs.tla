-------------------------- MODULE RoomStateProofs ---------------------------
(***************************************************************************)
(* RoomState for any number of rooms, tasks and tickets.                   *)
(*                                                                         *)
(* Every handler ends in one of three writes of rooms.status: a derive, a  *)
(* flag, or an explicit value.  The first section proves once what derive  *)
(* and flag return; the theorems then go through the handlers by name.     *)
(***************************************************************************)
EXTENDS RoomState, TLAPS

-----------------------------------------------------------------------------
(* What derive, flag and the row updates return *)

\* A task row that exists.
TaskRecord ==
  [status: TaskStatuses, work: Kinds, room: Rooms \cup {NoRoom}]

LEMMA TargetStatus ==
  ASSUME NEW r, NEW g, NEW tk, NEW mt
  PROVE  /\ Target(r, g, tk, mt) \in RoomStatuses
         /\ HasTicket(r, mt) => Target(r, g, tk, mt) = "maintenance"
         /\ ~HasTicket(r, mt) /\ HasTask(r, tk) =>
              Target(r, g, tk, mt) = "cleaning"
         /\ ~HasTicket(r, mt) /\ ~HasTask(r, tk) =>
              Target(r, g, tk, mt) = IF g[r] THEN "occupied" ELSE "available"
  <1>1. CASE HasTicket(r, mt)
    BY <1>1 DEF Target, RoomStatuses
  <1>2. CASE ~HasTicket(r, mt) /\ HasTask(r, tk)
    BY <1>2 DEF Target, RoomStatuses
  <1>3. CASE ~HasTicket(r, mt) /\ ~HasTask(r, tk)
    BY <1>3 DEF Target, RoomStatuses
  <1> QED BY <1>1, <1>2, <1>3

LEMMA DeriveType ==
  ASSUME TypeOK, NEW rs, NEW g, NEW tk, NEW mt
  PROVE  Derive(rs, g, tk, mt) \in [Rooms -> RoomStatuses]
  BY TargetStatus DEF TypeOK, Derive

LEMMA FlagType ==
  ASSUME TypeOK, NEW rs, NEW to \in RoomStatuses, NEW source
  PROVE  Flag(rs, to, source) \in [Rooms -> RoomStatuses]
  BY DEF TypeOK, Flag

\* A row that exists keeps its shape when its status or its room changes.
LEMMA TaskRowUpdate ==
  ASSUME TypeOK, NEW t \in Tasks, task[t].status # "none"
  PROVE  /\ task[t] \in TaskRecord
         /\ \A st \in TaskStatuses:
              [task EXCEPT ![t].status = st] \in [Tasks -> TaskRow]
         /\ \A r \in Rooms \cup {NoRoom}, work \in Kinds:
              [task EXCEPT ![t] = NewTask(task[t].status, work, r)]
                \in [Tasks -> TaskRow]
  <1>1. task[t] \in TaskRecord
    BY DEF TypeOK, TaskRow, NoTask, TaskRecord
  <1> QED BY <1>1 DEF TypeOK, TaskRow, TaskRecord, NewTask

LEMMA TicketRowUpdate ==
  ASSUME TypeOK, NEW m \in Tickets, ticket[m].status # "none"
  PROVE  /\ ticket[m] \in [status: TicketStatuses, room: Rooms]
         /\ \A st \in TicketStatuses:
              [ticket EXCEPT ![m].status = st] \in [Tickets -> TicketRow]
  <1>1. ticket[m] \in [status: TicketStatuses, room: Rooms]
    BY DEF TypeOK, TicketRow, NoTicket
  <1> QED BY <1>1 DEF TypeOK, TicketRow

LEMMA CleaningTaskType ==
  ASSUME TypeOK, NEW r \in Rooms, NEW label \in {"checkout", "cleaning"},
         NEW tk \in WithCleaningTask(r, label, task)
  PROVE  tk \in [Tasks -> TaskRow]
  <1>1. BoardWork(label, r) \in Kinds
    BY DEF BoardWork, Kinds, Titles
  <1>2. \A st \in {"pending", "assigned"}:
          NewTask(st, BoardWork(label, r), r) \in TaskRow
    BY <1>1 DEF NewTask, TaskRow, TaskStatuses
  <1> QED BY <1>2 DEF WithCleaningTask, TypeOK

LEMMA SuccessorType ==
  ASSUME NEW t \in Tasks, NEW tk \in [Tasks -> TaskRow],
         tk[t] \in TaskRecord,
         NEW nk \in WithSuccessor(t, tk)
  PROVE  nk \in [Tasks -> TaskRow]
  <1>1. \A st \in {"pending", "assigned"}:
          [tk[t] EXCEPT !.status = st] \in TaskRow
    BY DEF TaskRow, TaskRecord, TaskStatuses
  <1> QED BY <1>1 DEF WithSuccessor

\* An edit derives the room the task leaves, and no other.
LEMMA UpdateDerives ==
  ASSUME TypeOK, NEW t \in Tasks, NEW r \in Rooms \cup {NoRoom}, NEW work,
         UpdateTask(t, r, work)
  PROVE  \/ r = task[t].room /\ UNCHANGED status
         \/ /\ r # task[t].room
            /\ task[t].status # "in_progress"
            /\ status' = Derive({task[t].room}, guest, task', ticket)
  <1>1. CASE r = task[t].room
    <2>1. {task[t].room} \ {r} = {}
      BY <1>1
    <2>2. Derive({}, guest, task', ticket) = status
      BY DEF Derive, TypeOK
    <2> QED BY <1>1, <2>1, <2>2 DEF UpdateTask
  <1>2. CASE r # task[t].room
    <2>1. {task[t].room} \ {r} = {task[t].room}
      BY <1>2
    <2> QED BY <1>2, <2>1 DEF UpdateTask, Editable
  <1> QED BY <1>1, <1>2

-----------------------------------------------------------------------------
(* Type correctness *)

\* Every reachable state of the rows and the projection is well typed.
THEOREM TypeCorrect == Spec => []TypeOK
  <1>1. Init => TypeOK
    BY DEF Init, TypeOK, TaskRow, TicketRow, RoomStatuses
  <1>2. TypeOK /\ [Next]_vars => TypeOK'
    <2> SUFFICES ASSUME TypeOK, [Next]_vars PROVE TypeOK'
      OBVIOUS
    <2>1. ASSUME NEW r \in Rooms, RoomNext(r) PROVE TypeOK'
      <3>1. CASE CheckIn(r)
        BY <3>1 DEF CheckIn, TypeOK, RoomStatuses
      <3>2. CASE CheckOut(r)
        <4>1. task' \in [Tasks -> TaskRow]
          BY <3>2, CleaningTaskType DEF CheckOut
        <4>2. status' \in [Rooms -> RoomStatuses]
          <5>1. CASE status[r] = "occupied"
            BY <3>2, <5>1 DEF CheckOut, TypeOK, RoomStatuses
          <5>2. CASE status[r] # "occupied"
            BY <3>2, <5>2, DeriveType DEF CheckOut
          <5> QED BY <5>1, <5>2
        <4> QED BY <3>2, <4>1, <4>2 DEF CheckOut, TypeOK
      <3>3. CASE BulkCleaning(r)
        <4>1. task' \in [Tasks -> TaskRow]
          BY <3>3, CleaningTaskType DEF BulkCleaning
        <4>2. status' \in [Rooms -> RoomStatuses]
          BY <3>3, FlagType DEF BulkCleaning, TypeOK, RoomStatuses
        <4> QED BY <3>3, <4>1, <4>2 DEF BulkCleaning, TypeOK
      <3>4. ASSUME NEW action \in {"available", "cleaned"},
                   BulkRelease(r, action)
            PROVE  TypeOK'
        <4>1. TasksClosed(r) \in [Tasks -> TaskRow]
          <5>1. ASSUME NEW t \in Tasks, TaskBlocks(r, task, t)
                PROVE  [task[t] EXCEPT !.status = "completed"] \in TaskRow
            <6>1. task[t].status # "none"
              BY <5>1 DEF TaskBlocks, BlockingTask
            <6> QED BY <6>1, TaskRowUpdate DEF TaskRow, TaskRecord, TaskStatuses
          <5> QED BY <5>1 DEF TasksClosed, TypeOK
        <4>2. TicketsClosed(r) \in [Tickets -> TicketRow]
          <5>1. ASSUME NEW m \in Tickets, TicketBlocks(r, ticket, m)
                PROVE  [ticket[m] EXCEPT !.status = "closed"] \in TicketRow
            <6>1. ticket[m].status # "none"
              BY <5>1 DEF TicketBlocks, BlockingMaintenance
            <6> QED BY <6>1, TicketRowUpdate DEF TicketRow, TicketStatuses
          <5> QED BY <5>1 DEF TicketsClosed, TypeOK
        <4>3. status' \in [Rooms -> RoomStatuses]
          <5>1. CASE status' = Flag({r}, "available", "admin_override")
            BY <5>1, FlagType DEF RoomStatuses
          <5>2. CASE UNCHANGED status
            BY <5>2 DEF TypeOK
          <5>3. CASE status' = Derive({r}, guest, task', ticket')
            BY <5>3, DeriveType
          <5> QED BY <3>4, <5>1, <5>2, <5>3 DEF BulkRelease
        <4>4. guest' \in [Rooms -> BOOLEAN]
          BY <3>4 DEF BulkRelease, TypeOK
        <4> QED BY <3>4, <4>1, <4>2, <4>3, <4>4 DEF BulkRelease, TypeOK
      <3>5. CASE BulkMaintenance(r)
        BY <3>5, FlagType DEF BulkMaintenance, TypeOK, RoomStatuses
      <3>6. ASSUME NEW to \in RoomStatuses, AdminTransition(r, to)
            PROVE  TypeOK'
        BY <3>6 DEF AdminTransition, TypeOK
      <3>7. CASE Repair(r)
        BY <3>7, TargetStatus DEF Repair, TypeOK
      <3> QED BY <2>1, <3>1, <3>2, <3>3, <3>4, <3>5, <3>6, <3>7 DEF RoomNext
    <2>2. ASSUME NEW t \in Tasks, TaskNext(t) PROVE TypeOK'
      <3>1. ASSUME NEW r \in Rooms \cup {NoRoom}, NEW work \in Works,
                   CreateTask(t, r, work)
            PROVE  TypeOK'
        <4>1. \A st \in {"pending", "assigned", "scheduled"}:
                NewTask(st, work, r) \in TaskRow
          BY WorksAssumption DEF NewTask, TaskRow, TaskStatuses
        <4> QED BY <3>1, <4>1 DEF CreateTask, TypeOK
      <3>2. ASSUME NEW r \in Rooms \cup {NoRoom}, NEW work \in Works,
                   UpdateTask(t, r, work)
            PROVE  TypeOK'
        <4>1. task[t].status # "none"
          BY <3>2 DEF UpdateTask, Editable
        <4>2. task' \in [Tasks -> TaskRow]
          BY <3>2, <4>1, TaskRowUpdate, WorksAssumption DEF UpdateTask
        <4> QED BY <3>2, <4>2, DeriveType DEF UpdateTask, TypeOK
      <3>3. CASE DeleteTask(t)
        BY <3>3, DeriveType DEF DeleteTask, TypeOK, TaskRow
      <3>4. CASE StartTask(t)
        <4>1. task' \in [Tasks -> TaskRow]
          BY <3>4, TaskRowUpdate DEF StartTask, TaskStatuses
        <4>2. status' \in [Rooms -> RoomStatuses]
          BY <3>4, FlagType DEF StartTask, TypeOK, RoomStatuses
        <4> QED BY <3>4, <4>1, <4>2 DEF StartTask, TypeOK
      <3>5. CASE SubmitTask(t)
        BY <3>5, TaskRowUpdate DEF SubmitTask, TypeOK, TaskStatuses
      <3>6. ASSUME task[t].status # "none", Finish(t) PROVE TypeOK'
        <4> DEFINE done == [task EXCEPT ![t].status = "completed"]
        <4>1. done \in [Tasks -> TaskRow]
          BY <3>6, TaskRowUpdate DEF TaskStatuses
        <4>2. done[t] = [task[t] EXCEPT !.status = "completed"]
          BY DEF TypeOK
        <4>3. done[t] \in TaskRecord
          BY <3>6, <4>2, TaskRowUpdate DEF TaskRecord, TaskStatuses
        <4>4. task' \in WithSuccessor(t, done)
          BY <3>6 DEF Finish
        <4>5. task' \in [Tasks -> TaskRow]
          BY <4>1, <4>3, <4>4, SuccessorType
        <4>6. status' \in [Rooms -> RoomStatuses]
          BY <3>6, DeriveType DEF Finish
        <4> QED BY <3>6, <4>5, <4>6 DEF Finish, TypeOK
      <3>7. CASE CompleteTask(t)
        BY <3>6, <3>7 DEF CompleteTask
      <3>8. CASE ApproveTask(t)
        <4>1. CASE Acknowledge(t)
          BY <4>1, DeriveType DEF Acknowledge, TypeOK
        <4> QED BY <3>6, <3>8, <4>1 DEF ApproveTask
      <3>9. CASE RejectTask(t)
        BY <3>9, TaskRowUpdate, DeriveType DEF RejectTask, TypeOK, TaskStatuses
      <3>10. CASE ReopenTask(t)
        <4>1. task[t].status # "none"
          BY <3>10 DEF ReopenTask
        <4>2. PICK st \in {"pending", "assigned"}:
                task' = [task EXCEPT ![t].status = st]
          BY <3>10 DEF ReopenTask
        <4>3. task' \in [Tasks -> TaskRow]
          BY <4>1, <4>2, TaskRowUpdate DEF TaskStatuses
        <4> QED BY <3>10, <4>3, DeriveType DEF ReopenTask, TypeOK
      <3>11. CASE RequestRedo(t)
        BY <3>11, TaskRowUpdate, DeriveType
           DEF RequestRedo, TypeOK, TaskStatuses
      <3>12. CASE Abandon(t)
        BY <3>12, TaskRowUpdate
           DEF Abandon, TypeOK, TaskStatuses, OpenStatuses
      <3> QED BY <2>2, <3>1, <3>2, <3>3, <3>4, <3>5, <3>7, <3>8, <3>9,
                 <3>10, <3>11, <3>12 DEF TaskNext
    <2>3. ASSUME NEW m \in Tickets, TicketNext(m) PROVE TypeOK'
      <3>1. ASSUME NEW r \in Rooms, CreateTicket(m, r) PROVE TypeOK'
        <4>1. ticket' \in [Tickets -> TicketRow]
          BY <3>1 DEF CreateTicket, TypeOK, TicketRow, TicketStatuses
        <4> QED BY <3>1, <4>1, FlagType
                DEF CreateTicket, TypeOK, RoomStatuses
      <3>2. CASE AssignTicket(m)
        <4>1. ticket[m].status # "none"
          BY <3>2 DEF AssignTicket, BlockingMaintenance
        <4>2. PICK st \in {"open", "assigned"}:
                ticket' = [ticket EXCEPT ![m].status = st]
          BY <3>2 DEF AssignTicket
        <4>3. ticket' \in [Tickets -> TicketRow]
          BY <4>1, <4>2, TicketRowUpdate DEF TicketStatuses
        <4> QED BY <3>2, <4>3 DEF AssignTicket, TypeOK
      <3>3. CASE StartTicket(m)
        BY <3>3, TicketRowUpdate DEF StartTicket, TypeOK, TicketStatuses
      <3>4. CASE HoldTicket(m)
        BY <3>4, TicketRowUpdate DEF HoldTicket, TypeOK, TicketStatuses
      <3>5. CASE ResolveTicket(m)
        BY <3>5, TicketRowUpdate
           DEF ResolveTicket, TypeOK, TicketStatuses, BlockingMaintenance
      <3>6. CASE DisapproveTicket(m)
        BY <3>6, TicketRowUpdate, FlagType
           DEF DisapproveTicket, TypeOK, TicketStatuses, RoomStatuses
      <3>7. CASE CloseTicket(m)
        BY <3>7, TicketRowUpdate, DeriveType
           DEF CloseTicket, TypeOK, TicketStatuses
      <3>8. CASE CancelTicket(m)
        BY <3>8, TicketRowUpdate, DeriveType
           DEF CancelTicket, TypeOK, TicketStatuses, BlockingMaintenance
      <3>9. CASE DeleteTicket(m)
        <4>1. ticket' \in [Tickets -> TicketRow]
          BY <3>9 DEF DeleteTicket, TypeOK, TicketRow
        <4>2. status' \in [Rooms -> RoomStatuses]
          BY <3>9, DeriveType DEF DeleteTicket, TypeOK
        <4> QED BY <3>9, <4>1, <4>2 DEF DeleteTicket, TypeOK
      <3> QED BY <2>3, <3>1, <3>2, <3>3, <3>4, <3>5, <3>6, <3>7, <3>8, <3>9
              DEF TicketNext
    <2>4. CASE UNCHANGED vars
      BY <2>4 DEF vars, TypeOK
    <2> QED BY <2>1, <2>2, <2>3, <2>4 DEF Next
  <1> QED BY <1>1, <1>2, PTL DEF Spec

-----------------------------------------------------------------------------
(* The projection and the occupancy record *)

\* The agreement of a projection st with the open occupancies g.
Agree(st, g) ==
  \A r \in Rooms: /\ st[r] = "occupied" => g[r]
                  /\ g[r] => st[r] # "available"

\* derive never disagrees with the occupancies it was given, provided the
\* rooms it leaves alone agree already.
LEMMA DeriveAgrees ==
  ASSUME NEW rs, NEW g, NEW tk, NEW mt, Agree(status, g)
  PROVE  Agree(Derive(rs, g, tk, mt), g)
  <1> SUFFICES ASSUME NEW r \in Rooms
               PROVE  /\ Derive(rs, g, tk, mt)[r] = "occupied" => g[r]
                      /\ g[r] => Derive(rs, g, tk, mt)[r] # "available"
    BY DEF Agree
  <1>1. CASE r \in rs /\ status[r] \in ReleaseEligible
    <2>1. Derive(rs, g, tk, mt)[r] = Target(r, g, tk, mt)
      BY <1>1 DEF Derive
    <2> QED BY <2>1, TargetStatus
  <1>2. CASE ~(r \in rs /\ status[r] \in ReleaseEligible)
    <2>1. Derive(rs, g, tk, mt)[r] = status[r]
      BY <1>2 DEF Derive
    <2> QED BY <2>1 DEF Agree
  <1> QED BY <1>1, <1>2

\* Withholding a room never makes the two disagree.
LEMMA FlagAgrees ==
  ASSUME NEW rs, NEW source, NEW to \in ReleaseEligible, Agree(status, guest)
  PROVE  Agree(Flag(rs, to, source), guest)
  BY DEF Agree, Flag, ReleaseEligible

\* Every handler keeps the projection in agreement with the open
\* occupancies, whatever the work on the room.
THEOREM ProjectionAgrees == Spec => []OccupancyProjection
  <1>1. Init => OccupancyProjection
    BY DEF Init, OccupancyProjection
  <1>2. TypeOK /\ OccupancyProjection /\ [Next]_vars => OccupancyProjection'
    <2> SUFFICES ASSUME TypeOK, Agree(status, guest), [Next]_vars
                 PROVE  Agree(status, guest)'
      BY DEF OccupancyProjection, Agree
    <2>1. CASE UNCHANGED <<status, guest>>
      BY <2>1 DEF Agree
    <2>2. ASSUME NEW rs, NEW tk, NEW mt,
                 status' = Derive(rs, guest, tk, mt), UNCHANGED guest
          PROVE  Agree(status, guest)'
      BY <2>2, DeriveAgrees DEF Agree
    <2>3. ASSUME NEW rs, NEW to \in ReleaseEligible, NEW source,
                 status' = Flag(rs, to, source), UNCHANGED guest
          PROVE  Agree(status, guest)'
      BY <2>3, FlagAgrees DEF Agree
    <2>4. ASSUME NEW r \in Rooms, RoomNext(r) PROVE Agree(status, guest)'
      <3>1. CASE CheckIn(r)
        BY <3>1 DEF CheckIn, Agree, TypeOK
      <3>2. CASE CheckOut(r)
        <4>1. CASE status[r] = "occupied"
          BY <3>2, <4>1 DEF CheckOut, Agree, TypeOK
        <4>2. CASE status[r] # "occupied"
          <5>1. Agree(status, guest')
            BY <3>2, <4>2 DEF CheckOut, Agree, TypeOK
          <5>2. status' = Derive({r}, guest', task', ticket)
            BY <3>2, <4>2 DEF CheckOut
          <5>3. Agree(status', guest')
            BY <5>1, <5>2, DeriveAgrees
          <5> QED BY <5>3 DEF Agree
        <4> QED BY <4>1, <4>2
      <3>3. CASE BulkCleaning(r)
        BY <2>1, <2>3, <3>3 DEF BulkCleaning, ReleaseEligible
      <3>4. ASSUME NEW action \in {"available", "cleaned"},
                   BulkRelease(r, action)
            PROVE  Agree(status, guest)'
        <4>1. CASE status[r] = "occupied" /\ action = "available"
          <5>1. IsLegal("occupied", "available", "admin_override")
            BY DEF IsLegal, RoomTransitions, Gate, RoomStatuses
          <5>2. status' = [status EXCEPT ![r] = "available"]
            BY <3>4, <4>1, <5>1 DEF BulkRelease, Flag, TypeOK
          <5>3. guest' = [guest EXCEPT ![r] = FALSE]
            BY <3>4, <4>1 DEF BulkRelease
          <5> QED BY <5>2, <5>3 DEF Agree, TypeOK
        <4>2. CASE status[r] = "occupied" /\ action # "available"
          BY <2>1, <3>4, <4>2 DEF BulkRelease
        <4>3. CASE status[r] # "occupied"
          BY <2>2, <3>4, <4>3 DEF BulkRelease
        <4> QED BY <4>1, <4>2, <4>3
      <3>5. CASE BulkMaintenance(r)
        BY <2>3, <3>5 DEF BulkMaintenance, ReleaseEligible
      <3>6. ASSUME NEW to \in RoomStatuses, AdminTransition(r, to)
            PROVE  Agree(status, guest)'
        <4>1. to # "occupied"
          BY <3>6 DEF AdminTransition, IsLegal, Gate
        <4> QED BY <3>6, <4>1 DEF AdminTransition, Agree, TypeOK
      <3>7. CASE Repair(r)
        BY <3>7, TargetStatus DEF Repair, Agree, TypeOK
      <3> QED BY <2>4, <3>1, <3>2, <3>3, <3>4, <3>5, <3>6, <3>7 DEF RoomNext
    <2>5. ASSUME NEW t \in Tasks, TaskNext(t) PROVE Agree(status, guest)'
      <3>1. ASSUME NEW r \in Rooms \cup {NoRoom}, NEW work \in Works,
                   CreateTask(t, r, work)
            PROVE  Agree(status, guest)'
        BY <2>1, <3>1 DEF CreateTask
      <3>2. ASSUME NEW r \in Rooms \cup {NoRoom}, NEW work \in Works,
                   UpdateTask(t, r, work)
            PROVE  Agree(status, guest)'
        BY <2>2, <3>2 DEF UpdateTask
      <3>3. CASE DeleteTask(t)
        BY <2>2, <3>3 DEF DeleteTask
      <3>4. CASE StartTask(t)
        BY <2>1, <2>3, <3>4 DEF StartTask, ReleaseEligible
      <3>5. CASE SubmitTask(t) \/ Abandon(t)
        BY <2>1, <3>5 DEF SubmitTask, Abandon
      <3>6. CASE CompleteTask(t) \/ ApproveTask(t)
        BY <2>2, <3>6 DEF CompleteTask, ApproveTask, Finish, Acknowledge
      <3>7. CASE RejectTask(t) \/ ReopenTask(t) \/ RequestRedo(t)
        BY <2>2, <3>7 DEF RejectTask, ReopenTask, RequestRedo
      <3> QED BY <2>5, <3>1, <3>2, <3>3, <3>4, <3>5, <3>6, <3>7 DEF TaskNext
    <2>6. ASSUME NEW m \in Tickets, TicketNext(m) PROVE Agree(status, guest)'
      <3>1. ASSUME NEW r \in Rooms, CreateTicket(m, r)
            PROVE  Agree(status, guest)'
        BY <2>3, <3>1 DEF CreateTicket, ReleaseEligible
      <3>2. CASE \/ AssignTicket(m) \/ StartTicket(m) \/ HoldTicket(m)
                 \/ ResolveTicket(m)
        BY <2>1, <3>2
           DEF AssignTicket, StartTicket, HoldTicket, ResolveTicket
      <3>3. CASE DisapproveTicket(m)
        BY <2>3, <3>3 DEF DisapproveTicket, ReleaseEligible
      <3>4. CASE CloseTicket(m) \/ CancelTicket(m) \/ DeleteTicket(m)
        BY <2>1, <2>2, <3>4 DEF CloseTicket, CancelTicket, DeleteTicket
      <3> QED BY <2>6, <3>1, <3>2, <3>3, <3>4 DEF TicketNext
    <2>7. CASE UNCHANGED vars
      BY <2>1, <2>7 DEF vars
    <2> QED BY <2>4, <2>5, <2>6, <2>7 DEF Next
  <1> QED BY <1>1, <1>2, TypeCorrect, PTL DEF Spec

-----------------------------------------------------------------------------
(* A blocking ticket keeps its room in maintenance *)

\* Derivation never takes a room out of maintenance under a ticket.
LEMMA DeriveHolds ==
  ASSUME NEW r \in Rooms, NEW rs, NEW g, NEW tk, NEW mt,
         HasTicket(r, mt), status[r] = "maintenance"
  PROVE  Derive(rs, g, tk, mt)[r] = "maintenance"
  BY TargetStatus DEF Derive

\* Nor does any flag but the release of an administrator.
LEMMA FlagHolds ==
  ASSUME NEW r \in Rooms, NEW rs, NEW to \in ReleaseEligible, NEW source,
         status[r] = "maintenance"
  PROVE  Flag(rs, to, source)[r] = "maintenance"
  BY DEF Flag, IsLegal, RoomTransitions, RoomStatuses, ReleaseEligible

\* A workflow step of a blocking ticket makes no room blocked that was not.
LEMMA TicketStepKeeps ==
  ASSUME TypeOK, NEW m \in Tickets, NEW r \in Rooms, NEW st,
         ticket[m].status \in BlockingMaintenance,
         HasTicket(r, [ticket EXCEPT ![m].status = st])
  PROVE  HasTicket(r, ticket)
  <1> DEFINE mt == [ticket EXCEPT ![m].status = st]
  <1>1. PICK n \in Tickets: TicketBlocks(r, mt, n)
    BY DEF HasTicket
  <1>2. CASE n = m
    <2>1. ticket[m].status # "none"
      BY DEF BlockingMaintenance
    <2>2. mt[m].room = ticket[m].room
      BY <2>1, TicketRowUpdate DEF TypeOK
    <2> QED BY <1>1, <1>2, <2>2 DEF HasTicket, TicketBlocks
  <1>3. CASE n # m
    <2>1. mt[n] = ticket[n]
      BY <1>3 DEF TypeOK
    <2> QED BY <1>1, <2>1 DEF HasTicket, TicketBlocks
  <1> QED BY <1>2, <1>3

\* No handler but the administrative transition leaves a blocking ticket
\* over a room that is not in maintenance.
THEOREM TicketsHold == Spec => TicketAuthority
  <1> DEFINE Authority ==
        \A r \in Rooms: TicketHolds(r) /\ ~TicketHolds(r)' =>
          \E to \in RoomStatuses: AdminTransition(r, to)
  <1>1. TypeOK /\ [Next]_vars => [Authority]_vars
    <2> SUFFICES ASSUME TypeOK, Next, NEW r \in Rooms, TicketHolds(r),
                        ~\E to \in RoomStatuses: AdminTransition(r, to),
                        HasTicket(r, ticket')
                 PROVE  status'[r] = "maintenance"
      BY DEF TicketHolds
    <2>0. HasTicket(r, ticket) => status[r] = "maintenance"
      BY DEF TicketHolds
    <2>1. ASSUME UNCHANGED ticket, status'[r] = status[r]
          PROVE  status'[r] = "maintenance"
      BY <2>0, <2>1
    <2>2. ASSUME HasTicket(r, ticket), NEW rs, NEW g, NEW tk,
                 status' = Derive(rs, g, tk, ticket')
          PROVE  status'[r] = "maintenance"
      BY <2>0, <2>2, DeriveHolds
    <2>3. ASSUME HasTicket(r, ticket), NEW rs, NEW to \in ReleaseEligible,
                 NEW source, status' = Flag(rs, to, source)
          PROVE  status'[r] = "maintenance"
      BY <2>0, <2>3, FlagHolds
    <2>4. ASSUME NEW q \in Rooms, RoomNext(q)
          PROVE  status'[r] = "maintenance"
      <3>1. CASE CheckIn(q)
        BY <2>0, <2>1, <3>1 DEF CheckIn, TypeOK
      <3>2. CASE CheckOut(q)
        <4>1. CASE status[q] = "occupied"
          BY <2>0, <2>1, <3>2, <4>1 DEF CheckOut, TypeOK
        <4>2. CASE status[q] # "occupied"
          BY <2>2, <3>2, <4>2 DEF CheckOut
        <4> QED BY <4>1, <4>2
      <3>3. CASE BulkCleaning(q)
        BY <2>1, <2>3, <3>3 DEF BulkCleaning, ReleaseEligible
      <3>4. ASSUME NEW action \in {"available", "cleaned"},
                   BulkRelease(q, action)
            PROVE  status'[r] = "maintenance"
        <4>1. q # r
          <5>1. \A m \in Tickets: ~TicketBlocks(q, TicketsClosed(q), m)
            BY DEF TicketBlocks, TicketsClosed, BlockingMaintenance, TypeOK,
                   TicketRow, NoTicket
          <5> QED BY <3>4, <5>1 DEF BulkRelease, HasTicket
        <4>2. HasTicket(r, ticket)
          <5>1. PICK m \in Tickets: TicketBlocks(r, TicketsClosed(q), m)
            BY <3>4 DEF BulkRelease, HasTicket
          <5>2. TicketsClosed(q)[m] = ticket[m]
            BY <5>1 DEF TicketBlocks, TicketsClosed, BlockingMaintenance
          <5> QED BY <5>1, <5>2 DEF HasTicket, TicketBlocks
        <4>3. CASE status' = Flag({q}, "available", "admin_override")
          BY <2>0, <4>1, <4>2, <4>3 DEF Flag
        <4>4. CASE UNCHANGED status
          BY <2>0, <4>2, <4>4
        <4>5. CASE status' = Derive({q}, guest, task', ticket')
          BY <2>2, <4>2, <4>5
        <4> QED BY <3>4, <4>3, <4>4, <4>5 DEF BulkRelease
      <3>5. CASE BulkMaintenance(q)
        BY <2>3, <3>5 DEF BulkMaintenance, ReleaseEligible
      <3>6. ASSUME NEW to \in RoomStatuses, AdminTransition(q, to)
            PROVE  status'[r] = "maintenance"
        BY <2>1, <3>6 DEF AdminTransition, TypeOK
      <3>7. CASE Repair(q)
        <4>1. CASE q = r
          BY <3>7, <4>1, TargetStatus DEF Repair, TypeOK
        <4>2. CASE q # r
          BY <2>1, <3>7, <4>2 DEF Repair, TypeOK
        <4> QED BY <4>1, <4>2
      <3> QED BY <2>4, <3>1, <3>2, <3>3, <3>4, <3>5, <3>6, <3>7 DEF RoomNext
    <2>5. ASSUME NEW t \in Tasks, TaskNext(t)
          PROVE  status'[r] = "maintenance"
      <3>1. UNCHANGED ticket
        BY <2>5 DEF TaskNext, CreateTask, UpdateTask, DeleteTask, StartTask,
           SubmitTask, CompleteTask, ApproveTask, Finish, Acknowledge,
           RejectTask, ReopenTask, RequestRedo, Abandon
      <3>2. \/ UNCHANGED status
            \/ status' = Flag({task[t].room}, "cleaning", "task_start")
            \/ \E tk: status' = Derive({task[t].room}, guest, tk, ticket)
        BY <2>5, UpdateDerives DEF TaskNext, CreateTask, DeleteTask, StartTask,
           SubmitTask, CompleteTask, ApproveTask, Finish, Acknowledge,
           RejectTask, ReopenTask, RequestRedo, Abandon
      <3> QED BY <2>1, <2>2, <2>3, <3>1, <3>2 DEF ReleaseEligible
    <2>6. ASSUME NEW m \in Tickets, TicketNext(m)
          PROVE  status'[r] = "maintenance"
      <3>1. ASSUME NEW q \in Rooms, CreateTicket(m, q)
            PROVE  status'[r] = "maintenance"
        <4>1. CASE q = r
          <5>1. status[r] # "maintenance" =>
                  IsLegal(status[r], "maintenance", "ticket_created")
            BY DEF TypeOK, IsLegal, RoomTransitions, RoomStatuses, Gate, Sources
          <5> QED BY <3>1, <4>1, <5>1 DEF CreateTicket, Flag
        <4>2. CASE q # r
          <5>1. HasTicket(r, ticket)
            BY <3>1, <4>2
               DEF CreateTicket, HasTicket, TicketBlocks, TypeOK
          <5> QED BY <2>3, <3>1, <5>1 DEF CreateTicket, ReleaseEligible
        <4> QED BY <4>1, <4>2
      <3>2. ASSUME ticket[m].status \in BlockingMaintenance, NEW st,
                   ticket' = [ticket EXCEPT ![m].status = st]
            PROVE  HasTicket(r, ticket)
        BY <3>2, TicketStepKeeps
      <3>3. CASE \/ AssignTicket(m) \/ StartTicket(m) \/ HoldTicket(m)
                 \/ ResolveTicket(m)
        BY <2>0, <3>2, <3>3 DEF AssignTicket, StartTicket, HoldTicket,
           ResolveTicket, BlockingMaintenance
      <3>4. CASE DisapproveTicket(m)
        BY <2>3, <3>2, <3>4
           DEF DisapproveTicket, BlockingMaintenance, ReleaseEligible
      <3>5. CASE CloseTicket(m) \/ CancelTicket(m)
        BY <2>2, <3>2, <3>5 DEF CloseTicket, CancelTicket, BlockingMaintenance
      <3>6. CASE DeleteTicket(m)
        <4>1. HasTicket(r, ticket)
          <5>1. PICK n \in Tickets: TicketBlocks(r, ticket', n)
            BY DEF HasTicket
          <5>2. n # m
            BY <3>6, <5>1 DEF DeleteTicket, TicketBlocks, NoTicket,
               BlockingMaintenance, TypeOK
          <5> QED BY <3>6, <5>1, <5>2
                  DEF DeleteTicket, HasTicket, TicketBlocks, TypeOK
        <4> QED BY <2>0, <2>2, <3>6, <4>1 DEF DeleteTicket
      <3> QED BY <2>6, <3>1, <3>3, <3>4, <3>5, <3>6 DEF TicketNext
    <2> QED BY <2>4, <2>5, <2>6 DEF Next
  <1> QED BY <1>1, TypeCorrect, PTL DEF Spec, TicketAuthority

-----------------------------------------------------------------------------
(* The front-desk contract *)

\* The unit board leaves an open cleaning task on the room, new or old.
LEMMA WorkWaits ==
  ASSUME TypeOK, NEW r \in Rooms, NEW label, NEW tk,
         tk \in WithCleaningTask(r, label, task)
  PROVE  HasTask(r, tk)
  <1>1. CASE \E t \in Tasks: TaskBlocks(r, task, t)
                             /\ task[t].work.title = <<label, r>>
    BY <1>1 DEF WithCleaningTask, HasTask
  <1>2. CASE ~\E t \in Tasks: TaskBlocks(r, task, t)
                              /\ task[t].work.title = <<label, r>>
    <2>1. PICK t \in Tasks, st \in {"pending", "assigned"}:
            tk = [task EXCEPT ![t] = NewTask(st, BoardWork(label, r), r)]
      BY <1>2 DEF WithCleaningTask
    <2>2. tk[t] = NewTask(st, BoardWork(label, r), r)
      BY <2>1 DEF TypeOK
    <2> QED BY <2>2 DEF HasTask, TaskBlocks, NewTask, BlockingTask
  <1> QED BY <1>1, <1>2

\* A derivation is a withholding, a return, or nothing.
LEMMA DeriveIsStay ==
  ASSUME TypeOK, NEW x, NEW tk, NEW mt,
         status' = Derive({x}, guest, tk, mt), UNCHANGED guest
  PROVE  [Stay!Next]_Stay!vars
  <1>1. CASE x \in Rooms /\ status[x] \in ReleaseEligible
    <2>1. status' = [status EXCEPT ![x] = Target(x, guest, tk, mt)]
      BY <1>1 DEF Derive, TypeOK
    <2>2. CASE Target(x, guest, tk, mt) \in ReleaseEligible
      BY <1>1, <2>1, <2>2 DEF ReleaseEligible, Stay!Next, Stay!ReleaseEligible, Stay!Withhold
    <2>3. CASE Target(x, guest, tk, mt) \notin ReleaseEligible
      <3>1. Target(x, guest, tk, mt) =
              IF guest[x] THEN "occupied" ELSE "available"
        BY <2>3, TargetStatus DEF ReleaseEligible
      <3> QED BY <1>1, <2>1, <3>1
              DEF ReleaseEligible, Stay!Next, Stay!ReleaseEligible, Stay!Return
    <2> QED BY <2>2, <2>3
  <1>2. CASE ~(x \in Rooms /\ status[x] \in ReleaseEligible)
    <2>1. status' = status
      BY <1>2 DEF Derive, TypeOK
    <2> QED BY <2>1 DEF Stay!vars
  <1> QED BY <1>1, <1>2

\* A flag that withholds is a withholding, or nothing.
LEMMA FlagIsStay ==
  ASSUME TypeOK, NEW x, NEW to \in ReleaseEligible, NEW source,
         status' = Flag({x}, to, source), UNCHANGED guest
  PROVE  [Stay!Next]_Stay!vars
  <1>1. CASE x \in Rooms /\ IsLegal(status[x], to, source)
    <2>1. status' = [status EXCEPT ![x] = to]
      BY <1>1 DEF Flag, TypeOK
    <2> QED BY <1>1, <2>1
            DEF ReleaseEligible, Stay!Next, Stay!ReleaseEligible, Stay!Withhold
  <1>2. CASE ~(x \in Rooms /\ IsLegal(status[x], to, source))
    <2>1. status' = status
      BY <1>2 DEF Flag, TypeOK
    <2> QED BY <2>1 DEF Stay!vars
  <1> QED BY <1>1, <1>2

\* Whatever happens to the tasks and tickets, the front desk sees only
\* arrivals, departures into withheld rooms, withholdings, returns and
\* evictions.
THEOREM StayImplemented == Spec => StayContract
  <1>1. Init => Stay!Init
    BY DEF Init, Stay!Init
  <1>2. TypeOK /\ OccupancyProjection /\ [Next]_vars => [Stay!Next]_Stay!vars
    <2> SUFFICES ASSUME TypeOK, OccupancyProjection, [Next]_vars
                 PROVE  [Stay!Next]_Stay!vars
      OBVIOUS
    <2>1. CASE UNCHANGED <<status, guest>>
      BY <2>1 DEF Stay!vars
    <2>2. ASSUME NEW r \in Rooms, RoomNext(r)
          PROVE  [Stay!Next]_Stay!vars
      <3>1. CASE CheckIn(r)
        BY <3>1 DEF CheckIn, Stay!Next, Stay!Arrive
      <3>2. CASE CheckOut(r)
        <4>1. guest[r]
          BY <3>2 DEF CheckOut, OccupancyProjection
        <4>2. CASE status[r] = "occupied"
          BY <3>2, <4>1, <4>2
             DEF CheckOut, Stay!Next, Stay!ReleaseEligible, Stay!Leave
        <4>3. CASE status[r] # "occupied"
          <5>1. status[r] \in ReleaseEligible
            BY <4>1, <4>3
               DEF TypeOK, RoomStatuses, OccupancyProjection, ReleaseEligible
          <5>2. HasTask(r, task')
            BY <3>2, WorkWaits DEF CheckOut
          <5>3. status' = [status EXCEPT ![r] = Target(r, guest', task', ticket)]
            BY <3>2, <4>3, <5>1 DEF CheckOut, Derive, TypeOK
          <5>4. Target(r, guest', task', ticket) \in ReleaseEligible
            BY <5>2, TargetStatus DEF ReleaseEligible
          <5> QED BY <3>2, <4>1, <5>3, <5>4
                  DEF CheckOut, ReleaseEligible, Stay!Next,
                      Stay!ReleaseEligible, Stay!Leave
        <4> QED BY <4>2, <4>3
      <3>3. CASE BulkCleaning(r)
        BY <2>1, <3>3, FlagIsStay DEF BulkCleaning, ReleaseEligible
      <3>4. ASSUME NEW action \in {"available", "cleaned"},
                   BulkRelease(r, action)
            PROVE  [Stay!Next]_Stay!vars
        <4>1. CASE status[r] = "occupied" /\ action = "available"
          <5>1. IsLegal("occupied", "available", "admin_override")
            BY DEF IsLegal, RoomTransitions, Gate, RoomStatuses
          <5>2. status' = [status EXCEPT ![r] = "available"]
            BY <3>4, <4>1, <5>1 DEF BulkRelease, Flag, TypeOK
          <5> QED BY <3>4, <4>1, <5>2 DEF BulkRelease, Stay!Next, Stay!Evict
        <4>2. CASE status[r] = "occupied" /\ action # "available"
          BY <2>1, <3>4, <4>2 DEF BulkRelease
        <4>3. CASE status[r] # "occupied"
          BY <3>4, <4>3, DeriveIsStay DEF BulkRelease
        <4> QED BY <4>1, <4>2, <4>3
      <3>5. CASE BulkMaintenance(r)
        BY <3>5, FlagIsStay DEF BulkMaintenance, ReleaseEligible
      <3>6. ASSUME NEW to \in RoomStatuses, AdminTransition(r, to)
            PROVE  [Stay!Next]_Stay!vars
        <4>1. to # "occupied"
          BY <3>6 DEF AdminTransition, IsLegal, Gate
        <4>2. CASE to = "available"
          <5>1. status[r] # "available"
            BY <3>6, <4>2
               DEF AdminTransition, IsLegal, RoomTransitions, RoomStatuses
          <5>2. guest' = [guest EXCEPT ![r] = FALSE]
            BY <3>6, <4>2 DEF AdminTransition, TypeOK
          <5> QED BY <3>6, <4>2, <5>1, <5>2
                  DEF AdminTransition, Stay!Next, Stay!Evict
        <4>3. CASE to # "available"
          <5>1. to \in ReleaseEligible
            BY <4>1, <4>3 DEF RoomStatuses, ReleaseEligible
          <5>2. UNCHANGED guest
            BY <3>6, <4>3 DEF AdminTransition, TypeOK
          <5> QED BY <3>6, <5>1, <5>2
                  DEF AdminTransition, ReleaseEligible, Stay!Next,
                      Stay!ReleaseEligible, Stay!Withhold
        <4> QED BY <4>2, <4>3
      <3>7. CASE Repair(r)
        <4>1. CASE Target(r, guest, task, ticket) \in ReleaseEligible
          BY <3>7, <4>1
             DEF Repair, ReleaseEligible, Stay!Next, Stay!ReleaseEligible,
                 Stay!Withhold
        <4>2. CASE Target(r, guest, task, ticket) \notin ReleaseEligible
          <5>1. Target(r, guest, task, ticket) =
                  IF guest[r] THEN "occupied" ELSE "available"
            BY <4>2, TargetStatus DEF ReleaseEligible
          <5>2. CASE status[r] \in ReleaseEligible
            BY <3>7, <5>1, <5>2
               DEF Repair, ReleaseEligible, Stay!Next, Stay!ReleaseEligible,
                   Stay!Return
          <5>3. CASE status[r] \notin ReleaseEligible
            <6>1. status[r] = IF guest[r] THEN "occupied" ELSE "available"
              BY <5>3 DEF TypeOK, RoomStatuses, ReleaseEligible,
                 OccupancyProjection
            <6> QED BY <2>1, <3>7, <5>1, <6>1 DEF Repair, TypeOK
          <5> QED BY <5>2, <5>3
        <4> QED BY <4>1, <4>2
      <3> QED BY <2>2, <3>1, <3>2, <3>3, <3>4, <3>5, <3>6, <3>7 DEF RoomNext
    <2>3. ASSUME NEW t \in Tasks, TaskNext(t)
          PROVE  [Stay!Next]_Stay!vars
      <3>1. UNCHANGED guest
        BY <2>3 DEF TaskNext, CreateTask, UpdateTask, DeleteTask, StartTask,
           SubmitTask, CompleteTask, ApproveTask, Finish, Acknowledge,
           RejectTask, ReopenTask, RequestRedo, Abandon
      <3>2. \/ UNCHANGED status
            \/ status' = Flag({task[t].room}, "cleaning", "task_start")
            \/ \E tk: status' = Derive({task[t].room}, guest, tk, ticket)
        BY <2>3, UpdateDerives DEF TaskNext, CreateTask, DeleteTask, StartTask,
           SubmitTask, CompleteTask, ApproveTask, Finish, Acknowledge,
           RejectTask, ReopenTask, RequestRedo, Abandon
      <3> QED BY <2>1, <3>1, <3>2, DeriveIsStay, FlagIsStay DEF ReleaseEligible
    <2>4. ASSUME NEW m \in Tickets, TicketNext(m)
          PROVE  [Stay!Next]_Stay!vars
      <3>1. UNCHANGED guest
        BY <2>4 DEF TicketNext, CreateTicket, AssignTicket, StartTicket,
           HoldTicket, ResolveTicket, DisapproveTicket, CloseTicket,
           CancelTicket, DeleteTicket
      <3>2. \/ UNCHANGED status
            \/ \E q: status' = Flag({q}, "maintenance", "ticket_created")
            \/ \E q: status' = Derive({q}, guest, task, ticket')
        BY <2>4 DEF TicketNext, CreateTicket, AssignTicket, StartTicket,
           HoldTicket, ResolveTicket, DisapproveTicket, CloseTicket,
           CancelTicket, DeleteTicket
      <3> QED BY <2>1, <3>1, <3>2, DeriveIsStay, FlagIsStay DEF ReleaseEligible
    <2>5. CASE UNCHANGED vars
      BY <2>1, <2>5 DEF vars
    <2> QED BY <2>2, <2>3, <2>4, <2>5 DEF Next
  <1> QED BY <1>1, <1>2, TypeCorrect, ProjectionAgrees, PTL
          DEF Spec, StayContract, Stay!Spec

-----------------------------------------------------------------------------
(* Work and the status it holds *)

\* derive recomputes the rooms it is asked about if work may release them,
\* and leaves the others as they are.
LEMMA DeriveCases ==
  ASSUME NEW r \in Rooms, NEW rs, NEW g, NEW tk, NEW mt
  PROVE  /\ r \in rs /\ status[r] \in ReleaseEligible =>
              (Derive(rs, g, tk, mt)[r] \in ReleaseEligible
                 <=> HasTask(r, tk) \/ HasTicket(r, mt))
         /\ ~(r \in rs /\ status[r] \in ReleaseEligible) =>
              Derive(rs, g, tk, mt)[r] = status[r]
  <1>1. CASE r \in rs /\ status[r] \in ReleaseEligible
    <2>1. Derive(rs, g, tk, mt)[r] = Target(r, g, tk, mt)
      BY <1>1 DEF Derive
    <2> QED BY <1>1, <2>1, TargetStatus DEF ReleaseEligible
  <1>2. CASE ~(r \in rs /\ status[r] \in ReleaseEligible)
    BY <1>2 DEF Derive
  <1> QED BY <1>1, <1>2

\* What an update of one task's status leaves as it was.
LEMMA TaskStatusRows ==
  ASSUME TypeOK, NEW t \in Tasks, task[t].status # "none", NEW st
  PROVE  LET tk == [task EXCEPT ![t].status = st] IN
         /\ tk[t].status = st
         /\ tk[t].room = task[t].room /\ tk[t].work = task[t].work
         /\ \A u \in Tasks \ {t}: tk[u] = task[u]
  <1>1. task[t] \in TaskRecord
    BY TaskRowUpdate
  <1> QED BY <1>1 DEF TypeOK, TaskRecord

LEMMA TicketStatusRows ==
  ASSUME TypeOK, NEW m \in Tickets, ticket[m].status # "none", NEW st
  PROVE  LET mt == [ticket EXCEPT ![m].status = st] IN
         /\ mt[m].status = st /\ mt[m].room = ticket[m].room
         /\ \A n \in Tickets \ {m}: mt[n] = ticket[n]
  <1>1. ticket[m] \in [status: TicketStatuses, room: Rooms]
    BY TicketRowUpdate
  <1> QED BY <1>1 DEF TypeOK

\* A task that goes on blocking, or belongs to another room, takes no work
\* from r; nor does a ticket.
LEMMA TaskStatusKeeps ==
  ASSUME TypeOK, NEW t \in Tasks, task[t].status # "none", NEW st,
         NEW r \in Rooms, HasTask(r, task),
         st \in BlockingTask \/ task[t].room # r
  PROVE  HasTask(r, [task EXCEPT ![t].status = st])
  <1>1. PICK u \in Tasks: TaskBlocks(r, task, u)
    BY DEF HasTask
  <1> QED BY <1>1, TaskStatusRows DEF HasTask, TaskBlocks

LEMMA TicketStatusKeeps ==
  ASSUME TypeOK, NEW m \in Tickets, ticket[m].status # "none", NEW st,
         NEW r \in Rooms, HasTicket(r, ticket),
         st \in BlockingMaintenance \/ ticket[m].room # r
  PROVE  HasTicket(r, [ticket EXCEPT ![m].status = st])
  <1>1. PICK n \in Tickets: TicketBlocks(r, ticket, n)
    BY DEF HasTicket
  <1> QED BY <1>1, TicketStatusRows DEF HasTicket, TicketBlocks

\* The successor of a completed instance takes a row of its own.
LEMMA SuccessorRows ==
  ASSUME NEW t \in Tasks, NEW tk \in [Tasks -> TaskRow],
         NEW nk \in WithSuccessor(t, tk), NEW u \in Tasks
  PROVE  \/ nk[u] = tk[u]
         \/ tk[u].status = "none" /\ nk[u].status \in {"pending", "assigned"}
  <1>1. CASE nk = tk
    BY <1>1
  <1>2. ASSUME NEW v \in Tasks, tk[v].status = "none", NEW st \in {"pending", "assigned"},
               tk[t].work.repeats,
               nk = [tk EXCEPT ![v] = [tk[t] EXCEPT !.status = st]]
        PROVE  \/ nk[u] = tk[u]
               \/ tk[u].status = "none" /\ nk[u].status \in {"pending", "assigned"}
    <2>1. [tk[t] EXCEPT !.status = st].status = st
      BY DEF TaskRow, NoTask
    <2> QED BY <1>2, <2>1
  <1> QED BY <1>1, <1>2 DEF WithSuccessor

\* The unit board's cleaning task takes a row of its own, or none.
LEMMA CleaningTaskRows ==
  ASSUME TypeOK, NEW q, NEW label, NEW tk \in WithCleaningTask(q, label, task),
         NEW u \in Tasks
  PROVE  \/ tk[u] = task[u]
         \/ task[u].status = "none" /\ tk[u].status \in {"pending", "assigned"}
  BY DEF WithCleaningTask, NewTask, TypeOK

\* A step that keeps the rows that block r keeps its work.
LEMMA RowsKeepWork ==
  ASSUME NEW r \in Rooms, NEW tk, NEW nk,
         \A u \in Tasks: nk[u] = tk[u] \/ tk[u].status = "none",
         HasTask(r, tk)
  PROVE  HasTask(r, nk)
  BY DEF HasTask, TaskBlocks, BlockingTask

\* A room that is derived from the rows of after the step has a reason, or is
\* not withheld.
LEMMA DerivedHasReason ==
  ASSUME NEW r \in Rooms, NEW rs, NEW g,
         status' = Derive(rs, g, task', ticket'), r \in rs
  PROVE  Reason(r)'
  BY DeriveCases DEF Reason

\* A room whose status and blocking rows are kept keeps its reason.
LEMMA KeptReason ==
  ASSUME NEW r \in Rooms, Reason(r),
         status'[r] = status[r] \/ status'[r] \notin ReleaseEligible,
         HasTask(r, task) => HasTask(r, task'),
         HasTicket(r, ticket) => HasTicket(r, ticket')
  PROVE  Reason(r)'
  BY DEF Reason

\* Only the sweeps and the overrides leave a room withheld for nothing: all
\* other handlers derive every room whose work they end, move or remove.
THEOREM NobodyStranded == Spec => NoStranding
  <1> DEFINE Stranding ==
        \A r \in Rooms: Reason(r) /\ ~Reason(r)' =>
          \/ \E t \in Tasks: Abandon(t)
          \/ BulkMaintenance(r)
          \/ \E to \in RoomStatuses: AdminTransition(r, to)
  <1>1. TypeOK /\ [Next]_vars => [Stranding]_vars
    <2> SUFFICES ASSUME TypeOK, Next, NEW r \in Rooms, Reason(r),
                        ~\E t \in Tasks: Abandon(t),
                        ~BulkMaintenance(r),
                        ~\E to \in RoomStatuses: AdminTransition(r, to)
                 PROVE  Reason(r)'
      OBVIOUS
    <2>1. ASSUME NEW q \in Rooms, RoomNext(q) PROVE Reason(r)'
      <3>1. CASE CheckIn(q)
        BY <3>1, KeptReason DEF CheckIn, TypeOK, ReleaseEligible
      <3>2. CASE CheckOut(q)
        <4>1. HasTask(r, task) => HasTask(r, task')
          BY <3>2, CleaningTaskRows, RowsKeepWork DEF CheckOut
        <4>2. HasTask(q, task')
          BY <3>2, WorkWaits DEF CheckOut
        <4>3. CASE status[q] = "occupied"
          <5>1. CASE q = r
            BY <4>2, <5>1 DEF Reason
          <5>2. CASE q # r
            BY <3>2, <4>1, <4>3, <5>2, KeptReason DEF CheckOut, TypeOK
          <5> QED BY <5>1, <5>2
        <4>4. CASE status[q] # "occupied"
          <5>1. CASE q = r
            BY <4>2, <5>1 DEF Reason
          <5>2. CASE q # r
            BY <3>2, <4>1, <4>4, <5>2, DeriveCases, KeptReason DEF CheckOut
          <5> QED BY <5>1, <5>2
        <4> QED BY <4>3, <4>4
      <3>3. CASE BulkCleaning(q)
        <4>1. HasTask(r, task) => HasTask(r, task')
          BY <3>3, CleaningTaskRows, RowsKeepWork DEF BulkCleaning
        <4>2. HasTask(q, task')
          BY <3>3, WorkWaits DEF BulkCleaning
        <4>3. CASE q = r
          BY <4>2, <4>3 DEF Reason
        <4>4. CASE q # r
          BY <3>3, <4>1, <4>4, KeptReason DEF BulkCleaning, Flag
        <4> QED BY <4>3, <4>4
      <3>4. ASSUME NEW action \in {"available", "cleaned"},
                   BulkRelease(q, action)
            PROVE  Reason(r)'
        <4>1. CASE q = r
          <5>1. CASE status[q] = "occupied"
            BY <3>4, <4>1, <5>1 DEF BulkRelease, Reason, Flag, ReleaseEligible
          <5>2. CASE status[q] # "occupied"
            BY <3>4, <4>1, <5>2, DerivedHasReason DEF BulkRelease
          <5> QED BY <5>1, <5>2
        <4>2. CASE q # r
          <5>1. status'[r] = status[r]
            <6>1. CASE status' = Flag({q}, "available", "admin_override")
              BY <4>2, <6>1 DEF Flag
            <6>2. CASE status' = Derive({q}, guest, task', ticket')
              BY <4>2, <6>2, DeriveCases
            <6> QED BY <3>4, <6>1, <6>2 DEF BulkRelease
          <5>2. HasTask(r, task) => HasTask(r, task')
            BY <3>4, <4>2 DEF BulkRelease, TasksClosed, HasTask, TaskBlocks
          <5>3. HasTicket(r, ticket) => HasTicket(r, ticket')
            BY <3>4, <4>2 DEF BulkRelease, TicketsClosed, HasTicket, TicketBlocks
          <5> QED BY <5>1, <5>2, <5>3, KeptReason
        <4> QED BY <4>1, <4>2
      <3>5. CASE BulkMaintenance(q)
        BY <3>5, KeptReason DEF BulkMaintenance, Flag
      <3>6. ASSUME NEW to \in RoomStatuses, AdminTransition(q, to)
            PROVE  Reason(r)'
        BY <3>6, KeptReason DEF AdminTransition, TypeOK
      <3>7. CASE Repair(q)
        <4>1. CASE q = r
          BY <3>7, <4>1, TargetStatus DEF Repair, Reason, TypeOK, ReleaseEligible
        <4>2. CASE q # r
          BY <3>7, <4>2, KeptReason DEF Repair, TypeOK
        <4> QED BY <4>1, <4>2
      <3> QED BY <2>1, <3>1, <3>2, <3>3, <3>4, <3>5, <3>6, <3>7 DEF RoomNext
    <2>2. ASSUME NEW t \in Tasks, task[t].status # "none", NEW st,
                 task' = [task EXCEPT ![t].status = st],
                 status' = Derive({task[t].room}, guest, task', ticket),
                 UNCHANGED ticket
          PROVE  Reason(r)'
      <3>1. CASE task[t].room = r
        BY <2>2, <3>1, DerivedHasReason
      <3>2. CASE task[t].room # r
        BY <2>2, <3>2, TaskStatusKeeps, DeriveCases, KeptReason
      <3> QED BY <3>1, <3>2
    <2>3. ASSUME NEW t \in Tasks, TaskNext(t) PROVE Reason(r)'
      <3>1. ASSUME NEW q \in Rooms \cup {NoRoom}, NEW work \in Works,
                   CreateTask(t, q, work)
            PROVE  Reason(r)'
        <4>1. \A u \in Tasks: task'[u] = task[u] \/ task[u].status = "none"
          BY <3>1 DEF CreateTask, TypeOK
        <4> QED BY <3>1, <4>1, RowsKeepWork, KeptReason DEF CreateTask
      <3>2. ASSUME NEW q \in Rooms \cup {NoRoom}, NEW work \in Works,
                   UpdateTask(t, q, work)
            PROVE  Reason(r)'
        <4>1. /\ \A u \in Tasks \ {t}: task'[u] = task[u]
              /\ task'[t] = NewTask(task[t].status, work, q)
              /\ UNCHANGED ticket
          BY <3>2 DEF UpdateTask, TypeOK
        <4>2. CASE task[t].room = r /\ q # r
          <5>1. status' = Derive({r}, guest, task', ticket')
            BY <3>2, <4>1, <4>2, UpdateDerives
          <5> QED BY <5>1, DerivedHasReason
        <4>3. CASE ~(task[t].room = r /\ q # r)
          <5>1. HasTask(r, task) => HasTask(r, task')
            BY <4>1, <4>3 DEF HasTask, TaskBlocks, NewTask
          <5>2. status'[r] = status[r]
            <6>1. CASE q = task[t].room
              BY <3>2, <6>1, UpdateDerives
            <6>2. CASE q # task[t].room
              <7>1. status' = Derive({task[t].room}, guest, task', ticket)
                BY <3>2, <6>2, UpdateDerives
              <7>2. r \notin {task[t].room}
                BY <4>3, <6>2
              <7> QED BY <7>1, <7>2, DeriveCases
            <6> QED BY <6>1, <6>2
          <5> QED BY <4>1, <5>1, <5>2, KeptReason
        <4> QED BY <4>2, <4>3
      <3>3. CASE DeleteTask(t)
        <4>1. CASE task[t].room = r
          BY <3>3, <4>1, DerivedHasReason DEF DeleteTask
        <4>2. CASE task[t].room # r
          <5>1. \A u \in Tasks \ {t}: task'[u] = task[u]
            BY <3>3 DEF DeleteTask, TypeOK
          <5>2. HasTask(r, task) => HasTask(r, task')
            BY <4>2, <5>1 DEF HasTask, TaskBlocks
          <5> QED BY <3>3, <4>2, <5>2, DeriveCases, KeptReason DEF DeleteTask
        <4> QED BY <4>1, <4>2
      <3>4. CASE StartTask(t)
        <4>1. HasTask(r, task) => HasTask(r, task')
          BY <3>4, TaskStatusKeeps DEF StartTask, BlockingTask
        <4>2. CASE task[t].room = r
          BY <3>4, <4>2, TaskStatusRows
             DEF StartTask, Reason, HasTask, TaskBlocks, BlockingTask
        <4>3. CASE task[t].room # r
          BY <3>4, <4>1, <4>3, KeptReason DEF StartTask, Flag
        <4> QED BY <4>2, <4>3
      <3>5. CASE SubmitTask(t)
        BY <3>5, TaskStatusKeeps, KeptReason DEF SubmitTask, BlockingTask
      <3>6. ASSUME task[t].status # "none", Finish(t) PROVE Reason(r)'
        <4> DEFINE done == [task EXCEPT ![t].status = "completed"]
        <4>1. done \in [Tasks -> TaskRow]
          BY <3>6, TaskRowUpdate DEF TaskStatuses
        <4>2. HasTask(r, done) => HasTask(r, task')
          <5>1. task' \in WithSuccessor(t, done)
            BY <3>6 DEF Finish
          <5> HIDE DEF done
          <5>2. \A u \in Tasks: task'[u] = done[u] \/ done[u].status = "none"
            BY <4>1, <5>1, SuccessorRows
          <5> QED BY <5>2, RowsKeepWork
        <4>3. CASE task[t].room = r
          BY <3>6, <4>2, <4>3, DeriveCases DEF Finish, Reason
        <4>4. CASE task[t].room # r
          <5>1. HasTask(r, task) => HasTask(r, done)
            BY <3>6, <4>4, TaskStatusKeeps
          <5>2. status'[r] = status[r]
            BY <3>6, <4>4, DeriveCases DEF Finish
          <5> QED BY <3>6, <4>2, <5>1, <5>2, KeptReason DEF Finish
        <4> QED BY <4>3, <4>4
      <3>7. CASE CompleteTask(t)
        BY <3>6, <3>7 DEF CompleteTask
      <3>8. CASE ApproveTask(t)
        <4>1. CASE Acknowledge(t)
          <5>1. CASE task[t].room = r
            BY <4>1, <5>1, DerivedHasReason DEF Acknowledge
          <5>2. CASE task[t].room # r
            BY <4>1, <5>2, DeriveCases, KeptReason DEF Acknowledge
          <5> QED BY <5>1, <5>2
        <4> QED BY <3>6, <3>8, <4>1 DEF ApproveTask
      <3>9. CASE RejectTask(t) \/ RequestRedo(t)
        BY <2>2, <3>9 DEF RejectTask, RequestRedo
      <3>10. CASE ReopenTask(t)
        BY <2>2, <3>10 DEF ReopenTask
      <3>11. CASE Abandon(t)
        BY <3>11
      <3> QED BY <2>3, <3>1, <3>2, <3>3, <3>4, <3>5, <3>7, <3>8, <3>9, <3>10,
                 <3>11 DEF TaskNext
    <2>4. ASSUME NEW m \in Tickets, TicketNext(m) PROVE Reason(r)'
      <3>1. ASSUME NEW q \in Rooms, CreateTicket(m, q) PROVE Reason(r)'
        <4>1. HasTicket(r, ticket) => HasTicket(r, ticket')
          BY <3>1 DEF CreateTicket, HasTicket, TicketBlocks,
             BlockingMaintenance, TypeOK
        <4>2. CASE q = r
          <5>1. HasTicket(r, ticket')
            BY <3>1, <4>2 DEF CreateTicket, HasTicket, TicketBlocks,
               BlockingMaintenance, TypeOK
          <5> QED BY <5>1 DEF Reason
        <4>3. CASE q # r
          BY <3>1, <4>1, <4>3, KeptReason DEF CreateTicket, Flag
        <4> QED BY <4>2, <4>3
      <3>2. ASSUME ticket[m].status # "none",
                   NEW st \in BlockingMaintenance,
                   ticket' = [ticket EXCEPT ![m].status = st],
                   UNCHANGED <<status, task>>
            PROVE  Reason(r)'
        BY <3>2, TicketStatusKeeps, KeptReason
      <3>3. CASE \/ AssignTicket(m) \/ StartTicket(m) \/ HoldTicket(m)
                 \/ ResolveTicket(m)
        BY <3>2, <3>3 DEF AssignTicket, StartTicket, HoldTicket,
           ResolveTicket, BlockingMaintenance
      <3>4. CASE DisapproveTicket(m)
        <4>1. ticket[m].status # "none"
          BY <3>4 DEF DisapproveTicket
        <4>2. CASE ticket[m].room = r
          <5>1. HasTicket(r, ticket')
            BY <3>4, <4>1, <4>2, TicketStatusRows
               DEF DisapproveTicket, HasTicket, TicketBlocks, BlockingMaintenance
          <5> QED BY <5>1 DEF Reason
        <4>3. CASE ticket[m].room # r
          BY <3>4, <4>1, <4>3, TicketStatusKeeps, KeptReason
             DEF DisapproveTicket, Flag
        <4> QED BY <4>2, <4>3
      <3>5. CASE CloseTicket(m) \/ CancelTicket(m)
        <4>1. ticket[m].status # "none" /\ UNCHANGED task
          BY <3>5 DEF CloseTicket, CancelTicket, BlockingMaintenance
        <4>2. status' = Derive({ticket[m].room}, guest, task', ticket')
          BY <3>5 DEF CloseTicket, CancelTicket
        <4>3. CASE ticket[m].room = r
          BY <4>2, <4>3, DerivedHasReason
        <4>4. CASE ticket[m].room # r
          BY <3>5, <4>1, <4>2, <4>4, TicketStatusKeeps, DeriveCases, KeptReason
             DEF CloseTicket, CancelTicket
        <4> QED BY <4>3, <4>4
      <3>6. CASE DeleteTicket(m)
        <4>1. \A n \in Tickets \ {m}: ticket'[n] = ticket[n]
          BY <3>6 DEF DeleteTicket, TypeOK
        <4>2. CASE ticket[m].status \in BlockingMaintenance /\ ticket[m].room = r
          BY <3>6, <4>2, DerivedHasReason DEF DeleteTicket
        <4>3. CASE ~(ticket[m].status \in BlockingMaintenance /\ ticket[m].room = r)
          <5>1. HasTicket(r, ticket) => HasTicket(r, ticket')
            BY <4>1, <4>3 DEF HasTicket, TicketBlocks
          <5>2. status'[r] = status[r]
            BY <3>6, <4>3, DeriveCases DEF DeleteTicket
          <5> QED BY <3>6, <5>1, <5>2, KeptReason DEF DeleteTicket
        <4> QED BY <4>2, <4>3
      <3> QED BY <2>4, <3>1, <3>3, <3>4, <3>5, <3>6 DEF TicketNext
    <2> QED BY <2>1, <2>3, <2>4 DEF Next
  <1> QED BY <1>1, TypeCorrect, PTL DEF Spec, NoStranding

-----------------------------------------------------------------------------
(* Work under way, and release *)

\* Only a row that is (still) in progress can put r under way.
LEMMA UnderWayRows ==
  ASSUME NEW r \in Rooms, NEW tk, NEW nk, UnderWay(r, nk),
         \A u \in Tasks: nk[u] = tk[u] \/ nk[u].status # "in_progress"
  PROVE  UnderWay(r, tk)
  BY DEF UnderWay

\* Work under way is work: a derivation on its rows goes on withholding r.
LEMMA UnderWayDerived ==
  ASSUME NEW r \in Rooms, NEW rs, NEW g, NEW tk, NEW mt, UnderWay(r, tk),
         status[r] \in ReleaseEligible
  PROVE  Derive(rs, g, tk, mt)[r] \in ReleaseEligible
  <1>1. HasTask(r, tk)
    BY DEF UnderWay, HasTask, TaskBlocks, BlockingTask
  <1> QED BY <1>1, DeriveCases

\* A flag never takes a withheld room out of the withheld statuses.
LEMMA FlagWithholds ==
  ASSUME NEW r \in Rooms, NEW rs, NEW to \in ReleaseEligible, NEW source,
         status[r] \in ReleaseEligible
  PROVE  Flag(rs, to, source)[r] \in ReleaseEligible
  BY DEF Flag

\* A started cleaning task flags its room whatever the room was.
LEMMA StartFlags ==
  ASSUME TypeOK, NEW r \in Rooms
  PROVE  Flag({r}, "cleaning", "task_start")[r] \in ReleaseEligible
  BY DEF Flag, TypeOK, IsLegal, RoomTransitions, Gate, Sources, RoomStatuses,
         ReleaseEligible

\* A room being cleaned stays withheld until the work on it is no longer
\* under way: only an administrative transition of that room overrules it,
\* and only an edit starts cleaning there without withholding the room.
THEOREM WorkersUndisturbed == Spec => WorkAuthority
  <1> DEFINE Authority ==
        \A r \in Rooms: WorkHolds(r) /\ ~WorkHolds(r)' =>
          \/ \E to \in RoomStatuses: AdminTransition(r, to)
          \/ \E t \in Tasks: BecomesCleaning(t, r)
  <1>1. TypeOK /\ [Next]_vars => [Authority]_vars
    <2> SUFFICES ASSUME TypeOK, Next, NEW r \in Rooms, WorkHolds(r),
                        ~\E to \in RoomStatuses: AdminTransition(r, to),
                        ~\E t \in Tasks: BecomesCleaning(t, r),
                        UnderWay(r, task')
                 PROVE  status'[r] \in ReleaseEligible
      BY DEF WorkHolds
    <2> DEFINE Goal == status'[r] \in ReleaseEligible
    <2>1. ASSUME \A u \in Tasks: task'[u] = task[u]
                                 \/ task'[u].status # "in_progress"
          PROVE  UnderWay(r, task) /\ status[r] \in ReleaseEligible
      BY <2>1, UnderWayRows DEF WorkHolds
    <2>2. ASSUME UNCHANGED task
          PROVE  status[r] \in ReleaseEligible
      BY <2>1, <2>2
    <2>3. ASSUME NEW q \in Rooms, RoomNext(q) PROVE Goal
      <3>1. CASE CheckIn(q)
        <4>1. status[r] \in ReleaseEligible
          BY <2>2, <3>1 DEF CheckIn
        <4> QED BY <3>1, <4>1 DEF CheckIn, TypeOK, ReleaseEligible
      <3>2. CASE CheckOut(q)
        <4>1. status[r] \in ReleaseEligible
          <5>1. task' \in WithCleaningTask(q, "checkout", task)
            BY <3>2 DEF CheckOut
          <5> QED BY <2>1, <5>1, CleaningTaskRows
        <4>2. CASE status[q] = "occupied"
          BY <3>2, <4>1, <4>2 DEF CheckOut, TypeOK, ReleaseEligible
        <4>3. CASE status[q] # "occupied"
          BY <3>2, <4>1, <4>3, UnderWayDerived DEF CheckOut
        <4> QED BY <4>2, <4>3
      <3>3. CASE BulkCleaning(q)
        <4>1. status[r] \in ReleaseEligible
          <5>1. task' \in WithCleaningTask(q, "cleaning", task)
            BY <3>3 DEF BulkCleaning
          <5> QED BY <2>1, <5>1, CleaningTaskRows
        <4> QED BY <3>3, <4>1, FlagWithholds DEF BulkCleaning, ReleaseEligible
      <3>4. ASSUME NEW action \in {"available", "cleaned"},
                   BulkRelease(q, action)
            PROVE  Goal
        <4>1. task' = TasksClosed(q)
          BY <3>4 DEF BulkRelease
        <4>2. \A u \in Tasks:
                \/ TaskBlocks(q, task, u) /\ task'[u].status = "completed"
                \/ ~TaskBlocks(q, task, u) /\ task'[u] = task[u]
          <5> SUFFICES ASSUME NEW u \in Tasks, TaskBlocks(q, task, u)
                       PROVE  [task[u] EXCEPT !.status = "completed"].status
                                = "completed"
            BY <4>1 DEF TasksClosed
          <5>1. task[u].status # "none"
            BY DEF TaskBlocks, BlockingTask
          <5> QED BY <5>1, TaskRowUpdate
        <4>3. status[r] \in ReleaseEligible
          BY <2>1, <4>2
        <4>4. q # r
          BY <4>2 DEF UnderWay, TaskBlocks, BlockingTask
        <4>5. CASE status' = Flag({q}, "available", "admin_override")
          BY <4>3, <4>4, <4>5 DEF Flag
        <4>6. CASE UNCHANGED status
          BY <4>3, <4>6
        <4>7. CASE status' = Derive({q}, guest, task', ticket')
          BY <4>3, <4>7, UnderWayDerived
        <4> QED BY <3>4, <4>5, <4>6, <4>7 DEF BulkRelease
      <3>5. CASE BulkMaintenance(q)
        BY <2>2, <3>5, FlagWithholds DEF BulkMaintenance, ReleaseEligible
      <3>6. ASSUME NEW to \in RoomStatuses, AdminTransition(q, to)
            PROVE  Goal
        BY <2>2, <3>6 DEF AdminTransition, TypeOK
      <3>7. CASE Repair(q)
        <4>1. CASE q = r
          <5>1. HasTask(r, task)
            BY <3>7 DEF Repair, UnderWay, HasTask, TaskBlocks, BlockingTask
          <5> QED BY <3>7, <4>1, <5>1, TargetStatus
                  DEF Repair, TypeOK, ReleaseEligible
        <4>2. CASE q # r
          BY <2>2, <3>7, <4>2 DEF Repair, TypeOK
        <4> QED BY <4>1, <4>2
      <3> QED BY <2>3, <3>1, <3>2, <3>3, <3>4, <3>5, <3>6, <3>7 DEF RoomNext
    <2>4. ASSUME NEW t \in Tasks, TaskNext(t) PROVE Goal
      <3>1. ASSUME \A u \in Tasks: task'[u] = task[u]
                                   \/ task'[u].status # "in_progress",
                   \/ UNCHANGED status
                   \/ \E rs: status' = Derive(rs, guest, task', ticket)
            PROVE  Goal
        BY <2>1, <3>1, UnderWayDerived
      <3>2. ASSUME NEW st, st # "in_progress", task[t].status # "none",
                   task' = [task EXCEPT ![t].status = st]
            PROVE  \A u \in Tasks: task'[u] = task[u]
                                   \/ task'[u].status # "in_progress"
        BY <3>2, TaskStatusRows
      <3>3. ASSUME NEW q \in Rooms \cup {NoRoom}, NEW work \in Works,
                   CreateTask(t, q, work)
            PROVE  Goal
        <4>1. \A u \in Tasks: task'[u] = task[u]
                              \/ task'[u].status # "in_progress"
          BY <3>3 DEF CreateTask, NewTask, TypeOK
        <4> QED BY <3>1, <3>3, <4>1 DEF CreateTask
      <3>4. ASSUME NEW q \in Rooms \cup {NoRoom}, NEW work \in Works,
                   UpdateTask(t, q, work)
            PROVE  Goal
        <4>1. /\ \A u \in Tasks \ {t}: task'[u] = task[u]
              /\ task'[t] = NewTask(task[t].status, work, q)
          BY <3>4 DEF UpdateTask, TypeOK
        <4>2. task[t] \in TaskRecord
          BY <3>4, TaskRowUpdate DEF UpdateTask, Editable
        <4>3. CASE task[t].status # "in_progress"
          <5>1. \A u \in Tasks: task'[u] = task[u]
                                \/ task'[u].status # "in_progress"
            BY <4>1, <4>3 DEF NewTask
          <5> QED BY <3>1, <3>4, <5>1 DEF UpdateTask
        <4>4. CASE task[t].status = "in_progress"
          <5>1. q = task[t].room /\ UNCHANGED status
            BY <3>4, <4>4, UpdateDerives
          <5>2. task'[t] = [task[t] EXCEPT !.work = task'[t].work]
            BY <4>1, <4>2, <5>1 DEF NewTask, TaskRecord
          <5>3. ~(task[t].room = r /\ ~task[t].work.cleaning
                   /\ task'[t].work.cleaning)
            BY <4>4, <5>2 DEF BecomesCleaning
          <5>4. UnderWay(r, task)
            BY <4>1, <4>4, <5>1, <5>3 DEF UnderWay, NewTask
          <5> QED BY <5>1, <5>4 DEF WorkHolds
        <4> QED BY <4>3, <4>4
      <3>5. CASE DeleteTask(t)
        <4>1. \A u \in Tasks: task'[u] = task[u]
                              \/ task'[u].status # "in_progress"
          BY <3>5 DEF DeleteTask, NoTask, TypeOK
        <4> QED BY <3>1, <3>5, <4>1 DEF DeleteTask
      <3>6. CASE StartTask(t)
        <4>1. task[t].status # "none"
          BY <3>6 DEF StartTask
        <4>2. /\ task'[t].room = task[t].room /\ task'[t].work = task[t].work
              /\ \A u \in Tasks \ {t}: task'[u] = task[u]
          BY <3>6, <4>1, TaskStatusRows DEF StartTask
        <4>3. CASE task[t].room = r /\ task[t].work.cleaning
          BY <3>6, <4>3, StartFlags DEF StartTask
        <4>4. CASE ~(task[t].room = r /\ task[t].work.cleaning)
          <5>1. status[r] \in ReleaseEligible
            BY <4>2, <4>4 DEF UnderWay, WorkHolds
          <5> QED BY <3>6, <5>1, FlagWithholds DEF StartTask, ReleaseEligible
        <4> QED BY <4>3, <4>4
      <3>7. CASE SubmitTask(t)
        BY <3>1, <3>2, <3>7 DEF SubmitTask
      <3>8. ASSUME task[t].status # "none", Finish(t) PROVE Goal
        <4> DEFINE done == [task EXCEPT ![t].status = "completed"]
        <4>1. done \in [Tasks -> TaskRow]
          BY <3>8, TaskRowUpdate DEF TaskStatuses
        <4>2. task' \in WithSuccessor(t, done)
          BY <3>8 DEF Finish
        <4>3. status' = Derive({task[t].room}, guest, done, ticket)
          BY <3>8 DEF Finish
        <4>4. \A u \in Tasks: done[u] = task[u]
                              \/ done[u].status # "in_progress"
          BY <3>8, TaskStatusRows
        <4> HIDE DEF done
        <4>5. \A u \in Tasks: task'[u] = done[u]
                              \/ task'[u].status # "in_progress"
          BY <4>1, <4>2, SuccessorRows
        <4>6. UnderWay(r, done)
          BY <4>5, UnderWayRows
        <4>7. status[r] \in ReleaseEligible
          BY <4>4, <4>6, UnderWayRows DEF WorkHolds
        <4> QED BY <4>3, <4>6, <4>7, UnderWayDerived
      <3>9. CASE CompleteTask(t)
        BY <3>8, <3>9 DEF CompleteTask
      <3>10. CASE ApproveTask(t)
        <4>1. CASE Acknowledge(t)
          BY <3>1, <4>1 DEF Acknowledge
        <4> QED BY <3>8, <3>10, <4>1 DEF ApproveTask
      <3>11. CASE RejectTask(t) \/ RequestRedo(t) \/ ReopenTask(t)
        <4>1. PICK st \in {"reopened", "pending", "assigned"}:
                task' = [task EXCEPT ![t].status = st]
          BY <3>11 DEF RejectTask, RequestRedo, ReopenTask
        <4>2. task[t].status # "none"
          BY <3>11 DEF RejectTask, RequestRedo, ReopenTask
        <4>3. status' = Derive({task[t].room}, guest, task', ticket)
          BY <3>11 DEF RejectTask, RequestRedo, ReopenTask
        <4> QED BY <3>1, <3>2, <4>1, <4>2, <4>3
      <3>12. CASE Abandon(t)
        BY <3>1, <3>2, <3>12 DEF Abandon, OpenStatuses
      <3> QED BY <2>4, <3>3, <3>4, <3>5, <3>6, <3>7, <3>9, <3>10, <3>11,
                 <3>12 DEF TaskNext
    <2>5. ASSUME NEW m \in Tickets, TicketNext(m) PROVE Goal
      <3>1. UNCHANGED task
        BY <2>5 DEF TicketNext, CreateTicket, AssignTicket, StartTicket,
           HoldTicket, ResolveTicket, DisapproveTicket, CloseTicket,
           CancelTicket, DeleteTicket
      <3>2. \/ UNCHANGED status
            \/ \E q: status' = Flag({q}, "maintenance", "ticket_created")
            \/ \E q: status' = Derive({q}, guest, task, ticket')
        BY <2>5 DEF TicketNext, CreateTicket, AssignTicket, StartTicket,
           HoldTicket, ResolveTicket, DisapproveTicket, CloseTicket,
           CancelTicket, DeleteTicket
      <3>3. status[r] \in ReleaseEligible /\ UnderWay(r, task)
        BY <2>2, <3>1
      <3>4. ASSUME NEW q, status' = Derive({q}, guest, task, ticket')
            PROVE  Goal
        BY <3>3, <3>4, UnderWayDerived
      <3>5. ASSUME NEW q, status' = Flag({q}, "maintenance", "ticket_created")
            PROVE  Goal
        BY <3>3, <3>5, FlagWithholds DEF ReleaseEligible
      <3> QED BY <3>2, <3>3, <3>4, <3>5
    <2> QED BY <2>3, <2>4, <2>5 DEF Next
  <1> QED BY <1>1, TypeCorrect, PTL DEF Spec, WorkAuthority

\* A room is released by approval, closure or repair only when nothing that
\* was open still blocks it; an administrative transition is the exception.
THEOREM ReleasedClean == Spec => CleanRelease
  <1> DEFINE Clean ==
        \A r \in Rooms:
          /\ status[r] \in ReleaseEligible
          /\ status'[r] \notin ReleaseEligible
          => \/ /\ ~HasTicket(r, ticket')
                /\ \A t \in Tasks: TaskBlocks(r, task', t) =>
                                     task[t].status = "none"
             \/ AdminTransition(r, "available")
  <1>1. TypeOK /\ [Next]_vars => [Clean]_vars
    <2> SUFFICES ASSUME TypeOK, Next, NEW r \in Rooms,
                        status[r] \in ReleaseEligible,
                        status'[r] \notin ReleaseEligible,
                        ~AdminTransition(r, "available")
                 PROVE  /\ ~HasTicket(r, ticket')
                        /\ \A t \in Tasks: TaskBlocks(r, task', t) =>
                                             task[t].status = "none"
      OBVIOUS
    <2> DEFINE Goal == /\ ~HasTicket(r, ticket')
                       /\ \A t \in Tasks: TaskBlocks(r, task', t) =>
                                            task[t].status = "none"
    <2>1. ASSUME NEW rs, NEW g, status' = Derive(rs, g, task', ticket')
          PROVE  Goal
      <3>1. ~HasTask(r, task') /\ ~HasTicket(r, ticket')
        BY <2>1, DeriveCases
      <3> QED BY <3>1 DEF HasTask
    <2>2. status'[r] # status[r]
      OBVIOUS
    <2>3. ~\E rs, source: \E to \in ReleaseEligible:
             status' = Flag(rs, to, source)
      BY FlagWithholds
    <2>4. ASSUME NEW q \in Rooms, RoomNext(q) PROVE Goal
      <3>1. CASE CheckIn(q)
        BY <2>2, <3>1 DEF CheckIn, TypeOK, ReleaseEligible
      <3>2. CASE CheckOut(q)
        BY <2>1, <3>2 DEF CheckOut, TypeOK, ReleaseEligible
      <3>3. CASE BulkCleaning(q)
        BY <2>2, <2>3, <3>3 DEF BulkCleaning, ReleaseEligible
      <3>4. ASSUME NEW action \in {"available", "cleaned"},
                   BulkRelease(q, action)
            PROVE  Goal
        <4>1. CASE status[q] = "occupied"
          BY <2>2, <3>4, <4>1 DEF BulkRelease, Flag, ReleaseEligible
        <4>2. CASE status[q] # "occupied"
          BY <2>1, <3>4, <4>2 DEF BulkRelease
        <4> QED BY <4>1, <4>2
      <3>5. CASE BulkMaintenance(q)
        BY <2>3, <3>5 DEF BulkMaintenance, ReleaseEligible
      <3>6. ASSUME NEW to \in RoomStatuses, AdminTransition(q, to)
            PROVE  Goal
        <4>1. q = r
          BY <3>6 DEF AdminTransition, TypeOK
        <4>2. to \notin ReleaseEligible
          BY <3>6, <4>1 DEF AdminTransition, TypeOK
        <4>3. to # "occupied"
          BY <3>6 DEF AdminTransition, IsLegal, Gate
        <4>4. to = "available"
          BY <4>2, <4>3 DEF RoomStatuses, ReleaseEligible
        <4> QED BY <3>6, <4>1, <4>4
      <3>7. CASE Repair(q)
        <4>1. q = r
          BY <3>7 DEF Repair, TypeOK
        <4>2. Target(r, guest, task, ticket) \notin ReleaseEligible
          BY <3>7, <4>1 DEF Repair, TypeOK
        <4>3. ~HasTask(r, task) /\ ~HasTicket(r, ticket)
          BY <4>2, TargetStatus DEF ReleaseEligible
        <4>4. UNCHANGED <<task, ticket>>
          BY <3>7 DEF Repair
        <4> QED BY <4>3, <4>4 DEF HasTask
      <3> QED BY <2>4, <3>1, <3>2, <3>3, <3>4, <3>5, <3>6, <3>7 DEF RoomNext
    <2>5. ASSUME NEW t \in Tasks, TaskNext(t) PROVE Goal
      <3>1. ASSUME task[t].status # "none", Finish(t) PROVE Goal
        <4> DEFINE done == [task EXCEPT ![t].status = "completed"]
        <4>1. done \in [Tasks -> TaskRow]
          BY <3>1, TaskRowUpdate DEF TaskStatuses
        <4>2. task' \in WithSuccessor(t, done)
          BY <3>1 DEF Finish
        <4>3. status' = Derive({task[t].room}, guest, done, ticket)
          BY <3>1 DEF Finish
        <4>4. \A u \in Tasks: done[u].status = "none" =>
                                task[u].status = "none"
          BY <3>1, TaskStatusRows
        <4>5. UNCHANGED ticket
          BY <3>1 DEF Finish
        <4> HIDE DEF done
        <4>6. \A u \in Tasks: task'[u] = done[u] \/ done[u].status = "none"
          BY <4>1, <4>2, SuccessorRows
        <4>7. ~HasTask(r, done) /\ ~HasTicket(r, ticket)
          BY <4>3, DeriveCases
        <4> QED BY <4>4, <4>5, <4>6, <4>7 DEF HasTask, TaskBlocks
      <3>2. CASE UNCHANGED status
        BY <2>2, <3>2
      <3>3. CASE \E rs: status' = Derive(rs, guest, task', ticket)
                        /\ UNCHANGED ticket
        BY <2>1, <3>3
      <3>4. CASE StartTask(t)
        BY <2>2, <2>3, <3>4 DEF StartTask, ReleaseEligible
      <3>5. CASE CompleteTask(t)
        BY <3>1, <3>5 DEF CompleteTask
      <3>6. CASE ApproveTask(t)
        BY <2>1, <3>1, <3>6 DEF ApproveTask, Acknowledge
      <3> QED BY <2>5, <3>2, <3>3, <3>4, <3>5, <3>6
              DEF TaskNext, CreateTask, UpdateTask, DeleteTask, SubmitTask,
                  RejectTask, ReopenTask, RequestRedo, Abandon
    <2>6. ASSUME NEW m \in Tickets, TicketNext(m) PROVE Goal
      <3>1. UNCHANGED task
        BY <2>6 DEF TicketNext, CreateTicket, AssignTicket, StartTicket,
           HoldTicket, ResolveTicket, DisapproveTicket, CloseTicket,
           CancelTicket, DeleteTicket
      <3>2. \/ UNCHANGED status
            \/ \E q: status' = Flag({q}, "maintenance", "ticket_created")
            \/ \E q: status' = Derive({q}, guest, task, ticket')
        BY <2>6 DEF TicketNext, CreateTicket, AssignTicket, StartTicket,
           HoldTicket, ResolveTicket, DisapproveTicket, CloseTicket,
           CancelTicket, DeleteTicket
      <3> QED BY <2>1, <2>2, <2>3, <3>1, <3>2 DEF ReleaseEligible
    <2> QED BY <2>4, <2>5, <2>6 DEF Next
  <1> QED BY <1>1, TypeCorrect, PTL DEF Spec, CleanRelease

=============================================================================
