---------------------------- MODULE ResourceTxn -----------------------------
(***************************************************************************)
(* One room's status under concurrent database transactions.               *)
(*                                                                         *)
(* RoomState runs each handler as one step.  Here a handler is a           *)
(* transaction of several statements under READ COMMITTED: it may read the *)
(* room without a lock, wait for row locks, insert rows that reference the *)
(* room, and commit.  The ORM session keeps one object per row: a row read *)
(* before its FOR UPDATE keeps the values of the first read, so a handler  *)
(* that loads the room before it locks it decides on what it saw, not on   *)
(* what it locked.  An attribute set to the value it was loaded with is    *)
(* not written.                                                            *)
(*                                                                         *)
(* One room, its tickets, and its two unit-board cleaning tasks.           *)
(***************************************************************************)
EXTENDS ResourceDomain, Sequences, FiniteSets

CONSTANTS
  Txns,     \* concurrent requests
  Tickets,  \* slots for maintenance tickets; all of them block
  Handlers, \* the handlers the requests may call
  Nobody    \* the holder of a free lock

ASSUME NobodyAssumption == Nobody \notin Txns

\* The tasks, by title: at most one open row each.
Titles == {"checkout", "cleaning"}

\* A ticket's row is none of the other rows a handler locks.
ASSUME TicketsAssumption ==
  Tickets \cap ({"room", "occ", "zone"} \cup Titles) = {}

\* The statements of a handler, in program order.
\*   read    load the room without a lock
\*   occ     lock the open occupancy, for a checkout
\*   zone    lock the zone's allocation pointer, to assign new work
\*   insert  insert a row that references the room (its key is share-locked)
\*   own     update the task or ticket the call is about
\*   work    lock the room's open tasks and tickets
\*   room    lock the room FOR UPDATE
\*   finish  the last writes, and the commit
UnlockedCheckOut == <<"read", "occ", "zone", "insert", "room", "finish">>
CheckOut == <<"room", "occ", "zone", "finish">>

HastyReview == <<"read", "own", "room", "finish">>
Review == <<"own", "room", "finish">>

Program == [
  check_in      |-> <<"room", "finish">>,
  check_out     |-> CheckOut,
  bulk_checkout |-> <<"read", "occ", "zone", "insert", "room", "finish">>,
  bulk_cleaning |-> <<"read", "zone", "insert", "room", "finish">>,
  bulk_release  |-> <<"read", "work", "room", "finish">>,
  create_ticket |-> <<"read", "zone", "insert", "room", "finish">>,
  close_ticket  |-> Review,
  start_task    |-> Review,
  approve_task  |-> Review,
  transition    |-> <<"room", "finish">>]

ASSUME HandlersAssumption == Handlers \subseteq DOMAIN Program

VARIABLES
  db,    \* the committed rows
  req,   \* the requests: handler, argument, statements to go, own view
  lock,  \* the exclusive row locks
  share  \* the requests that share-lock the room's key

vars == <<db, req, lock, share>>

Locks == {"room", "occ", "zone"} \cup Titles \cup Tickets

\* arg   what the call is about        gone   that row was closed meanwhile
\* seen  the room as loaded            out    it locked an open occupancy
Idle == [op |-> "none", arg |-> "none", todo |-> <<>>, seen |-> "unread",
         gone |-> FALSE, out |-> FALSE, closing |-> {}]

TypeOK ==
  /\ db.status \in RoomStatuses
  /\ db.guest \in BOOLEAN
  /\ db.tickets \subseteq Tickets
  /\ db.task \in [Titles -> {"none", "queued", "started"}]
  /\ \A x \in Txns: /\ req[x].op \in Handlers \cup {"none"}
                    /\ req[x].seen \in RoomStatuses \cup {"unread"}
                    /\ req[x].closing \subseteq Titles \cup Tickets
  /\ lock \in [Locks -> Txns \cup {Nobody}]
  /\ share \subseteq Txns
  /\ \A l \in Locks: lock[l] # Nobody => req[lock[l]] # Idle
  /\ lock["room"] # Nobody => share \subseteq {lock["room"]}

\* A room at rest, with or without tickets.
Init ==
  /\ \E T \in SUBSET Tickets:
       db = [status |-> IF T = {} THEN "available" ELSE "maintenance",
             guest |-> FALSE, tickets |-> T,
             task |-> [k \in Titles |-> "none"]]
  /\ req = [x \in Txns |-> Idle]
  /\ lock = [l \in Locks |-> Nobody]
  /\ share = {}

-----------------------------------------------------------------------------
(* What a handler is about to write *)

At(x, s) == req[x].todo # <<>> /\ Head(req[x].todo) = s

OpenTitles == {k \in Titles: db.task[k] # "none"}

\* The title a handler queues, unless an open task has it.
Queues(x, k) ==
  /\ db.task[k] = "none"
  /\ \/ k = "checkout" /\ req[x].op \in {"check_out", "bulk_checkout"}
     \/ k = "cleaning" /\ req[x].op = "bulk_cleaning"
Allocates(x) ==
  req[x].op = "create_ticket" \/ \E k \in Titles: Queues(x, k)

\* A task handler writes the status it decided on when it read its task: it
\* may bring a closed row back, unless a new one has its title.
TasksAfter(x) ==
  [k \in Titles |->
     CASE Queues(x, k) -> "queued"
       [] req[x].arg = k /\ req[x].op = "start_task" -> "started"
       [] req[x].arg = k /\ req[x].op = "approve_task" /\ ~req[x].gone -> "none"
       [] k \in req[x].closing -> "none"
       [] OTHER -> db.task[k]]

TicketsAfter(x) ==
  CASE req[x].op = "create_ticket" -> db.tickets \cup {req[x].arg}
    [] req[x].op = "close_ticket" -> db.tickets \ {req[x].arg}
    [] OTHER -> db.tickets \ req[x].closing

Held(x) ==
  TicketsAfter(x) # {} \/ \E k \in Titles: TasksAfter(x)[k] # "none"

\* Does the last statement read the occupancy, under a lock?  A derivation
\* does when no work holds the room, and a release to available always.
ReadsOccupancy(x) ==
  /\ db.guest
  /\ \/ /\ req[x].op \in {"close_ticket", "approve_task", "bulk_release"}
        /\ req[x].seen \in ReleaseEligible
        /\ ~Held(x)
     \/ req[x].op = "bulk_release" /\ req[x].seen = "occupied"
     \/ req[x].op = "transition" /\ req[x].arg = "available"

-----------------------------------------------------------------------------
(* Locks *)

\* The locks the next statement of x takes or waits for.
Wants(x) ==
  CASE At(x, "room") \/ At(x, "insert") -> {"room"}
    [] At(x, "occ") -> {l \in {"occ"}: db.guest}
    [] At(x, "zone") -> {l \in {"zone"}: Allocates(x)}
    [] At(x, "own") -> {req[x].arg}
    [] At(x, "work") -> OpenTitles \cup db.tickets
    [] At(x, "finish") -> {l \in {"occ"}: ReadsOccupancy(x)}
    [] OTHER -> {}

\* The transactions that keep x from its next statement.
Blockers(x) ==
  {y \in Txns \ {x}: \/ \E l \in Wants(x): lock[l] = y
                     \/ At(x, "room") /\ y \in share}

Ready(x, s) == At(x, s) /\ Blockers(x) = {}

\* A set of transactions each waiting for another one of the set.
Deadlocked(x) ==
  \E S \in SUBSET Txns: x \in S /\ \A y \in S: Blockers(y) \cap S # {}

Acquire(x) == lock' = [l \in Locks |-> IF l \in Wants(x) THEN x ELSE lock[l]]

\* A session that is not closed keeps its locks.
LeakyEndWith(x, closed) ==
  /\ req' = [y \in Txns |->
               IF y = x THEN Idle
               ELSE [req[y] EXCEPT !.gone = @ \/ req[y].arg \in closed]]
  /\ UNCHANGED <<lock, share>>

\* The request ends, with or without having written; a request about a row
\* that was closed under it does not learn so.
EndWith(x, closed) ==
  /\ req' = [y \in Txns |->
               IF y = x THEN Idle
               ELSE [req[y] EXCEPT !.gone = @ \/ req[y].arg \in closed]]
  /\ lock' = [l \in Locks |-> IF lock[l] = x THEN Nobody ELSE lock[l]]
  /\ share' = share \ {x}
End(x) == EndWith(x, {})

Advance(x) == [req[x] EXCEPT !.todo = Tail(@)]

-----------------------------------------------------------------------------
(* The statements *)

\* What a call may be about; its guard is read without a lock.
Arguments(op) ==
  CASE op = "create_ticket" -> Tickets \ db.tickets
    [] op = "close_ticket" -> db.tickets
    [] op = "start_task" -> {k \in Titles: db.task[k] = "queued"}
    [] op = "approve_task" -> {k \in Titles: db.task[k] = "started"}
    [] op = "transition" -> RoomStatuses
    [] OTHER -> {"none"}

\* Two requests do not create one ticket slot.
Begin(x) ==
  /\ req[x] = Idle
  /\ \E op \in Handlers:
       \E a \in Arguments(op):
         /\ op = "create_ticket" =>
              ~\E y \in Txns: req[y].op = op /\ req[y].arg = a
         /\ req' = [req EXCEPT ![x] = [Idle EXCEPT !.op = op, !.arg = a,
                                                  !.todo = Program[op]]]
  /\ UNCHANGED <<db, lock, share>>

ReadRoom(x) ==
  /\ At(x, "read")
  /\ req' = [req EXCEPT ![x] = [Advance(x) EXCEPT !.seen = db.status]]
  /\ UNCHANGED <<db, lock, share>>

\* Without an open occupancy, and a room that was not seen occupied, there
\* is nothing to check out.
LockOccupancy(x) ==
  /\ Ready(x, "occ")
  /\ UNCHANGED db
  /\ IF db.guest \/ req[x].seen = "occupied"
     THEN /\ req' = [req EXCEPT ![x] = [Advance(x) EXCEPT !.out = db.guest]]
          /\ Acquire(x)
          /\ UNCHANGED share
     ELSE End(x)

\* Without new work to assign, the insert is skipped too.
LockZone(x) ==
  /\ Ready(x, "zone")
  /\ req' = [req EXCEPT ![x].todo =
               IF Head(Tail(@)) = "insert" /\ ~Allocates(x)
               THEN Tail(Tail(@)) ELSE Tail(@)]
  /\ Acquire(x)
  /\ UNCHANGED <<db, share>>

InsertRow(x) ==
  /\ Ready(x, "insert")
  /\ req' = [req EXCEPT ![x] = Advance(x)]
  /\ share' = share \cup {x}
  /\ UNCHANGED <<db, lock>>

UpdateOwn(x) ==
  /\ Ready(x, "own")
  /\ req' = [req EXCEPT ![x] = Advance(x)]
  /\ Acquire(x)
  /\ UNCHANGED <<db, share>>

\* The release closes the work that blocks the room now.
LockWork(x) ==
  /\ Ready(x, "work")
  /\ req' = [req EXCEPT ![x] =
               [Advance(x) EXCEPT !.closing = OpenTitles \cup db.tickets]]
  /\ Acquire(x)
  /\ UNCHANGED <<db, share>>

\* A room the session already holds keeps the status it was read with.
LockRoom(x) ==
  /\ Ready(x, "room")
  /\ req' = [req EXCEPT ![x] = [Advance(x) EXCEPT
               !.seen = IF @ = "unread" THEN db.status ELSE @]]
  /\ Acquire(x)
  /\ UNCHANGED <<db, share>>

-----------------------------------------------------------------------------
(* The last writes *)

Flagged(x, to, source) ==
  IF IsLegal(req[x].seen, to, source) THEN to ELSE req[x].seen

\* derive(), on the status the session holds and the rows of now.
BlindDerived(x, guest) ==
  IF req[x].seen \notin ReleaseEligible THEN req[x].seen
  ELSE CASE TicketsAfter(x) # {} -> "maintenance"
         [] TicketsAfter(x) = {} /\ Held(x) -> "cleaning"
         [] OTHER -> "available"

Derived(x, guest) ==
  IF req[x].seen \notin ReleaseEligible THEN req[x].seen
  ELSE CASE TicketsAfter(x) # {} -> "maintenance"
         [] TicketsAfter(x) = {} /\ Held(x) -> "cleaning"
         [] OTHER -> IF guest THEN "occupied" ELSE "available"

\* The status is written if it differs from the one the session loaded.
Commit(x, guest, new) ==
  /\ db' = [status |-> IF new # req[x].seen THEN new ELSE db.status,
            guest |-> guest, tickets |-> TicketsAfter(x),
            task |-> TasksAfter(x)]
  /\ EndWith(x, {k \in OpenTitles: TasksAfter(x)[k] = "none"})

\* A refused call ends without a write.
Refuse(x) == UNCHANGED db /\ End(x)

Finishing(x, ops) == Ready(x, "finish") /\ req[x].op \in ops

CheckInRoom(x) ==
  /\ Finishing(x, {"check_in"})
  /\ IF req[x].seen = "available" /\ ~db.guest
     THEN Commit(x, TRUE, "occupied")
     ELSE Refuse(x)

\* Both entry points: the occupancy this request locked is closed, and the
\* task exists before the room moves.
CheckoutUnits(x) ==
  /\ Finishing(x, {"check_out", "bulk_checkout"})
  /\ LET guest == db.guest /\ ~req[x].out IN
     Commit(x, guest, IF req[x].seen = "occupied" THEN "cleaning"
                      ELSE Derived(x, guest))

BulkCleaning(x) ==
  /\ Finishing(x, {"bulk_cleaning"})
  /\ Commit(x, db.guest, IF req[x].seen \in {"available", "occupied"}
                         THEN "cleaning" ELSE req[x].seen)

\* The release to "available"; an occupied room is checked out by it.
BulkRelease(x) ==
  /\ Finishing(x, {"bulk_release"})
  /\ IF req[x].seen = "occupied"
     THEN Commit(x, FALSE, "available")
     ELSE Commit(x, db.guest, Derived(x, db.guest))

\* The tickets' rows change with the room's flag, in one commit.
CreateTicket(x) ==
  /\ Finishing(x, {"create_ticket"})
  /\ Commit(x, db.guest, Flagged(x, "maintenance", "ticket_created"))

\* Approval of a task and closure of a ticket: derive, nothing else.
Acknowledge(x) ==
  /\ Finishing(x, {"close_ticket", "approve_task"})
  /\ Commit(x, db.guest, Derived(x, db.guest))

\* Starting a closed row whose title was taken again fails as a whole.
StartTask(x) ==
  /\ Finishing(x, {"start_task"})
  /\ IF req[x].gone /\ req[x].arg \in OpenTitles
     THEN Refuse(x)
     ELSE Commit(x, db.guest, Flagged(x, "cleaning", "task_start"))

Transition(x) ==
  /\ Finishing(x, {"transition"})
  /\ IF IsLegal(req[x].seen, req[x].arg, "admin_override")
     THEN Commit(x, db.guest /\ req[x].arg # "available", req[x].arg)
     ELSE Refuse(x)

\* The database rolls one transaction of a cycle back.
DeadlockVictim(x) ==
  /\ Deadlocked(x)
  /\ Refuse(x)

Next == \E x \in Txns:
  \/ Begin(x)
  \/ ReadRoom(x)
  \/ LockOccupancy(x)
  \/ LockZone(x)
  \/ InsertRow(x)
  \/ UpdateOwn(x)
  \/ LockWork(x)
  \/ LockRoom(x)
  \/ CheckInRoom(x)
  \/ CheckoutUnits(x)
  \/ BulkCleaning(x)
  \/ BulkRelease(x)
  \/ CreateTicket(x)
  \/ Acknowledge(x)
  \/ StartTask(x)
  \/ Transition(x)
  \/ DeadlockVictim(x)

Spec == Init /\ [][Next]_vars

-----------------------------------------------------------------------------
(* Properties *)

\* Whatever the interleaving, and whatever a handler decided on a room it
\* read too early: a room is never on sale under an open occupancy, so a
\* second party is never checked into it (transition 195-209,
\* _release_axis, check_in_room 90-121).
NeverSoldTwice == db.guest => db.status # "available"

\* Handlers that lock the room before they look at it keep the projection:
\* an occupied room has its occupancy.
OccupiedHasGuest == db.status = "occupied" => db.guest

\* A blocking ticket always produces a maintenance projection
\* (maintenance.py 112-115).
TicketFlagged == db.tickets # {} => db.status = "maintenance"

\* No two handlers wait for each other's rows.
DeadlockFree == \A x \in Txns: ~Deadlocked(x)

=============================================================================
