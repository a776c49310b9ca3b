------------------------- MODULE ResourceTxnProofs --------------------------
(***************************************************************************)
(* ResourceTxn for any number of concurrent requests and tickets.          *)
(*                                                                         *)
(* The first theorem holds for any set of handlers and needs no account of *)
(* where a request stands: a handler may have read the room long before it *)
(* writes it, and "available" is written only together with a closed       *)
(* occupancy, or by a derivation that finds no occupancy in the database   *)
(* at that moment.  The others rest on an invariant that says which        *)
(* statements a request has left and which locks it holds meanwhile.       *)
(***************************************************************************)
EXTENDS ResourceTxn, TLAPS

\* A derivation does not put a room with a guest on sale: it returns what
\* the handler saw, which is not written, or a status for a guest.
LEMMA DerivedForGuest ==
  ASSUME NEW x \in Txns
  PROVE  \/ Derived(x, TRUE) = req[x].seen
         \/ Derived(x, TRUE) \in {"maintenance", "cleaning", "occupied"}
  <1>1. CASE req[x].seen \notin ReleaseEligible
    BY <1>1 DEF Derived
  <1>2. CASE req[x].seen \in ReleaseEligible /\ TicketsAfter(x) # {}
    BY <1>2 DEF Derived
  <1>3. CASE req[x].seen \in ReleaseEligible /\ TicketsAfter(x) = {} /\ Held(x)
    BY <1>3 DEF Derived
  <1>4. CASE req[x].seen \in ReleaseEligible /\ TicketsAfter(x) = {} /\ ~Held(x)
    BY <1>4 DEF Derived
  <1> QED BY <1>1, <1>2, <1>3, <1>4

\* A commit that leaves a guest in place keeps the room off sale, unless it
\* writes "available" over another status.
LEMMA CommitKeeps ==
  ASSUME NeverSoldTwice, NEW x \in Txns, NEW guest, NEW new,
         Commit(x, guest, new), guest => db.guest,
         guest => new = req[x].seen \/ new # "available"
  PROVE  NeverSoldTwice'
  <1>1. /\ db'.guest = guest
        /\ db'.status = IF new # req[x].seen THEN new ELSE db.status
    BY DEF Commit
  <1> QED BY <1>1 DEF NeverSoldTwice

\* A guest's room is never on sale, whatever handlers run at once and
\* whatever each of them read before it waited for its locks.
THEOREM NeverOnSale == Spec => []NeverSoldTwice
  <1>1. Init => NeverSoldTwice
    BY DEF Init, NeverSoldTwice
  <1>2. NeverSoldTwice /\ [Next]_vars => NeverSoldTwice'
    <2> SUFFICES ASSUME NeverSoldTwice, [Next]_vars
                 PROVE  NeverSoldTwice'
      OBVIOUS
    <2>1. ASSUME UNCHANGED db
          PROVE  NeverSoldTwice'
      BY <2>1 DEF NeverSoldTwice
    <2>2. ASSUME NEW x \in Txns, CheckInRoom(x)
          PROVE  NeverSoldTwice'
      <3>1. CASE Commit(x, TRUE, "occupied") /\ req[x].seen = "available"
        BY <3>1 DEF Commit, NeverSoldTwice
      <3> QED BY <2>1, <2>2, <3>1 DEF CheckInRoom, Refuse
    <2>3. ASSUME NEW x \in Txns, CheckoutUnits(x)
          PROVE  NeverSoldTwice'
      <3> DEFINE guest == db.guest /\ ~req[x].out
                 new == IF req[x].seen = "occupied" THEN "cleaning"
                        ELSE Derived(x, guest)
      <3>1. Commit(x, guest, new)
        BY <2>3 DEF CheckoutUnits
      <3>2. ASSUME guest
            PROVE  new = req[x].seen \/ new # "available"
        BY <3>2, DerivedForGuest
      <3>3. guest => db.guest
        OBVIOUS
      <3> HIDE DEF guest, new
      <3> QED BY <3>1, <3>2, <3>3, CommitKeeps
    <2>4. ASSUME NEW x \in Txns, BulkCleaning(x)
          PROVE  NeverSoldTwice'
      <3>1. PICK new: Commit(x, db.guest, new)
                      /\ (new = "cleaning" \/ new = req[x].seen)
        BY <2>4 DEF BulkCleaning
      <3> QED BY <3>1, CommitKeeps
    <2>5. ASSUME NEW x \in Txns, BulkRelease(x) \/ Acknowledge(x)
          PROVE  NeverSoldTwice'
      <3>1. CASE Commit(x, FALSE, "available")
        BY <3>1 DEF Commit, NeverSoldTwice
      <3>2. CASE Commit(x, db.guest, Derived(x, db.guest))
        <4>1. CASE ~db.guest
          BY <3>2, <4>1, CommitKeeps
        <4>2. CASE db.guest
          BY <3>2, <4>2, DerivedForGuest, CommitKeeps
        <4> QED BY <4>1, <4>2
      <3> QED BY <2>5, <3>1, <3>2 DEF BulkRelease, Acknowledge
    <2>6. ASSUME NEW x \in Txns, CreateTicket(x) \/ StartTask(x)
          PROVE  NeverSoldTwice'
      <3>1. CASE UNCHANGED db
        BY <2>1, <3>1
      <3>2. CASE \E to \in ReleaseEligible, source \in {"ticket_created", "task_start"}:
                   Commit(x, db.guest, Flagged(x, to, source))
        BY <3>2, CommitKeeps DEF Flagged, ReleaseEligible
      <3> QED BY <2>6, <3>1, <3>2
          DEF CreateTicket, StartTask, Refuse, ReleaseEligible
    <2>7. ASSUME NEW x \in Txns, Transition(x)
          PROVE  NeverSoldTwice'
      <3>1. CASE Commit(x, db.guest /\ req[x].arg # "available", req[x].arg)
        BY <3>1, CommitKeeps
      <3> QED BY <2>1, <2>7, <3>1 DEF Transition, Refuse
    <2>8. CASE UNCHANGED vars
      BY <2>1, <2>8 DEF vars
    <2> QED BY <2>1, <2>2, <2>3, <2>4, <2>5, <2>6, <2>7, <2>8
        DEF Next, Begin, ReadRoom, LockOccupancy, LockZone, InsertRow,
            UpdateOwn, LockWork, LockRoom, DeadlockVictim, Refuse
  <1> QED BY <1>1, <1>2, PTL DEF Spec

-----------------------------------------------------------------------------
(* Where a request stands *)

\* What a program has left to do before it holds the room, while it holds
\* it, and when the handler reads the room before it locks it.
Before == {<<"own", "room", "finish">>, <<"room", "occ", "zone", "finish">>,
           <<"room", "finish">>}
Holding == {<<"occ", "zone", "finish">>, <<"zone", "finish">>, <<"finish">>}
Reading == {<<"read", "occ", "zone", "insert", "room", "finish">>,
            <<"occ", "zone", "insert", "room", "finish">>,
            <<"read", "zone", "insert", "room", "finish">>,
            <<"zone", "insert", "room", "finish">>,
            <<"insert", "room", "finish">>,
            <<"read", "work", "room", "finish">>,
            <<"work", "room", "finish">>}
Releasing == {<<"read", "work", "room", "finish">>,
              <<"work", "room", "finish">>}

\* The handlers that lock the room before they look at it.
RoomFirst == {"check_in", "check_out", "close_ticket", "start_task",
              "approve_task", "transition"}

Argument(op) ==
  CASE op \in {"create_ticket", "close_ticket"} -> Tickets
    [] op \in {"start_task", "approve_task"} -> Titles
    [] op = "transition" -> RoomStatuses
    [] OTHER -> {"none"}

Row == [op: Handlers \cup {"none"},
        arg: Tickets \cup Titles \cup RoomStatuses \cup {"none"},
        todo: Before \cup Holding \cup Reading \cup {<<>>},
        seen: RoomStatuses \cup {"unread"}, gone: BOOLEAN, out: BOOLEAN,
        closing: SUBSET (Titles \cup Tickets)]

\* A request under way: from the "room" statement to its end it holds the
\* room's lock and has seen the room; only a release closes other work.
Standing(q, holds) ==
  /\ q.op \in Handlers
  /\ q.arg \in Argument(q.op)
  /\ q.todo \in Before \cup Holding \cup Reading
  /\ q.op \in RoomFirst => q.todo \notin Reading
  /\ q.todo = <<"own", "room", "finish">> => q.arg \in Titles \cup Tickets
  /\ q.todo \in Releasing => q.op = "bulk_release"
  /\ q.todo \in Holding <=> holds
  /\ holds => q.seen \in RoomStatuses

DbType ==
  /\ db.status \in RoomStatuses
  /\ db.guest \in BOOLEAN
  /\ db.tickets \in SUBSET Tickets
  /\ db.task \in [Titles -> {"none", "queued", "started"}]

LockType ==
  /\ lock \in [Locks -> Txns \cup {Nobody}]
  /\ share \in SUBSET Txns
  /\ lock["room"] # Nobody => share \subseteq {lock["room"]}

RequestType ==
  /\ req \in [Txns -> Row]
  /\ \A x \in Txns: \/ req[x] = Idle /\ \A l \in Locks: lock[l] # x
                    \/ Standing(req[x], lock["room"] = x)

\* The rows, the locks and the requests, and where each request stands.
Inv == DbType /\ LockType /\ RequestType

LEMMA ProgramHandlers ==
  DOMAIN Program = {"check_in", "check_out", "bulk_checkout", "bulk_cleaning",
                    "bulk_release", "create_ticket", "close_ticket",
                    "start_task", "approve_task", "transition"}
  BY DEF Program

\* A program starts before the room is read or locked, and takes a row of
\* its own only if its argument is one.
LEMMA ProgramStart ==
  ASSUME NEW op \in DOMAIN Program
  PROVE  /\ Program[op] \in Before \cup Reading
         /\ op \in RoomFirst => Program[op] \in Before
         /\ Program[op] = <<"own", "room", "finish">> =>
              op \in {"close_ticket", "start_task", "approve_task"}
         /\ Program[op] \in Releasing => op = "bulk_release"
  <1>1. CASE op \in {"check_in", "transition"}
    BY <1>1 DEF Program, Before, RoomFirst, Releasing
  <1>2. CASE op = "check_out"
    BY <1>2 DEF Program, CheckOut, Before, RoomFirst, Releasing
  <1>3. CASE op \in {"bulk_checkout", "bulk_cleaning", "bulk_release",
                     "create_ticket"}
    BY <1>3 DEF Program, Reading, RoomFirst, Releasing
  <1>4. CASE op \in {"close_ticket", "start_task", "approve_task"}
    BY <1>4 DEF Program, Review, Before, RoomFirst, Releasing
  <1> QED BY <1>1, <1>2, <1>3, <1>4, ProgramHandlers

\* What the next statement says of the statements left.
LEMMA NextStatement ==
  ASSUME NEW s \in Before \cup Holding \cup Reading
  PROVE  /\ s # <<>>
         /\ Head(s) = "read" => s \in Reading /\ Tail(s) \in Reading
         /\ Head(s) = "occ" => \/ s \in Holding /\ Tail(s) \in Holding
                               \/ s \in Reading /\ Tail(s) \in Reading
         /\ Head(s) = "zone" =>
              \/ s \in Holding /\ Tail(s) = <<"finish">>
              \/ s \in Reading /\ Tail(s) = <<"insert", "room", "finish">>
         /\ Head(s) = "insert" => s \in Reading /\ Tail(s) = <<"room", "finish">>
         /\ Head(s) = "own" => /\ s = <<"own", "room", "finish">>
                               /\ Tail(s) = <<"room", "finish">>
         /\ Head(s) = "work" => s \in Releasing /\ Tail(s) = <<"room", "finish">>
         /\ Head(s) = "room" => s \in Before /\ Tail(s) \in Holding
         /\ Head(s) = "finish" => s = <<"finish">>
  <1>1. CASE s = <<"own", "room", "finish">>
    BY <1>1 DEF Releasing
  <1>2. CASE s = <<"room", "occ", "zone", "finish">>
    BY <1>2 DEF Before, Holding
  <1>3. CASE s = <<"room", "finish">>
    BY <1>3 DEF Before, Holding
  <1>4. CASE s = <<"occ", "zone", "finish">>
    BY <1>4 DEF Holding, Releasing
  <1>5. CASE s = <<"zone", "finish">>
    BY <1>5 DEF Holding, Releasing
  <1>6. CASE s = <<"finish">>
    BY <1>6 DEF Releasing
  <1>7. CASE s = <<"read", "occ", "zone", "insert", "room", "finish">>
    BY <1>7 DEF Reading, Releasing
  <1>8. CASE s = <<"occ", "zone", "insert", "room", "finish">>
    BY <1>8 DEF Reading, Releasing
  <1>9. CASE s = <<"read", "zone", "insert", "room", "finish">>
    BY <1>9 DEF Reading, Releasing
  <1>10. CASE s = <<"zone", "insert", "room", "finish">>
    BY <1>10 DEF Reading, Releasing
  <1>11. CASE s = <<"insert", "room", "finish">>
    BY <1>11 DEF Reading, Releasing
  <1>12. CASE s = <<"read", "work", "room", "finish">>
    BY <1>12 DEF Reading, Releasing
  <1>13. CASE s = <<"work", "room", "finish">>
    BY <1>13 DEF Reading, Releasing
  <1> QED BY <1>1, <1>2, <1>3, <1>4, <1>5, <1>6, <1>7, <1>8, <1>9, <1>10,
             <1>11, <1>12, <1>13 DEF Before, Holding, Reading

\* Only a release has a release's statements left.
LEMMA ReleasingOnward ==
  ASSUME NEW s \in Before \cup Holding \cup Reading, s \notin Releasing
  PROVE  /\ Tail(s) \notin Releasing
         /\ Head(s) = "zone" => Tail(Tail(s)) \notin Releasing
  <1>1. CASE s = <<"own", "room", "finish">>
    BY <1>1 DEF Releasing
  <1>2. CASE s = <<"room", "occ", "zone", "finish">>
    BY <1>2 DEF Releasing
  <1>3. CASE s = <<"room", "finish">>
    BY <1>3 DEF Releasing
  <1>4. CASE s = <<"occ", "zone", "finish">>
    BY <1>4 DEF Releasing
  <1>5. CASE s = <<"zone", "finish">>
    BY <1>5 DEF Releasing
  <1>6. CASE s = <<"finish">>
    BY <1>6 DEF Releasing
  <1>7. CASE s = <<"read", "occ", "zone", "insert", "room", "finish">>
    BY <1>7 DEF Releasing
  <1>8. CASE s = <<"occ", "zone", "insert", "room", "finish">>
    BY <1>8 DEF Releasing
  <1>9. CASE s = <<"read", "zone", "insert", "room", "finish">>
    BY <1>9 DEF Releasing
  <1>10. CASE s = <<"zone", "insert", "room", "finish">>
    BY <1>10 DEF Releasing
  <1>11. CASE s = <<"insert", "room", "finish">>
    BY <1>11 DEF Releasing
  <1> QED BY <1>1, <1>2, <1>3, <1>4, <1>5, <1>6, <1>7, <1>8, <1>9, <1>10,
             <1>11 DEF Before, Holding, Reading, Releasing

\* The phases exclude each other.
LEMMA Apart ==
  /\ Before \cap Holding = {} /\ Before \cap Reading = {}
  /\ Holding \cap Reading = {} /\ Releasing \subseteq Reading
  /\ <<"finish">> \in Holding /\ <<"room", "finish">> \in Before
  /\ <<"insert", "room", "finish">> \in Reading \ Releasing
  /\ <<"own", "room", "finish">> \notin Holding \cup Reading
  <1>1. Before \cap Holding = {}
    BY DEF Before, Holding
  <1>2. Before \cap Reading = {}
    BY DEF Before, Reading
  <1>3. Holding \cap Reading = {}
    BY DEF Holding, Reading
  <1>4. /\ <<"finish">> \in Holding /\ <<"room", "finish">> \in Before
        /\ <<"insert", "room", "finish">> \in Reading
        /\ <<"own", "room", "finish">> \in Before
    BY DEF Before, Holding, Reading
  <1>5. Releasing \subseteq Reading /\ <<"insert", "room", "finish">> \notin Releasing
    BY DEF Reading, Releasing
  <1> QED BY <1>1, <1>2, <1>3, <1>4, <1>5

-----------------------------------------------------------------------------
(* The invariant, step by step *)

LEMMA IdleRow == Idle \in Row /\ Idle.op = "none" /\ Idle.arg = "none"
                 /\ Idle.todo = <<>> /\ Idle.seen = "unread"
  <1>1. Idle.closing \in SUBSET (Titles \cup Tickets)
    BY DEF Idle
  <1>2. Idle.gone \in BOOLEAN /\ Idle.out \in BOOLEAN
    BY DEF Idle
  <1> QED BY <1>1, <1>2 DEF Idle, Row

LEMMA NoneIsNoHandler == "none" \notin Handlers
  BY HandlersAssumption, ProgramHandlers

\* A request with a statement left is under way.
LEMMA AtStands ==
  ASSUME Inv, NEW x \in Txns, NEW s, At(x, s)
  PROVE  /\ req[x] \in Row /\ Standing(req[x], lock["room"] = x)
         /\ req[x].todo \in Before \cup Holding \cup Reading
         /\ req[x].todo # <<>> /\ Head(req[x].todo) = s
         /\ Advance(x) = [req[x] EXCEPT !.todo = Tail(req[x].todo)]
  BY IdleRow DEF Inv, RequestType, At, Standing, Advance

LEMMA Rows ==
  /\ Titles \cup Tickets \subseteq Locks \ {"room", "occ", "zone"}
  /\ {"room", "occ", "zone"} \subseteq Locks
  BY TicketsAssumption DEF Locks, Titles

\* The locks each statement asks for.
LEMMA WantsOf ==
  ASSUME NEW x
  PROVE  /\ At(x, "room") \/ At(x, "insert") => Wants(x) = {"room"}
         /\ At(x, "occ") => Wants(x) \subseteq {"occ"}
         /\ At(x, "zone") => Wants(x) \subseteq {"zone"}
         /\ At(x, "own") => Wants(x) = {req[x].arg}
         /\ At(x, "work") => Wants(x) = OpenTitles \cup db.tickets
         /\ At(x, "finish") => Wants(x) \subseteq {"occ"}
  BY DEF Wants, At

\* A ready statement takes free locks, and those it holds already.
LEMMA Acquires ==
  ASSUME Inv, NEW x \in Txns, Blockers(x) = {}, Acquire(x),
         Wants(x) \subseteq Locks
  PROVE  /\ lock' \in [Locks -> Txns \cup {Nobody}]
         /\ \A l \in Locks \ Wants(x): lock'[l] = lock[l]
         /\ \A l \in Wants(x): lock[l] \in {x, Nobody} /\ lock'[l] = x
  BY DEF Inv, LockType, Acquire, Blockers

\* A statement of x moves x on and may give it more locks.
LEMMA Moves ==
  ASSUME Inv, NEW x \in Txns, NEW n \in Row, req' = [req EXCEPT ![x] = n],
         UNCHANGED db, lock' \in [Locks -> Txns \cup {Nobody}],
         \A l \in Locks: \/ lock'[l] = lock[l]
                         \/ lock[l] \in {x, Nobody} /\ lock'[l] = x,
         Standing(n, lock'["room"] = x), share' \in SUBSET Txns,
         lock'["room"] # Nobody => share' \subseteq {lock'["room"]}
  PROVE  Inv'
  <1>1. DbType'
    BY DEF Inv, DbType
  <1>2. LockType'
    BY DEF LockType
  <1>3. req' \in [Txns -> Row]
    BY DEF Inv, RequestType
  <1>4. ASSUME NEW y \in Txns
        PROVE  \/ req'[y] = Idle /\ \A l \in Locks: lock'[l] # y
               \/ Standing(req'[y], lock'["room"] = y)
    <2>1. CASE y = x
      BY <2>1 DEF Inv, RequestType
    <2>2. CASE y # x
      <3>1. \A l \in Locks: lock'[l] = y <=> lock[l] = y
        BY <2>2, NobodyAssumption
      <3>2. req'[y] = req[y]
        BY <2>2 DEF Inv, RequestType
      <3>3. CASE req[y] = Idle /\ \A l \in Locks: lock[l] # y
        BY <3>1, <3>2, <3>3
      <3>4. CASE Standing(req[y], lock["room"] = y)
        BY <3>1, <3>2, <3>4, Rows DEF Standing
      <3> QED BY <3>3, <3>4 DEF Inv, RequestType
    <2> QED BY <2>1, <2>2
  <1> QED BY <1>1, <1>2, <1>3, <1>4 DEF Inv, RequestType

\* The end of a request frees its locks, whatever it wrote.
LEMMA Ends ==
  ASSUME Inv, NEW x \in Txns, NEW closed \in SUBSET Titles,
         EndWith(x, closed), DbType'
  PROVE  Inv'
  <1>1. \A l \in Locks: /\ lock[l] = x => lock'[l] = Nobody
                        /\ lock[l] # x => lock'[l] = lock[l]
    BY DEF EndWith
  <1>2. LockType'
    BY <1>1, Rows DEF Inv, LockType, EndWith
  <1>3. ASSUME NEW y \in Txns, y # x
        PROVE  /\ req'[y] = [req[y] EXCEPT
                               !.gone = @ \/ req[y].arg \in closed]
               /\ req'[y] \in Row
    <2>1. req'[y] = [req[y] EXCEPT !.gone = @ \/ req[y].arg \in closed]
      BY <1>3 DEF EndWith
    <2>2. (req[y].gone \/ req[y].arg \in closed) \in BOOLEAN
      OBVIOUS
    <2>3. req[y] \in Row
      BY DEF Inv, RequestType
    <2> QED BY <2>1, <2>2, <2>3 DEF Row
  <1>4. req'[x] = Idle
    BY DEF EndWith
  <1>5. req' \in [Txns -> Row]
    BY <1>3, <1>4, IdleRow DEF EndWith
  <1>6. ASSUME NEW y \in Txns
        PROVE  \/ req'[y] = Idle /\ \A l \in Locks: lock'[l] # y
               \/ Standing(req'[y], lock'["room"] = y)
    <2>1. CASE y = x
      BY <1>1, <1>4, <2>1, NobodyAssumption
    <2>2. CASE y # x
      <3>1. \A l \in Locks: lock'[l] = y <=> lock[l] = y
        BY <1>1, <2>2, NobodyAssumption
      <3>2. CASE req[y] = Idle /\ \A l \in Locks: lock[l] # y
        <4>1. "none" \notin closed
          BY DEF Titles
        <4>2. req[y].arg \notin closed
          BY <3>2, <4>1, IdleRow
        <4>3. req[y] \in Row
          BY <3>2, IdleRow
        <4>4. req[y].gone \in BOOLEAN
          BY <4>3 DEF Row
        <4>5. (req[y].gone \/ req[y].arg \in closed) = req[y].gone
          BY <4>2, <4>4
        <4>6. req'[y] = [req[y] EXCEPT !.gone = req[y].gone]
          BY <1>3, <2>2, <4>5
        <4>7. req'[y] = req[y]
          BY <4>3, <4>6 DEF Row
        <4> QED BY <3>1, <3>2, <4>7
      <3>3. CASE Standing(req[y], lock["room"] = y)
        <4>1. /\ req'[y].op = req[y].op /\ req'[y].arg = req[y].arg
              /\ req'[y].todo = req[y].todo /\ req'[y].seen = req[y].seen
          <5>1. req[y] \in Row
            BY DEF Inv, RequestType
          <5> QED BY <1>3, <2>2, <5>1 DEF Row
        <4> QED BY <3>1, <3>3, <4>1, Rows DEF Standing
      <3> QED BY <3>2, <3>3 DEF Inv, RequestType
    <2> QED BY <2>1, <2>2
  <1> QED BY <1>2, <1>5, <1>6 DEF Inv, RequestType

\* Rows of the kinds the tables hold are written.
LEMMA RowsAfter ==
  ASSUME Inv, NEW x \in Txns
  PROVE  /\ At(x, "finish") => TicketsAfter(x) \in SUBSET Tickets
         /\ TasksAfter(x) \in [Titles -> {"none", "queued", "started"}]
  <1>1. TasksAfter(x) \in [Titles -> {"none", "queued", "started"}]
    <2> SUFFICES ASSUME NEW k \in Titles
                 PROVE  TasksAfter(x)[k] \in {"none", "queued", "started"}
      BY DEF TasksAfter
    <2>1. db.task[k] \in {"none", "queued", "started"}
      BY DEF Inv, DbType
    <2> QED BY <2>1 DEF TasksAfter
  <1>2. ASSUME At(x, "finish") PROVE TicketsAfter(x) \in SUBSET Tickets
    <2>1. req[x].op = "create_ticket" => req[x].arg \in Tickets
      BY <1>2, AtStands DEF Standing, Argument
    <2>2. db.tickets \in SUBSET Tickets
      BY DEF Inv, DbType
    <2> QED BY <2>1, <2>2 DEF TicketsAfter
  <1> QED BY <1>1, <1>2

LEMMA Commits ==
  ASSUME Inv, NEW x \in Txns, At(x, "finish"), NEW guest \in BOOLEAN, NEW new,
         new \in RoomStatuses \/ new = req[x].seen, Commit(x, guest, new)
  PROVE  Inv'
  <1> DEFINE closed == {k \in OpenTitles: TasksAfter(x)[k] = "none"}
  <1>1. /\ db'.status = IF new # req[x].seen THEN new ELSE db.status
        /\ db'.guest = guest /\ db'.tickets = TicketsAfter(x)
        /\ db'.task = TasksAfter(x)
    BY DEF Commit
  <1>2. DbType'
    BY <1>1, RowsAfter DEF DbType, Inv
  <1>3. EndWith(x, closed)
    BY DEF Commit
  <1>4. closed \in SUBSET Titles
    BY DEF OpenTitles
  <1> QED BY <1>2, <1>3, <1>4, Ends

LEMMA Refuses ==
  ASSUME Inv, NEW x \in Txns, Refuse(x)
  PROVE  Inv'
  <1>1. DbType'
    BY DEF Refuse, Inv, DbType
  <1>2. EndWith(x, {})
    BY DEF Refuse, End
  <1> QED BY <1>1, <1>2, Ends

\* What derive and flag may return.
LEMMA DerivedType ==
  ASSUME NEW x, NEW guest
  PROVE  Derived(x, guest) \in RoomStatuses \/ Derived(x, guest) = req[x].seen
  BY DEF Derived, RoomStatuses

\* What a call may be about is a row or a status of its kind.
LEMMA ArgumentsType ==
  ASSUME Inv, NEW op \in Handlers
  PROVE  /\ Arguments(op) \subseteq Argument(op)
         /\ Argument(op) \subseteq
              Tickets \cup Titles \cup RoomStatuses \cup {"none"}
         /\ op \in {"close_ticket", "start_task", "approve_task"} =>
              Argument(op) \subseteq Titles \cup Tickets
  <1>1. db.tickets \subseteq Tickets
    BY DEF Inv, DbType
  <1> QED BY <1>1 DEF Arguments, Argument

LEMMA Begins ==
  ASSUME Inv, NEW x \in Txns, Begin(x)
  PROVE  Inv'
  <1>0. PICK op \in Handlers:
          \E a \in Arguments(op):
            req' = [req EXCEPT ![x] = [Idle EXCEPT !.op = op, !.arg = a,
                                                   !.todo = Program[op]]]
    BY DEF Begin
  <1>1. PICK a \in Arguments(op):
          req' = [req EXCEPT ![x] = [Idle EXCEPT !.op = op, !.arg = a,
                                                 !.todo = Program[op]]]
    BY <1>0
  <1> DEFINE n == [Idle EXCEPT !.op = op, !.arg = a, !.todo = Program[op]]
  <1>2. op \in DOMAIN Program
    BY HandlersAssumption
  <1>3. /\ n.op = op /\ n.arg = a /\ n.todo = Program[op]
        /\ n \in Row
    BY <1>2, ArgumentsType, ProgramStart, IdleRow DEF Row, Idle
  <1>4. lock["room"] # x
    BY Rows, NoneIsNoHandler, IdleRow DEF Begin, Inv, RequestType, Standing
  <1> HIDE DEF n
  <1>5. Standing(n, lock["room"] = x)
    <2>1. n.todo \in Before \cup Reading /\ n.todo \notin Holding
      BY <1>2, <1>3, ProgramStart, Apart
    <2>2. n.op \in RoomFirst => n.todo \notin Reading
      BY <1>2, <1>3, ProgramStart, Apart
    <2>3. n.todo = <<"own", "room", "finish">> => n.arg \in Titles \cup Tickets
      BY <1>2, <1>3, ProgramStart, ArgumentsType
    <2>4. n.todo \in Releasing => n.op = "bulk_release"
      BY <1>2, <1>3, ProgramStart
    <2> QED BY <1>3, <1>4, <2>1, <2>2, <2>3, <2>4, ArgumentsType DEF Standing
  <1>6. UNCHANGED <<db, lock, share>>
    BY DEF Begin
  <1>7. req' = [req EXCEPT ![x] = n]
    BY <1>1 DEF n
  <1>8. LockType
    BY DEF Inv
  <1>9. lock' \in [Locks -> Txns \cup {Nobody}] /\ share' \in SUBSET Txns
    BY <1>6, <1>8 DEF LockType
  <1> QED BY <1>3, <1>5, <1>6, <1>7, <1>8, <1>9, Moves DEF LockType

\* A statement other than "room" and "finish" leaves the request on the
\* same side of the room's lock.
Onward(q, r) ==
  /\ q \in Before \cup Holding \cup Reading
  /\ Head(q) \in {"read", "occ", "zone", "insert", "own", "work"}
  /\ \/ r = Tail(q)
     \/ Head(q) = "zone" /\ Head(Tail(q)) = "insert" /\ r = Tail(Tail(q))

LEMMA SameSide ==
  ASSUME NEW q, NEW r, Onward(q, r)
  PROVE  /\ r \in Before \cup Holding \cup Reading
         /\ r \in Holding <=> q \in Holding
         /\ q \notin Reading => r \notin Reading
         /\ q \notin Releasing => r \notin Releasing
         /\ r # <<"own", "room", "finish">>
  <1>0. q \notin Releasing => r \notin Releasing
    BY ReleasingOnward DEF Onward
  <1>1. \/ q \in Reading /\ r \in Reading
        \/ q \in Holding /\ r \in Holding
        \/ q \in Reading /\ r = <<"room", "finish">>
        \/ q = <<"own", "room", "finish">> /\ r = <<"room", "finish">>
    <2> USE DEF Onward
    <2>1. CASE Head(q) = "zone"
      <3>1. CASE q \in Holding /\ Tail(q) = <<"finish">>
        <4>1. Head(<<"finish">>) = "finish"
          OBVIOUS
        <4> QED BY <2>1, <3>1, <4>1, Apart
      <3>2. CASE q \in Reading /\ Tail(q) = <<"insert", "room", "finish">>
        <4>1. Tail(<<"insert", "room", "finish">>) = <<"room", "finish">>
          OBVIOUS
        <4> QED BY <2>1, <3>2, <4>1, Apart
      <3> QED BY <2>1, <3>1, <3>2, NextStatement
    <2>2. CASE Head(q) \in {"read", "occ"}
      BY <2>2, NextStatement
    <2>3. CASE Head(q) \in {"insert", "own", "work"}
      BY <2>3, NextStatement, Apart
    <2> QED BY <2>1, <2>2, <2>3
  <1> QED BY <1>0, <1>1, Apart

\* A statement that neither takes nor shares the room.
LEMMA Steps ==
  ASSUME Inv, NEW x \in Txns, NEW s, At(x, s),
         NEW n \in Row, n.op = req[x].op, n.arg = req[x].arg,
         n.seen = req[x].seen \/ n.seen = db.status,
         \/ n.todo = Tail(req[x].todo)
         \/ s = "zone" /\ Head(Tail(req[x].todo)) = "insert"
            /\ n.todo = Tail(Tail(req[x].todo)),
         req' = [req EXCEPT ![x] = n], UNCHANGED db,
         lock' \in [Locks -> Txns \cup {Nobody}], lock'["room"] = lock["room"],
         \A l \in Locks: \/ lock'[l] = lock[l]
                         \/ lock[l] \in {x, Nobody} /\ lock'[l] = x,
         share' \in SUBSET Txns,
         lock["room"] # Nobody => share' \subseteq {lock["room"]},
         s \in {"read", "occ", "zone", "insert", "own", "work"}
  PROVE  Inv'
  <1>1. /\ Standing(req[x], lock["room"] = x)
        /\ req[x].todo \in Before \cup Holding \cup Reading
        /\ Head(req[x].todo) = s
    BY AtStands
  <1>2. /\ n.todo \in Before \cup Holding \cup Reading
        /\ n.todo \in Holding <=> req[x].todo \in Holding
        /\ req[x].todo \notin Reading => n.todo \notin Reading
        /\ req[x].todo \notin Releasing => n.todo \notin Releasing
        /\ n.todo # <<"own", "room", "finish">>
    <2>1. Onward(req[x].todo, n.todo)
      BY <1>1 DEF Onward
    <2> QED BY <2>1, SameSide
  <1>3. Standing(n, lock'["room"] = x)
    BY <1>1, <1>2 DEF Standing, Inv, DbType
  <1> QED BY <1>3, Moves

\* The request's row after a statement.
LEMMA RowOnward ==
  ASSUME NEW q \in Row, NEW s \in Before \cup Holding \cup Reading, NEW n,
         n = [q EXCEPT !.todo = s]
  PROVE  /\ n \in Row /\ n.op = q.op /\ n.arg = q.arg /\ n.todo = s
         /\ n.seen = q.seen /\ n.out = q.out /\ n.closing = q.closing
  BY DEF Row

LEMMA Advanced ==
  ASSUME Inv, NEW x \in Txns, NEW s, At(x, s),
         s \in {"read", "occ", "zone", "insert", "own", "work", "room"}
  PROVE  /\ Tail(req[x].todo) \in Before \cup Holding \cup Reading
         /\ Advance(x) \in Row
         /\ Advance(x).op = req[x].op /\ Advance(x).arg = req[x].arg
         /\ Advance(x).todo = Tail(req[x].todo)
         /\ Advance(x).seen = req[x].seen
  <1>1. Tail(req[x].todo) \in Before \cup Holding \cup Reading
    <2>1. CASE s = "room"
      BY <2>1, AtStands, NextStatement
    <2>2. CASE s # "room"
      <3>1. Onward(req[x].todo, Tail(req[x].todo))
        BY <2>2, AtStands DEF Onward
      <3> QED BY <3>1, SameSide
    <2> QED BY <2>1, <2>2
  <1>2. req[x] \in Row /\ Advance(x) = [req[x] EXCEPT !.todo = Tail(req[x].todo)]
    BY AtStands
  <1> QED BY <1>1, <1>2 DEF Row

LEMMA ReadsRoom ==
  ASSUME Inv, NEW x \in Txns, ReadRoom(x)
  PROVE  Inv'
  <1> DEFINE n == [Advance(x) EXCEPT !.seen = db.status]
  <1>1. At(x, "read") /\ req' = [req EXCEPT ![x] = n]
        /\ UNCHANGED <<db, lock, share>>
    BY DEF ReadRoom
  <1>2. n \in Row /\ n.op = req[x].op /\ n.arg = req[x].arg
        /\ n.todo = Tail(req[x].todo)
        /\ (n.seen = req[x].seen \/ n.seen = db.status)
    BY <1>1, Advanced DEF Row, Inv, DbType
  <1> HIDE DEF n
  <1>3. LockType
    BY DEF Inv
  <1>4. lock' \in [Locks -> Txns \cup {Nobody}] /\ share' \in SUBSET Txns
        /\ lock' = lock
    BY <1>1, <1>3 DEF LockType
  <1> QED BY <1>1, <1>2, <1>3, <1>4, Steps DEF LockType

\* A statement that takes locks other than the room's.
LEMMA Takes ==
  ASSUME Inv, NEW x \in Txns, NEW s \in {"occ", "zone", "own", "work"},
         Ready(x, s), Acquire(x)
  PROVE  /\ lock' \in [Locks -> Txns \cup {Nobody}]
         /\ lock'["room"] = lock["room"]
         /\ \A l \in Locks: \/ lock'[l] = lock[l]
                            \/ lock[l] \in {x, Nobody} /\ lock'[l] = x
  <1>1. At(x, s) /\ Blockers(x) = {}
    BY DEF Ready
  <1>2. Wants(x) \subseteq Locks \ {"room"}
    <2>1. CASE s = "own"
      <3>1. req[x].arg \in Titles \cup Tickets
        BY <1>1, <2>1, AtStands, NextStatement DEF Standing
      <3> QED BY <1>1, <2>1, <3>1, WantsOf, Rows
    <2>2. CASE s = "work"
      BY <1>1, <2>2, WantsOf, Rows DEF OpenTitles, Inv, DbType
    <2>3. CASE s \in {"occ", "zone"}
      BY <1>1, <2>3, WantsOf, Rows
    <2> QED BY <2>1, <2>2, <2>3
  <1> QED BY <1>1, <1>2, Acquires, Rows

LEMMA LocksOccupancy ==
  ASSUME Inv, NEW x \in Txns, LockOccupancy(x)
  PROVE  Inv'
  <1>1. CASE End(x)
    BY <1>1, Refuses DEF LockOccupancy, Refuse
  <1> DEFINE n == [Advance(x) EXCEPT !.out = db.guest]
  <1>2. CASE /\ req' = [req EXCEPT ![x] = n]
             /\ Acquire(x) /\ UNCHANGED share
    <2>1. Ready(x, "occ") /\ At(x, "occ") /\ UNCHANGED db
      BY DEF LockOccupancy, Ready
    <2>2. n \in Row /\ n.op = req[x].op /\ n.arg = req[x].arg
          /\ n.todo = Tail(req[x].todo) /\ n.seen = req[x].seen
      BY <2>1, Advanced DEF Row, Inv, DbType
    <2> HIDE DEF n
    <2>3. LockType
      BY DEF Inv
    <2> QED BY <1>2, <2>1, <2>2, <2>3, Takes, Steps DEF LockType
  <1> QED BY <1>1, <1>2 DEF LockOccupancy

LEMMA LocksZone ==
  ASSUME Inv, NEW x \in Txns, LockZone(x)
  PROVE  Inv'
  <1> DEFINE left == IF Head(Tail(req[x].todo)) = "insert" /\ ~Allocates(x)
                     THEN Tail(Tail(req[x].todo)) ELSE Tail(req[x].todo)
             n == [req[x] EXCEPT !.todo = left]
  <1>1. Ready(x, "zone") /\ At(x, "zone") /\ UNCHANGED <<db, share>>
        /\ Acquire(x)
    BY DEF LockZone, Ready
  <1>2. req' = [req EXCEPT ![x] = n]
    BY DEF LockZone
  <1>4. \/ left = Tail(req[x].todo)
        \/ /\ Head(Tail(req[x].todo)) = "insert"
           /\ left = Tail(Tail(req[x].todo))
    OBVIOUS
  <1>3. left \in Before \cup Holding \cup Reading
    <2>1. Onward(req[x].todo, left)
      BY <1>1, <1>4, AtStands DEF Onward
    <2> HIDE DEF left
    <2> QED BY <2>1, SameSide
  <1> HIDE DEF left
  <1>5. n \in Row /\ n.op = req[x].op /\ n.arg = req[x].arg /\ n.todo = left
        /\ n.seen = req[x].seen
    BY <1>1, <1>3, AtStands, RowOnward
  <1> HIDE DEF n
  <1>6. LockType
    BY DEF Inv
  <1> QED BY <1>1, <1>2, <1>4, <1>5, <1>6, Takes, Steps DEF LockType

LEMMA InsertsRow ==
  ASSUME Inv, NEW x \in Txns, InsertRow(x)
  PROVE  Inv'
  <1>1. At(x, "insert") /\ Blockers(x) = {} /\ UNCHANGED <<db, lock>>
        /\ req' = [req EXCEPT ![x] = Advance(x)] /\ share' = share \cup {x}
    BY DEF InsertRow, Ready
  <1>2. LockType
    BY DEF Inv
  <1>3. lock' \in [Locks -> Txns \cup {Nobody}] /\ share' \in SUBSET Txns
        /\ lock' = lock
    BY <1>1, <1>2 DEF LockType
  <1>4. lock["room"] # Nobody => share' \subseteq {lock["room"]}
    <2>1. Wants(x) = {"room"}
      BY <1>1, WantsOf
    <2>2. lock["room"] \in {x, Nobody}
      BY <1>1, <1>2, <2>1, Rows DEF Blockers, LockType
    <2> QED BY <1>1, <1>2, <2>2 DEF LockType
  <1> QED BY <1>1, <1>3, <1>4, Advanced, Steps

LEMMA UpdatesOwn ==
  ASSUME Inv, NEW x \in Txns, UpdateOwn(x)
  PROVE  Inv'
  <1>1. Ready(x, "own") /\ At(x, "own") /\ UNCHANGED <<db, share>>
        /\ Acquire(x) /\ req' = [req EXCEPT ![x] = Advance(x)]
    BY DEF UpdateOwn, Ready
  <1>2. LockType
    BY DEF Inv
  <1> QED BY <1>1, <1>2, Advanced, Takes, Steps DEF LockType

LEMMA LocksWork ==
  ASSUME Inv, NEW x \in Txns, LockWork(x)
  PROVE  Inv'
  <1> DEFINE n == [Advance(x) EXCEPT !.closing = OpenTitles \cup db.tickets]
  <1>1. Ready(x, "work") /\ At(x, "work") /\ UNCHANGED <<db, share>>
        /\ Acquire(x) /\ req' = [req EXCEPT ![x] = n]
    BY DEF LockWork, Ready
  <1>2. n \in Row /\ n.op = req[x].op /\ n.arg = req[x].arg
        /\ n.todo = Tail(req[x].todo)
        /\ (n.seen = req[x].seen \/ n.seen = db.status)
    BY <1>1, Advanced DEF Row, Inv, DbType, OpenTitles
  <1> HIDE DEF n
  <1>3. LockType
    BY DEF Inv
  <1> QED BY <1>1, <1>2, <1>3, Takes, Steps DEF LockType

LEMMA LocksRoom ==
  ASSUME Inv, NEW x \in Txns, LockRoom(x)
  PROVE  Inv'
  <1> DEFINE n == [Advance(x) EXCEPT
                     !.seen = IF @ = "unread" THEN db.status ELSE @]
  <1>1. At(x, "room") /\ Blockers(x) = {} /\ UNCHANGED <<db, share>>
        /\ Acquire(x) /\ req' = [req EXCEPT ![x] = n]
    BY DEF LockRoom, Ready
  <1>2. n \in Row /\ n.op = req[x].op /\ n.arg = req[x].arg
        /\ n.todo = Tail(req[x].todo)
        /\ (n.seen = req[x].seen \/ n.seen = db.status)
    BY <1>1, Advanced DEF Row, Inv, DbType
  <1>0. n.seen \in RoomStatuses
    BY <1>1, AtStands DEF Advance, Row, Inv, DbType
  <1> HIDE DEF n
  <1>3. Wants(x) = {"room"}
    BY <1>1, WantsOf
  <1>4. /\ lock' \in [Locks -> Txns \cup {Nobody}]
        /\ \A l \in Locks: \/ lock'[l] = lock[l]
                           \/ lock[l] \in {x, Nobody} /\ lock'[l] = x
        /\ lock'["room"] = x
    BY <1>1, <1>3, Acquires, Rows
  <1>5. LockType
    BY DEF Inv
  <1>6. share \subseteq {x}
    BY <1>1, <1>5 DEF Blockers, LockType
  <1>7. n.todo \in Holding /\ req[x].todo \in Before
    BY <1>1, <1>2, AtStands, NextStatement
  <1>8. Standing(n, lock'["room"] = x)
    <2>1. /\ n.todo \notin Reading \cup Releasing
          /\ n.todo # <<"own", "room", "finish">>
      BY <1>7, Apart
    <2>2. Standing(req[x], lock["room"] = x)
      BY <1>1, AtStands
    <2> QED BY <1>0, <1>2, <1>4, <1>7, <2>1, <2>2 DEF Standing
  <1> QED BY <1>1, <1>2, <1>4, <1>5, <1>6, <1>8, Moves DEF LockType

LEMMA Finishes ==
  ASSUME Inv, NEW x \in Txns,
         \/ CheckInRoom(x) \/ CheckoutUnits(x) \/ BulkCleaning(x)
         \/ BulkRelease(x) \/ CreateTicket(x) \/ Acknowledge(x)
         \/ StartTask(x) \/ Transition(x)
  PROVE  Inv'
  <1>1. At(x, "finish")
    BY DEF CheckInRoom, CheckoutUnits, BulkCleaning, BulkRelease,
       CreateTicket, Acknowledge, StartTask, Transition, Finishing, Ready
  <1>2. db.guest \in BOOLEAN
    BY DEF Inv, DbType
  <1>3. ASSUME NEW guest \in BOOLEAN, NEW new,
               new \in RoomStatuses \/ new = req[x].seen, Commit(x, guest, new)
        PROVE  Inv'
    BY <1>1, <1>3, Commits
  <1>4. CASE CheckInRoom(x)
    BY <1>3, <1>4, Refuses DEF CheckInRoom, RoomStatuses
  <1>5. CASE CheckoutUnits(x)
    <2> DEFINE guest == db.guest /\ ~req[x].out
    <2>1. guest \in BOOLEAN
      BY <1>2
    <2>2. Commit(x, guest, IF req[x].seen = "occupied" THEN "cleaning"
                           ELSE Derived(x, guest))
      BY <1>5 DEF CheckoutUnits
    <2> HIDE DEF guest
    <2> QED BY <1>3, <2>1, <2>2, DerivedType DEF RoomStatuses
  <1>6. CASE BulkCleaning(x)
    BY <1>2, <1>3, <1>6 DEF BulkCleaning, RoomStatuses
  <1>7. CASE BulkRelease(x)
    BY <1>2, <1>3, <1>7, DerivedType DEF BulkRelease, RoomStatuses
  <1>8. CASE CreateTicket(x)
    BY <1>2, <1>3, <1>8 DEF CreateTicket, Flagged, RoomStatuses
  <1>9. CASE Acknowledge(x)
    BY <1>2, <1>3, <1>9, DerivedType DEF Acknowledge
  <1>10. CASE StartTask(x)
    BY <1>2, <1>3, <1>10, Refuses DEF StartTask, Flagged, RoomStatuses
  <1>11. CASE Transition(x)
    <2> DEFINE guest == db.guest /\ req[x].arg # "available"
    <2>1. guest \in BOOLEAN
      BY <1>2
    <2>2. req[x].arg \in RoomStatuses
      BY <1>1, <1>11, AtStands
         DEF Transition, Finishing, Standing, Argument
    <2>3. Refuse(x) \/ Commit(x, guest, req[x].arg)
      BY <1>11 DEF Transition
    <2> HIDE DEF guest
    <2> QED BY <1>3, <2>1, <2>2, <2>3, Refuses
  <1> QED BY <1>4, <1>5, <1>6, <1>7, <1>8, <1>9, <1>10, <1>11

LEMMA InvInductive == Inv /\ [Next]_vars => Inv'
  <1>1. ASSUME Inv, UNCHANGED vars PROVE Inv'
    BY <1>1 DEF vars, Inv, DbType, LockType, RequestType
  <1> QED BY <1>1, Begins, ReadsRoom, LocksOccupancy, LocksZone, InsertsRow,
             UpdatesOwn, LocksWork, LocksRoom, Finishes, Refuses
          DEF Next, DeadlockVictim

LEMMA InvInitial == Init => Inv
  <1> SUFFICES ASSUME Init PROVE Inv
    OBVIOUS
  <1>1. DbType
    BY DEF Init, DbType, RoomStatuses
  <1>2. LockType
    BY Rows DEF Init, LockType
  <1>3. RequestType
    BY IdleRow, NobodyAssumption DEF Init, RequestType
  <1> QED BY <1>1, <1>2, <1>3 DEF Inv

LEMMA Invariance == Spec => []Inv
  BY InvInitial, InvInductive, PTL DEF Spec

\* Whatever requests overlap, the committed rows, the requests and the locks
\* keep their types: a lock belongs to a request under way, and nobody locks
\* the room while another request shares its key.
THEOREM TypeCorrect == Spec => []TypeOK
  <1>1. Inv => TypeOK
    <2> SUFFICES ASSUME Inv PROVE TypeOK
      OBVIOUS
    <2>1. \A x \in Txns: /\ req[x].op \in Handlers \cup {"none"}
                         /\ req[x].seen \in RoomStatuses \cup {"unread"}
                         /\ req[x].closing \subseteq Titles \cup Tickets
      BY DEF Inv, RequestType, Row
    <2>2. \A l \in Locks: lock[l] # Nobody => req[lock[l]] # Idle
      BY NoneIsNoHandler, IdleRow
         DEF Inv, RequestType, LockType, Standing
    <2> QED BY <2>1, <2>2 DEF Inv, DbType, LockType, TypeOK
  <1> QED BY <1>1, Invariance, PTL

-----------------------------------------------------------------------------
(* What a handler that locks the room first knows of it *)

\* Such a handler reads the room when it locks it, and no one commits a
\* change to the room while the lock is held.
FreshRow(q) ==
  q.op \in RoomFirst => IF q.todo \in Holding THEN q.seen = db.status
                        ELSE q.seen = "unread"
Fresh == \A x \in Txns: FreshRow(req[x])

\* Every step of a request moves it on, or ends it.  A request that moves on
\* changes no row, and learns the room's status in two statements only.
MovesOn(x, n) ==
  /\ req' = [req EXCEPT ![x] = n] /\ n \in Row /\ UNCHANGED db
  /\ \/ /\ req[x] = Idle /\ n.op \in Handlers /\ n.seen = "unread"
        /\ n.todo \notin Holding /\ UNCHANGED <<lock, share>>
        /\ n.closing = {}
     \/ /\ n.op = req[x].op /\ n.arg = req[x].arg /\ n.seen = req[x].seen
        /\ n.closing = req[x].closing
        /\ Onward(req[x].todo, n.todo)
        /\ Head(req[x].todo) # "work"
     \/ /\ n.op = req[x].op /\ n.arg = req[x].arg /\ n.seen = db.status
        /\ n.closing = req[x].closing
        /\ Onward(req[x].todo, n.todo) /\ At(x, "read")
     \/ /\ n.op = req[x].op /\ n.arg = req[x].arg /\ n.seen = req[x].seen
        /\ n.closing \in SUBSET (Titles \cup Tickets)
        /\ Onward(req[x].todo, n.todo) /\ At(x, "work")
     \/ /\ n.op = req[x].op /\ n.arg = req[x].arg
        /\ n.seen = IF req[x].seen = "unread" THEN db.status ELSE req[x].seen
        /\ n.closing = req[x].closing
        /\ At(x, "room") /\ n.todo = Tail(req[x].todo)

Finish(x) ==
  \/ CheckInRoom(x) \/ CheckoutUnits(x) \/ BulkCleaning(x) \/ BulkRelease(x)
  \/ CreateTicket(x) \/ Acknowledge(x) \/ StartTask(x) \/ Transition(x)

LEMMA StepShape ==
  ASSUME Inv, Next
  PROVE  \E x \in Txns: \/ \E n \in Row: MovesOn(x, n)
                        \/ UNCHANGED db /\ EndWith(x, {})
                        \/ Finish(x) /\ At(x, "finish")
  <1>1. ASSUME NEW x \in Txns, Begin(x)
        PROVE  \E n \in Row: MovesOn(x, n)
    <2>0. PICK op \in Handlers:
            \E a \in Arguments(op):
              req' = [req EXCEPT ![x] = [Idle EXCEPT !.op = op, !.arg = a,
                                                     !.todo = Program[op]]]
      BY <1>1 DEF Begin
    <2>1. PICK a \in Arguments(op):
            req' = [req EXCEPT ![x] = [Idle EXCEPT !.op = op, !.arg = a,
                                                   !.todo = Program[op]]]
      BY <2>0
    <2> DEFINE n == [Idle EXCEPT !.op = op, !.arg = a, !.todo = Program[op]]
    <2>2. op \in DOMAIN Program
      BY HandlersAssumption
    <2>3. /\ n.op = op /\ n.todo = Program[op] /\ n.seen = "unread"
          /\ n.closing = {} /\ n \in Row
      BY <2>2, ArgumentsType, ProgramStart, IdleRow DEF Row, Idle
    <2>4. n.todo \notin Holding
      BY <2>2, <2>3, ProgramStart, Apart
    <2>5. req' = [req EXCEPT ![x] = n]
      BY <2>1
    <2> HIDE DEF n
    <2>6. MovesOn(x, n)
      BY <1>1, <2>3, <2>4, <2>5 DEF MovesOn, Begin
    <2> QED BY <2>3, <2>6
  <1>2. ASSUME NEW x \in Txns, NEW s, At(x, s),
               s \in {"read", "occ", "zone", "insert", "own", "work"}
        PROVE  Onward(req[x].todo, Tail(req[x].todo))
    BY <1>2, AtStands DEF Onward
  <1>3. ASSUME NEW x \in Txns, NEW s, At(x, s),
               s \in {"occ", "zone", "insert", "own"},
               UNCHANGED db, req' = [req EXCEPT ![x] = Advance(x)]
        PROVE  \E n \in Row: MovesOn(x, n)
    <2>1. /\ Advance(x) \in Row /\ Advance(x).closing = req[x].closing
          /\ Head(req[x].todo) # "work"
      BY <1>3, Advanced, AtStands DEF Row
    <2>2. MovesOn(x, Advance(x))
      BY <1>2, <1>3, <2>1, Advanced DEF MovesOn
    <2> QED BY <2>1, <2>2
  <1>4. ASSUME NEW x \in Txns, ReadRoom(x)
        PROVE  \E n \in Row: MovesOn(x, n)
    <2> DEFINE n == [Advance(x) EXCEPT !.seen = db.status]
    <2>1. At(x, "read") /\ req' = [req EXCEPT ![x] = n] /\ UNCHANGED db
      BY <1>4 DEF ReadRoom
    <2>2. /\ n \in Row /\ n.op = req[x].op /\ n.arg = req[x].arg
          /\ n.todo = Tail(req[x].todo) /\ n.seen = db.status
          /\ n.closing = Advance(x).closing
      BY <2>1, Advanced DEF Row, Inv, DbType
    <2>3. Advance(x).closing = req[x].closing
      BY <2>1, AtStands, Advanced DEF Row
    <2> HIDE DEF n
    <2>4. MovesOn(x, n)
      BY <1>2, <2>1, <2>2, <2>3 DEF MovesOn
    <2> QED BY <2>2, <2>4
  <1>5. ASSUME NEW x \in Txns, LockOccupancy(x)
        PROVE  \/ \E n \in Row: MovesOn(x, n)
               \/ UNCHANGED db /\ EndWith(x, {})
    <2>1. CASE End(x)
      BY <1>5, <2>1 DEF LockOccupancy, End
    <2> DEFINE n == [Advance(x) EXCEPT !.out = db.guest]
    <2>2. CASE req' = [req EXCEPT ![x] = n]
      <3>1. At(x, "occ") /\ UNCHANGED db
        BY <1>5 DEF LockOccupancy, Ready
      <3>2. /\ n \in Row /\ n.op = req[x].op /\ n.arg = req[x].arg
            /\ n.todo = Tail(req[x].todo) /\ n.seen = req[x].seen
            /\ n.closing = Advance(x).closing
        BY <3>1, Advanced DEF Row, Inv, DbType
      <3>3. Advance(x).closing = req[x].closing /\ Head(req[x].todo) # "work"
        BY <3>1, AtStands, Advanced DEF Row
      <3> HIDE DEF n
      <3>4. MovesOn(x, n)
        BY <1>2, <2>2, <3>1, <3>2, <3>3 DEF MovesOn
      <3> QED BY <3>2, <3>4
    <2> QED BY <1>5, <2>1, <2>2 DEF LockOccupancy
  <1>6. ASSUME NEW x \in Txns, LockZone(x)
        PROVE  \E n \in Row: MovesOn(x, n)
    <2> DEFINE left == IF Head(Tail(req[x].todo)) = "insert" /\ ~Allocates(x)
                       THEN Tail(Tail(req[x].todo)) ELSE Tail(req[x].todo)
               n == [req[x] EXCEPT !.todo = left]
    <2>1. At(x, "zone") /\ UNCHANGED db /\ req' = [req EXCEPT ![x] = n]
      BY <1>6 DEF LockZone, Ready
    <2>2. Onward(req[x].todo, left)
      BY <2>1, AtStands DEF Onward
    <2> HIDE DEF left
    <2>3. left \in Before \cup Holding \cup Reading
      BY <2>2, SameSide
    <2>4. /\ n \in Row /\ n.op = req[x].op /\ n.arg = req[x].arg
          /\ n.todo = left /\ n.seen = req[x].seen /\ n.closing = req[x].closing
          /\ Head(req[x].todo) # "work"
      BY <2>1, <2>3, AtStands, RowOnward
    <2> HIDE DEF n
    <2>5. MovesOn(x, n)
      BY <2>1, <2>2, <2>4 DEF MovesOn
    <2> QED BY <2>4, <2>5
  <1>7. ASSUME NEW x \in Txns, LockWork(x)
        PROVE  \E n \in Row: MovesOn(x, n)
    <2> DEFINE n == [Advance(x) EXCEPT !.closing = OpenTitles \cup db.tickets]
    <2>1. At(x, "work") /\ req' = [req EXCEPT ![x] = n] /\ UNCHANGED db
      BY <1>7 DEF LockWork, Ready
    <2>2. /\ n \in Row /\ n.op = req[x].op /\ n.arg = req[x].arg
          /\ n.todo = Tail(req[x].todo) /\ n.seen = req[x].seen
      BY <2>1, Advanced DEF Row, Inv, DbType, OpenTitles
    <2>3. n.closing \in SUBSET (Titles \cup Tickets)
      BY <2>2 DEF Row
    <2> HIDE DEF n
    <2>4. MovesOn(x, n)
      BY <1>2, <2>1, <2>2, <2>3 DEF MovesOn
    <2> QED BY <2>2, <2>4
  <1>8. ASSUME NEW x \in Txns, LockRoom(x)
        PROVE  \E n \in Row: MovesOn(x, n)
    <2> DEFINE n == [Advance(x) EXCEPT
                       !.seen = IF @ = "unread" THEN db.status ELSE @]
    <2>1. At(x, "room") /\ req' = [req EXCEPT ![x] = n] /\ UNCHANGED db
      BY <1>8 DEF LockRoom, Ready
    <2>2. /\ n \in Row /\ n.op = req[x].op /\ n.arg = req[x].arg
          /\ n.todo = Tail(req[x].todo)
          /\ n.seen = IF req[x].seen = "unread" THEN db.status ELSE req[x].seen
          /\ n.closing = Advance(x).closing
      BY <2>1, Advanced DEF Row, Inv, DbType
    <2>3. Advance(x).closing = req[x].closing
      BY <2>1, AtStands, Advanced DEF Row
    <2> HIDE DEF n
    <2>4. MovesOn(x, n)
      BY <2>1, <2>2, <2>3 DEF MovesOn
    <2> QED BY <2>2, <2>4
  <1>9. ASSUME NEW x \in Txns, InsertRow(x) \/ UpdateOwn(x)
        PROVE  \E n \in Row: MovesOn(x, n)
    BY <1>3, <1>9 DEF InsertRow, UpdateOwn, Ready
  <1>10. ASSUME NEW x \in Txns, DeadlockVictim(x)
         PROVE  UNCHANGED db /\ EndWith(x, {})
    BY <1>10 DEF DeadlockVictim, Refuse, End
  <1>11. ASSUME NEW x \in Txns, Finish(x)
         PROVE  At(x, "finish")
    BY <1>11 DEF Finish, CheckInRoom, CheckoutUnits, BulkCleaning, BulkRelease,
       CreateTicket, Acknowledge, StartTask, Transition, Finishing, Ready
  <1> QED BY <1>1, <1>4, <1>5, <1>6, <1>7, <1>8, <1>9, <1>10, <1>11
          DEF Next, Finish

\* A finish is a commit or a refusal.
LEMMA FinishEnds ==
  ASSUME NEW x, Finish(x)
  PROVE  \/ UNCHANGED db /\ EndWith(x, {})
         \/ \E guest, new: Commit(x, guest, new)
  BY DEF Finish, CheckInRoom, CheckoutUnits, BulkCleaning, BulkRelease,
     CreateTicket, Acknowledge, StartTask, Transition, Refuse, End

\* What the end of a request leaves of the others.
LEMMA EndKeeps ==
  ASSUME Inv, NEW x \in Txns, NEW closed, EndWith(x, closed),
         NEW y \in Txns
  PROVE  IF y = x THEN req'[y] = Idle
         ELSE /\ req'[y].op = req[y].op /\ req'[y].todo = req[y].todo
              /\ req'[y].seen = req[y].seen /\ req'[y].closing = req[y].closing
  <1>1. req[y] \in Row
    BY DEF Inv, RequestType
  <1> QED BY <1>1 DEF EndWith, Row

\* A request that is about to finish holds the room's lock, alone.
LEMMA FinishHolds ==
  ASSUME Inv, NEW x \in Txns, At(x, "finish")
  PROVE  /\ lock["room"] = x /\ req[x].todo = <<"finish">>
         /\ req[x].todo \in Holding /\ req[x].seen \in RoomStatuses
         /\ req[x].op \in Handlers
         /\ \A y \in Txns \ {x}: req[y].todo \notin Holding
  <1>1. /\ Standing(req[x], lock["room"] = x)
        /\ req[x].todo = <<"finish">> /\ req[x].todo \in Holding
    BY AtStands, NextStatement, Apart
  <1>2. Idle.todo \notin Holding
    <2>1. ASSUME <<>> \in Holding PROVE FALSE
      BY <2>1 DEF Holding
    <2> QED BY <2>1, IdleRow
  <1> QED BY <1>1, <1>2 DEF Standing, Inv, RequestType

LEMMA FreshInductive == Inv /\ Fresh /\ [Next]_vars => Fresh'
  <1> SUFFICES ASSUME Inv, Fresh, [Next]_vars PROVE Fresh'
    OBVIOUS
  <1>0. "none" \notin RoomFirst
    BY DEF RoomFirst
  <1>1. ASSUME NEW x \in Txns, NEW n \in Row, MovesOn(x, n)
        PROVE  Fresh'
    <2>1. UNCHANGED db
      BY <1>1 DEF MovesOn
    <2>2. \A y \in Txns \ {x}: req'[y] = req[y]
      BY <1>1 DEF MovesOn, Inv, RequestType
    <2>3. req'[x] = n
      BY <1>1 DEF MovesOn, Inv, RequestType
    <2>4. FreshRow(n)
      <3>1. FreshRow(req[x])
        BY DEF Fresh
      <3>2. CASE req[x] = Idle /\ n.seen = "unread" /\ n.todo \notin Holding
        BY <3>2 DEF FreshRow
      <3>3. CASE /\ n.op = req[x].op /\ n.seen = req[x].seen
                 /\ Onward(req[x].todo, n.todo)
        BY <3>1, <3>3, SameSide DEF FreshRow
      <3>4. CASE n.op = req[x].op /\ At(x, "read")
        <4>1. req[x].op \notin RoomFirst
          BY <3>4, AtStands, NextStatement DEF Standing
        <4> QED BY <3>4, <4>1 DEF FreshRow
      <3>5. CASE /\ n.op = req[x].op
                 /\ n.seen = IF req[x].seen = "unread" THEN db.status
                             ELSE req[x].seen
                 /\ At(x, "room") /\ n.todo = Tail(req[x].todo)
        <4>1. req[x].todo \notin Holding /\ n.todo \in Holding
          BY <3>5, AtStands, NextStatement, Apart
        <4> QED BY <3>1, <3>5, <4>1 DEF FreshRow
      <3> QED BY <1>1, <3>2, <3>3, <3>4, <3>5 DEF MovesOn
    <2> QED BY <2>1, <2>2, <2>3, <2>4 DEF Fresh, FreshRow
  <1>2. ASSUME NEW x \in Txns, NEW closed, EndWith(x, closed),
               \/ UNCHANGED db
               \/ \A y \in Txns \ {x}: req[y].todo \notin Holding
        PROVE  Fresh'
    <2> SUFFICES ASSUME NEW y \in Txns PROVE FreshRow(req[y])'
      BY DEF Fresh
    <2>1. CASE y = x
      BY <1>0, <1>2, <2>1, EndKeeps, IdleRow DEF FreshRow
    <2>2. CASE y # x
      <3>1. FreshRow(req[y])
        BY DEF Fresh
      <3> QED BY <1>2, <2>2, <3>1, EndKeeps DEF FreshRow
    <2> QED BY <2>1, <2>2
  <1>3. ASSUME NEW x \in Txns, Finish(x), At(x, "finish")
        PROVE  Fresh'
    BY <1>2, <1>3, FinishEnds, FinishHolds DEF Commit
  <1>4. CASE UNCHANGED vars
    BY <1>4 DEF vars, Fresh, FreshRow
  <1> QED BY <1>1, <1>2, <1>3, <1>4, StepShape

LEMMA Freshness == Spec => []Fresh
  <1>1. Init => Fresh
    BY IdleRow DEF Init, Fresh, FreshRow, RoomFirst
  <1> QED BY <1>1, FreshInductive, Invariance, PTL DEF Spec

\* What a handler that locked the room first has seen is what is committed.
LEMMA FinishSees ==
  ASSUME Inv, Fresh, NEW x \in Txns, At(x, "finish"), req[x].op \in RoomFirst
  PROVE  req[x].seen = db.status
  BY FinishHolds DEF Fresh, FreshRow

-----------------------------------------------------------------------------
(* The projection under concurrency *)

\* When a derivation says occupied, and when maintenance.
LEMMA DerivedWhen ==
  ASSUME NEW x, NEW guest
  PROVE  /\ Derived(x, guest) = "occupied" => guest \/ req[x].seen = "occupied"
         /\ req[x].seen \notin ReleaseEligible =>
              Derived(x, guest) = req[x].seen
         /\ req[x].seen \in ReleaseEligible =>
              (Derived(x, guest) = "maintenance" <=> TicketsAfter(x) # {})
  <1>1. CASE req[x].seen \notin ReleaseEligible
    BY <1>1 DEF Derived
  <1>2. CASE req[x].seen \in ReleaseEligible /\ TicketsAfter(x) # {}
    BY <1>2 DEF Derived
  <1>3. CASE req[x].seen \in ReleaseEligible /\ TicketsAfter(x) = {} /\ Held(x)
    BY <1>3 DEF Derived
  <1>4. CASE req[x].seen \in ReleaseEligible /\ TicketsAfter(x) = {} /\ ~Held(x)
    BY <1>4 DEF Derived
  <1> QED BY <1>1, <1>2, <1>3, <1>4

LEMMA Committed ==
  ASSUME NEW x, NEW guest, NEW new, Commit(x, guest, new)
  PROVE  /\ db'.status = IF new # req[x].seen THEN new ELSE db.status
         /\ db'.guest = guest /\ db'.tickets = TicketsAfter(x)
  BY DEF Commit

\* An occupied room has its guest, whatever requests overlap: every handler
\* but the unit board's checkout keeps it, those that read the room early
\* included.  That one closes the occupancy on a status it read before it
\* waited, and may leave the room occupied.
THEOREM OccupiedIsKept ==
  ASSUME "bulk_checkout" \notin Handlers
  PROVE  Spec => []OccupiedHasGuest
  <1>1. Init => OccupiedHasGuest
    BY DEF Init, OccupiedHasGuest
  <1>2. Inv /\ Fresh /\ OccupiedHasGuest /\ [Next]_vars => OccupiedHasGuest'
    <2> SUFFICES ASSUME Inv, Fresh, OccupiedHasGuest, [Next]_vars
                 PROVE  OccupiedHasGuest'
      OBVIOUS
    <2>1. ASSUME UNCHANGED db PROVE OccupiedHasGuest'
      BY <2>1 DEF OccupiedHasGuest
    <2>2. ASSUME NEW x \in Txns, NEW guest, NEW new, Commit(x, guest, new),
                 new = "occupied" /\ new # req[x].seen => guest,
                 new = req[x].seen => db.status # "occupied" \/ guest = db.guest
          PROVE  OccupiedHasGuest'
      BY <2>2, Committed DEF OccupiedHasGuest
    <2>3. ASSUME NEW x \in Txns, Finish(x), At(x, "finish")
          PROVE  OccupiedHasGuest'
      <3>1. CASE CheckInRoom(x)
        BY <2>1, <2>2, <3>1 DEF CheckInRoom, Refuse
      <3>2. CASE CheckoutUnits(x)
        <4>1. req[x].op = "check_out"
          BY <2>3, <3>2, FinishHolds DEF CheckoutUnits, Finishing
        <4>2. req[x].seen = db.status
          BY <2>3, <4>1, FinishSees DEF RoomFirst
        <4> DEFINE guest == db.guest /\ ~req[x].out
                   new == IF req[x].seen = "occupied" THEN "cleaning"
                          ELSE Derived(x, guest)
        <4>3. Commit(x, guest, new)
          BY <3>2 DEF CheckoutUnits
        <4>4. new = "occupied" => guest
          BY DerivedWhen
        <4>5. new = req[x].seen => db.status # "occupied"
          BY <4>2
        <4> HIDE DEF guest, new
        <4> QED BY <2>2, <4>3, <4>4, <4>5
      <3>3. CASE BulkCleaning(x)
        BY <2>2, <3>3 DEF BulkCleaning
      <3>4. CASE BulkRelease(x)
        <4>1. CASE Commit(x, FALSE, "available") /\ req[x].seen = "occupied"
          BY <2>2, <4>1
        <4>2. CASE Commit(x, db.guest, Derived(x, db.guest))
          BY <2>2, <4>2, DerivedWhen
        <4> QED BY <3>4, <4>1, <4>2 DEF BulkRelease
      <3>5. CASE CreateTicket(x)
        BY <2>2, <3>5 DEF CreateTicket, Flagged
      <3>6. CASE Acknowledge(x)
        BY <2>2, <3>6, DerivedWhen DEF Acknowledge
      <3>7. CASE StartTask(x)
        BY <2>1, <2>2, <3>7 DEF StartTask, Flagged, Refuse
      <3>8. CASE Transition(x)
        <4>1. CASE Refuse(x)
          BY <2>1, <4>1 DEF Refuse
        <4>2. CASE IsLegal(req[x].seen, req[x].arg, "admin_override")
          <5>1. req[x].seen \in RoomStatuses
            BY <2>3, FinishHolds
          <5>2. req[x].arg # req[x].seen /\ req[x].arg # "occupied"
            BY <4>2, <5>1
               DEF IsLegal, RoomTransitions, RoomStatuses, Gate
          <5>3. Commit(x, db.guest /\ req[x].arg # "available", req[x].arg)
            BY <3>8, <4>2 DEF Transition
          <5> QED BY <2>2, <5>2, <5>3
        <4> QED BY <3>8, <4>1, <4>2 DEF Transition
      <3> QED BY <2>3, <3>1, <3>2, <3>3, <3>4, <3>5, <3>6, <3>7, <3>8
              DEF Finish
    <2>4. CASE UNCHANGED vars
      BY <2>1, <2>4 DEF vars
    <2> QED BY <2>1, <2>3, <2>4, StepShape DEF MovesOn
  <1> QED BY <1>1, <1>2, Invariance, Freshness, PTL DEF Spec

\* Handlers that raise tickets and close none, with those that lock the room
\* before they read it: a maintenance room and a blocking ticket go together
\* and a request that has seen maintenance is right about the ticket.
Raisers == {"check_in", "check_out", "create_ticket", "start_task",
            "approve_task"}

Raised ==
  /\ db.tickets # {} <=> db.status = "maintenance"
  /\ \A x \in Txns: req[x].seen = "maintenance" => db.tickets # {}
  /\ \A x \in Txns: req[x].closing = {}

\* A blocking ticket always shows, although the handler that raises it may
\* have read the room long before it flags it.
THEOREM TicketsShow ==
  ASSUME Handlers \subseteq Raisers
  PROVE  Spec => []TicketFlagged
  <1>1. Init => Raised
    <2>1. Idle.closing = {}
      BY DEF Idle
    <2> QED BY <2>1, IdleRow DEF Init, Raised
  <1>2. Inv /\ Fresh /\ Raised /\ [Next]_vars => Raised'
    <2> SUFFICES ASSUME Inv, Fresh, Raised, [Next]_vars
                 PROVE  Raised'
      OBVIOUS
    <2>1. ASSUME NEW x \in Txns, NEW n \in Row, MovesOn(x, n)
          PROVE  Raised'
      <3>1. \A y \in Txns \ {x}: req'[y] = req[y]
        BY <2>1 DEF MovesOn, Inv, RequestType
      <3>2. req'[x] = n /\ UNCHANGED db
        BY <2>1 DEF MovesOn, Inv, RequestType
      <3>3. n.seen = "maintenance" => db.tickets # {}
        BY <2>1 DEF MovesOn, Raised
      <3>4. n.closing = {}
        <4>1. ~At(x, "work")
          <5> SUFFICES ASSUME At(x, "work") PROVE FALSE
            OBVIOUS
          <5>1. req[x].op = "bulk_release" /\ req[x].op \in Handlers
            BY AtStands, NextStatement DEF Standing
          <5> QED BY <5>1 DEF Raisers
        <4> QED BY <2>1, <4>1 DEF MovesOn, Raised
      <3> QED BY <3>1, <3>2, <3>3, <3>4 DEF Raised
    <2>2. ASSUME NEW x \in Txns, NEW closed, EndWith(x, closed),
                 db'.tickets # {} <=> db'.status = "maintenance",
                 db.tickets # {} => db'.tickets # {}
          PROVE  Raised'
      <3>1. Idle.closing = {}
        BY DEF Idle
      <3> QED BY <2>2, <3>1, EndKeeps, IdleRow DEF Raised
    <2>3. ASSUME NEW x \in Txns, UNCHANGED db, EndWith(x, {})
          PROVE  Raised'
      BY <2>2, <2>3 DEF Raised
    <2>4. ASSUME NEW x \in Txns, NEW guest, NEW new, Commit(x, guest, new),
                 req[x].seen = db.status,
                 req[x].op # "create_ticket", req[x].op # "close_ticket",
                 new = "maintenance" <=> req[x].seen = "maintenance"
          PROVE  Raised'
      <3>1. TicketsAfter(x) = db.tickets
        BY <2>4 DEF TicketsAfter, Raised
      <3>2. \E closed: EndWith(x, closed)
        BY <2>4 DEF Commit
      <3> QED BY <2>2, <2>4, <3>1, <3>2, Committed DEF Raised
    <2>5. ASSUME NEW x \in Txns, Finish(x), At(x, "finish")
          PROVE  Raised'
      <3>1. req[x].op \in Raisers /\ req[x].seen \in RoomStatuses
        BY <2>5, FinishHolds
      <3>2. req[x].op # "create_ticket" => req[x].seen = db.status
        BY <2>5, <3>1, FinishSees DEF Raisers, RoomFirst
      <3>3. ASSUME NEW guest, req[x].op # "create_ticket"
            PROVE  Derived(x, guest) = "maintenance" <=>
                     req[x].seen = "maintenance"
        <4>1. TicketsAfter(x) = db.tickets
          BY <3>1, <3>3 DEF TicketsAfter, Raised, Raisers
        <4> QED BY <3>2, <3>3, <4>1, DerivedWhen DEF Raised, ReleaseEligible
      <3>4. CASE CheckInRoom(x)
        BY <2>3, <2>4, <3>2, <3>4 DEF CheckInRoom, Finishing, Refuse, End
      <3>5. CASE CheckoutUnits(x)
        BY <2>4, <3>2, <3>3, <3>5 DEF CheckoutUnits, Finishing
      <3>6. CASE Acknowledge(x)
        <4>1. req[x].op = "approve_task"
          BY <3>1, <3>6 DEF Acknowledge, Finishing, Raisers
        <4> QED BY <2>4, <3>2, <3>3, <3>6, <4>1 DEF Acknowledge
      <3>7. CASE StartTask(x)
        <4>1. Flagged(x, "cleaning", "task_start") = "maintenance" <=>
                req[x].seen = "maintenance"
          BY <3>1 DEF Flagged, IsLegal, RoomTransitions, RoomStatuses
        <4> QED BY <2>3, <2>4, <3>2, <3>7, <4>1
                DEF StartTask, Finishing, Refuse, End
      <3>8. CASE CreateTicket(x)
        <4>1. req[x].op = "create_ticket"
          BY <3>8 DEF CreateTicket, Finishing
        <4>2. TicketsAfter(x) = db.tickets \cup {req[x].arg}
          BY <4>1 DEF TicketsAfter
        <4>3. Flagged(x, "maintenance", "ticket_created") = "maintenance"
          BY <3>1 DEF Flagged, IsLegal, RoomTransitions, RoomStatuses, Gate,
                      Sources
        <4>4. Commit(x, db.guest, "maintenance")
          BY <3>8, <4>3 DEF CreateTicket
        <4>5. db'.status = "maintenance"
          BY <4>4, Committed DEF Raised
        <4>6. db'.tickets # {}
          BY <4>2, <4>4, Committed
        <4>7. \E closed: EndWith(x, closed)
          BY <4>4 DEF Commit
        <4> QED BY <2>2, <4>5, <4>6, <4>7
      <3> QED BY <2>5, <3>1, <3>4, <3>5, <3>6, <3>7, <3>8
              DEF Finish, BulkCleaning, BulkRelease, Transition, Finishing,
                  Raisers
    <2>6. CASE UNCHANGED vars
      BY <2>6 DEF vars, Raised
    <2> QED BY <2>1, <2>3, <2>5, <2>6, StepShape
  <1>3. Raised => TicketFlagged
    BY DEF Raised, TicketFlagged
  <1> QED BY <1>1, <1>2, <1>3, Invariance, Freshness, PTL DEF Spec

-----------------------------------------------------------------------------
(* Lock order *)

\* Handlers that lock the room first take the occupancy and the pointer
\* under it, and their own row before it.
Ordered ==
  /\ share = {}
  /\ lock["occ"] \in {Nobody, lock["room"]}
  /\ lock["zone"] \in {Nobody, lock["room"]}
  /\ \A l \in Titles \cup Tickets: lock[l] # Nobody =>
       req[lock[l]].todo \in {<<"room", "finish">>, <<"finish">>}

\* A statement of one of these handlers, and the side of the room it is on.
LEMMA RoomFirstStatement ==
  ASSUME Inv, NEW x \in Txns, NEW s, At(x, s), req[x].op \in RoomFirst
  PROVE  /\ s \in {"own", "room", "occ", "zone", "finish"}
         /\ s \in {"occ", "zone", "finish"} => lock["room"] = x
         /\ s = "own" => req[x].todo = <<"own", "room", "finish">>
         /\ s \in {"own", "room"} => lock["room"] # x
  <1>1. /\ Standing(req[x], lock["room"] = x) /\ Head(req[x].todo) = s
        /\ req[x].todo \in Before \cup Holding
    BY AtStands DEF Standing
  <1>2. s \in {"own", "room", "occ", "zone", "finish"}
    BY <1>1 DEF Before, Holding
  <1> QED BY <1>1, <1>2, NextStatement, Apart DEF Standing

LEMMA OrderedInductive ==
  ASSUME Handlers \subseteq RoomFirst, Inv, Ordered, [Next]_vars
  PROVE  Ordered'
  <1>1. ASSUME NEW x \in Txns, NEW s, At(x, s)
        PROVE  req[x].op \in RoomFirst
    BY <1>1, AtStands DEF Standing
  <1>2. ASSUME NEW x \in Txns, Begin(x) PROVE Ordered'
    <2>1. /\ UNCHANGED <<lock, share>> /\ req[x] = Idle
          /\ \A y \in Txns \ {x}: req'[y] = req[y]
      BY <1>2 DEF Begin, Inv, RequestType
    <2>2. \A l \in Locks: lock[l] # x
      BY <2>1, NoneIsNoHandler, IdleRow DEF Inv, RequestType, Standing
    <2>3. \A l \in Locks: lock[l] # Nobody => lock[l] \in Txns \ {x}
      BY <2>2 DEF Inv, LockType
    <2> QED BY <2>1, <2>3, Rows DEF Ordered
  <1>3. ASSUME NEW x \in Txns, NEW s \in {"occ", "zone"}, Ready(x, s),
               Acquire(x), UNCHANGED share,
               \A y \in Txns \ {x}: req'[y] = req[y]
        PROVE  Ordered'
    <2>1. At(x, s) /\ Blockers(x) = {}
      BY <1>3 DEF Ready
    <2>2. lock["room"] = x
      BY <1>1, <2>1, RoomFirstStatement
    <2>3. Wants(x) \subseteq {"occ", "zone"}
      BY <2>1, WantsOf
    <2>4. /\ \A l \in Locks \ Wants(x): lock'[l] = lock[l]
          /\ \A l \in Wants(x): lock'[l] = x
      BY <1>3, <2>1, <2>3, Rows, Acquires
    <2>5. \A l \in Titles \cup Tickets: lock'[l] = lock[l] /\ lock[l] # x
      <3>1. req[x].todo \notin {<<"room", "finish">>, <<"finish">>}
        <4>1. Head(req[x].todo) \in {"occ", "zone"}
          BY <2>1 DEF At
        <4> QED BY <4>1
      <3> QED BY <2>3, <2>4, <3>1, Rows, NobodyAssumption DEF Ordered
    <2>6. \A l \in Titles \cup Tickets: lock[l] # Nobody =>
            lock[l] \in Txns \ {x}
      BY <2>5, Rows DEF Inv, LockType
    <2>7. lock'["room"] = x
      BY <2>2, <2>3, <2>4, Rows
    <2> QED BY <1>3, <2>2, <2>3, <2>4, <2>5, <2>6, <2>7, Rows DEF Ordered
  <1>4. ASSUME NEW x \in Txns, UpdateOwn(x) PROVE Ordered'
    <2>1. /\ At(x, "own") /\ Blockers(x) = {} /\ Acquire(x) /\ UNCHANGED share
          /\ req' = [req EXCEPT ![x] = Advance(x)]
      BY <1>4 DEF UpdateOwn, Ready
    <2>2. /\ req'[x].todo = <<"room", "finish">>
          /\ \A y \in Txns \ {x}: req'[y] = req[y]
      <3>1. Advance(x).todo = <<"room", "finish">>
        BY <2>1, AtStands, NextStatement, Advanced
      <3> QED BY <2>1, <3>1 DEF Inv, RequestType
    <2>3. Wants(x) = {req[x].arg} /\ req[x].arg \in Titles \cup Tickets
      BY <1>1, <2>1, WantsOf, AtStands, RoomFirstStatement DEF Standing
    <2>4. /\ \A l \in Locks \ Wants(x): lock'[l] = lock[l]
          /\ \A l \in Wants(x): lock'[l] = x
      BY <2>1, <2>3, Rows, Acquires
    <2>5. ASSUME NEW l \in Titles \cup Tickets, lock'[l] # Nobody
          PROVE  req'[lock'[l]].todo \in {<<"room", "finish">>, <<"finish">>}
      <3>1. CASE lock'[l] = x
        BY <2>2, <3>1
      <3>2. CASE lock'[l] # x
        <4>1. lock'[l] = lock[l] /\ lock[l] \in Txns \ {x}
          BY <2>4, <2>5, <3>2, Rows DEF Inv, LockType
        <4> QED BY <2>2, <2>5, <4>1 DEF Ordered
      <3> QED BY <3>1, <3>2
    <2>6. \A l \in {"room", "occ", "zone"}: lock'[l] = lock[l]
      BY <2>3, <2>4, Rows
    <2> QED BY <2>1, <2>5, <2>6 DEF Ordered
  <1>5. ASSUME NEW x \in Txns, LockRoom(x) PROVE Ordered'
    <2>1. /\ At(x, "room") /\ Blockers(x) = {} /\ Acquire(x) /\ UNCHANGED share
          /\ \A y \in Txns \ {x}: req'[y] = req[y]
          /\ req'[x].todo = Tail(req[x].todo)
      <3> DEFINE n == [Advance(x) EXCEPT
                         !.seen = IF @ = "unread" THEN db.status ELSE @]
      <3>1. /\ At(x, "room") /\ Blockers(x) = {} /\ Acquire(x)
            /\ UNCHANGED share /\ req' = [req EXCEPT ![x] = n]
        BY <1>5 DEF LockRoom, Ready
      <3>2. n.todo = Tail(req[x].todo)
        BY <3>1, Advanced DEF Row, Inv, DbType
      <3> HIDE DEF n
      <3> QED BY <3>1, <3>2 DEF Inv, RequestType
    <2>2. Wants(x) = {"room"}
      BY <2>1, WantsOf
    <2>3. /\ \A l \in Locks \ {"room"}: lock'[l] = lock[l]
          /\ lock'["room"] = x /\ lock["room"] \in {x, Nobody}
      BY <2>1, <2>2, Rows, Acquires
    <2>4. lock'["occ"] \in {Nobody, x} /\ lock'["zone"] \in {Nobody, x}
      BY <2>3, Rows DEF Ordered
    <2>5. ASSUME NEW l \in Titles \cup Tickets, lock'[l] # Nobody
          PROVE  req'[lock'[l]].todo \in {<<"room", "finish">>, <<"finish">>}
      <3>1. lock'[l] = lock[l] /\ lock[l] \in Txns
        BY <2>3, <2>5, Rows DEF Inv, LockType
      <3>2. req[lock[l]].todo \in {<<"room", "finish">>, <<"finish">>}
        BY <2>5, <3>1 DEF Ordered
      <3>3. CASE lock[l] = x
        <4>1. req[x].todo = <<"room", "finish">>
          BY <2>1, <3>2, <3>3 DEF At
        <4>2. Tail(<<"room", "finish">>) = <<"finish">>
          OBVIOUS
        <4> QED BY <2>1, <3>1, <3>3, <4>1, <4>2
      <3>4. CASE lock[l] # x
        BY <2>1, <3>1, <3>2, <3>4
      <3> QED BY <3>3, <3>4
    <2> QED BY <2>1, <2>3, <2>4, <2>5 DEF Ordered
  <1>6. ASSUME NEW x \in Txns, NEW closed, EndWith(x, closed) PROVE Ordered'
    <2>1. \A l \in Locks: /\ lock[l] = x => lock'[l] = Nobody
                          /\ lock[l] # x => lock'[l] = lock[l]
      BY <1>6 DEF EndWith
    <2>2. ASSUME NEW l \in Titles \cup Tickets, lock'[l] # Nobody
          PROVE  req'[lock'[l]].todo \in {<<"room", "finish">>, <<"finish">>}
      <3>1. lock'[l] = lock[l] /\ lock[l] \in Txns \ {x}
        BY <2>1, <2>2, Rows DEF Inv, LockType
      <3> QED BY <1>6, <2>2, <3>1, EndKeeps DEF Ordered
    <2>3. share' = {}
      BY <1>6 DEF EndWith, Ordered
    <2> QED BY <2>1, <2>2, <2>3, Rows DEF Ordered
  <1>7. ASSUME NEW x \in Txns, LockOccupancy(x) PROVE Ordered'
    BY <1>3, <1>6, <1>7 DEF LockOccupancy, End, Inv, RequestType
  <1>8. ASSUME NEW x \in Txns, LockZone(x) PROVE Ordered'
    BY <1>3, <1>8 DEF LockZone, Inv, RequestType
  <1>9. ASSUME NEW x \in Txns, ReadRoom(x) \/ InsertRow(x) \/ LockWork(x)
        PROVE  Ordered'
    <2>1. PICK s \in {"read", "insert", "work"}: At(x, s)
      BY <1>9 DEF ReadRoom, InsertRow, LockWork, Ready
    <2> QED BY <1>1, <2>1, RoomFirstStatement
  <1>10. ASSUME NEW x \in Txns, Finish(x) \/ DeadlockVictim(x) PROVE Ordered'
    BY <1>6, <1>10, FinishEnds DEF Commit, DeadlockVictim, Refuse, End
  <1>11. CASE UNCHANGED vars
    BY <1>11 DEF vars, Ordered
  <1> QED BY <1>2, <1>4, <1>5, <1>7, <1>8, <1>9, <1>10, <1>11
          DEF Next, Finish

\* Handlers that lock the room before anything but a row of their own never
\* wait for each other in a circle: whoever holds the room waits for nobody,
\* and everyone else waits for the holder, or for someone who does.
THEOREM RoomFirstNeverDeadlocks ==
  ASSUME Handlers \subseteq RoomFirst
  PROVE  Spec => []DeadlockFree
  <1>1. Init => Ordered
    BY Rows DEF Init, Ordered
  <1>2. Inv /\ Ordered => DeadlockFree
    <2> SUFFICES ASSUME Inv, Ordered, NEW x \in Txns, NEW S \in SUBSET Txns,
                        x \in S, \A y \in S: Blockers(y) \cap S # {}
                 PROVE  FALSE
      BY DEF DeadlockFree, Deadlocked
    <2>1. ASSUME NEW y \in S
          PROVE  /\ \E s: At(y, s) /\ req[y].op \in RoomFirst
                 /\ \E z \in S \ {y}: z \in Blockers(y)
      <3>1. PICK z \in S: z \in Blockers(y)
        BY <2>1
      <3>2. z # y
        BY <3>1 DEF Blockers
      <3>3. req[y].todo # <<>>
        BY <3>1 DEF Blockers, Wants, At
      <3>4. At(y, Head(req[y].todo))
        BY <3>3 DEF At
      <3>5. req[y].op \in Handlers
        BY <3>4, AtStands DEF Standing
      <3> QED BY <3>1, <3>2, <3>4, <3>5
    <2>2. ASSUME NEW y \in S PROVE lock["room"] # y
      <3> SUFFICES ASSUME lock["room"] = y PROVE FALSE
        OBVIOUS
      <3>1. PICK s: At(y, s) /\ req[y].op \in RoomFirst
        BY <2>1, <2>2
      <3>2. s \in {"occ", "zone", "finish"}
        BY <3>1, RoomFirstStatement
      <3>3. Wants(y) \subseteq {"occ", "zone"} /\ ~At(y, "room")
        BY <3>1, <3>2, WantsOf DEF At
      <3>4. Blockers(y) = {}
        BY <3>3, NobodyAssumption DEF Blockers, Ordered
      <3> QED BY <2>1, <2>2, <3>4
    <2>3. ASSUME NEW y \in S PROVE ~At(y, "room")
      <3> SUFFICES ASSUME At(y, "room") PROVE FALSE
        OBVIOUS
      <3>1. PICK z \in S: z \in Blockers(y)
        BY <2>1, <2>3
      <3>2. lock["room"] = z
        BY <3>1, WantsOf DEF Blockers, Ordered
      <3> QED BY <2>2, <3>1, <3>2
    <2>4. PICK s: At(x, s) /\ req[x].op \in RoomFirst
      BY <2>1
    <2>5. At(x, "own")
      BY <2>2, <2>3, <2>4, RoomFirstStatement
    <2>6. PICK z \in S: z \in Blockers(x)
      BY <2>1
    <2>7. req[x].arg \in Titles \cup Tickets /\ lock[req[x].arg] = z
      <3>1. req[x].arg \in Titles \cup Tickets
        BY <2>4, <2>5, RoomFirstStatement, AtStands DEF Standing
      <3>2. ~At(x, "room")
        BY <2>3
      <3> QED BY <2>5, <2>6, <3>1, <3>2, WantsOf DEF Blockers
    <2>8. req[z].todo \in {<<"room", "finish">>, <<"finish">>}
      BY <2>6, <2>7, NobodyAssumption DEF Ordered
    <2>9. CASE req[z].todo = <<"room", "finish">>
      <3>1. Head(<<"room", "finish">>) = "room" /\ <<"room", "finish">> # <<>>
        OBVIOUS
      <3>2. At(z, "room")
        BY <2>9, <3>1 DEF At
      <3> QED BY <2>3, <2>6, <3>2
    <2>10. CASE req[z].todo = <<"finish">>
      <3>1. Head(<<"finish">>) = "finish" /\ <<"finish">> # <<>>
        OBVIOUS
      <3>2. At(z, "finish")
        BY <2>10, <3>1 DEF At
      <3> QED BY <2>2, <2>6, <3>2, FinishHolds
    <2> QED BY <2>8, <2>9, <2>10
  <1> QED BY <1>1, <1>2, OrderedInductive, Invariance, PTL DEF Spec

=============================================================================
