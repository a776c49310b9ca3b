---------------------------- MODULE WebCommands -----------------------------
(* The operations of the web store (AppContext) as data: which lists an     *)
(* operation changes at the server and what the store does about it.  An    *)
(* operation is one request; its toasts and its arguments are left out.     *)

UnitLists == {"rooms", "dorms", "washrooms"}
WorkLists == {"tasks", "maintenance"}
Structure == {"properties", "areas", "zones"}
AllLists == UnitLists \cup WorkLists \cup Structure \cup {"employees"}

\* writes: the lists the server changes; rows: those in which the rows of the
\* answer replace (or remove) the shown ones; adds: those to which the answer
\* is appended without looking whether it is there; guess: those shown
\* changed at once and rolled back on failure; reads: those read again after
\* success; asks: the scopes one of which is given to refreshUnitsScoped.
Command(writes, rows, adds, guess, reads, asks) ==
  [writes |-> writes, rows |-> rows, adds |-> adds, guess |-> guess,
   reads |-> reads, asks |-> asks]

\* One row of a list is changed and shown, or created and appended.
Edit(l) == Command({l}, {l}, {}, {}, {}, {})
Create(l) == Command({l}, {}, {l}, {}, {}, {})

\* A deletion or an override whose effects the server spreads: all is loaded.
Spread(lists, rows) == Command(lists, rows, {}, {}, AllLists, {})

PropertyCommands ==
  {Command({"properties", "employees"}, {}, {"properties"}, {}, {"employees"}, {}),
   Edit("properties"),
   Spread(AllLists, {})}

AreaCommands ==
  {Create("areas"), Edit("areas"),
   Spread({"areas", "zones", "tasks", "employees"} \cup UnitLists, {"areas"})}

ZoneCommands ==
  {Create("zones"), Edit("zones"),
   Command({"zones", "rooms", "dorms"}, {"zones"}, {}, {}, {"rooms", "dorms"}, {}),
   Spread({"zones", "tasks", "employees"} \cup UnitLists, {})}

\* A unit is dragged to another zone: shown there at once.
Move(l) == Command({l}, {l}, {}, {l}, {}, {})

\* Guests leave: the cleaning tasks come with the answer, or are read.
CheckOuts(l) ==
  {Command({l, "tasks"}, {l, "tasks"}, {}, {}, {}, {}),
   Command({l, "tasks"}, {l}, {}, {}, {"tasks"}, {})}

RoomCommands ==
  {Create("rooms"), Edit("rooms"), Move("rooms")}
    \cup CheckOuts("rooms")
    \cup {Spread(UnitLists \cup WorkLists, {})}

DormCommands ==
  {Create("dorms"), Edit("dorms"), Move("dorms")}

BedCommands ==
  {Edit("dorms")} \cup CheckOuts("dorms")

\* markDormCleaned.
DormCleaned == Command({"dorms", "tasks"}, {"dorms"}, {}, {}, {"tasks"}, {})

\* refreshWashroom changes nothing; a fixture back in service closes tickets.
WashroomCommands ==
  {Create("washrooms"), Edit("washrooms"),
   Command({}, {"washrooms"}, {}, {}, {}, {}),
   Command({"washrooms", "maintenance"}, {"washrooms"}, {}, {}, {"maintenance"}, {})}

WashroomMoves ==
  {Move("washrooms"),
   Command({"washrooms"} \cup WorkLists, {"washrooms"}, {}, {}, WorkLists, {})}

\* bulkUpdateUnits appends the generated tasks to a list it also reads.
BulkCommands ==
  {Command(UnitLists \cup WorkLists, UnitLists, adds, {}, WorkLists, {}) :
     adds \in {{}, {"tasks"}}}
    \cup {Edit("rooms")}

EmployeeCommands ==
  {Create("employees"), Edit("employees"), Move("employees"),
   Spread({"employees", "tasks"}, {})}

\* A task or ticket of the unit list u; its unit is derived with it.
Work(l, adds, u) == Command({l, u}, {l}, adds, {}, {}, {{u}})

TaskCommands ==
  {Create("tasks"), Edit("tasks")}
    \cup {Work("tasks", {}, u) : u \in UnitLists}

\* Completing or approving may bring the next instance of a series.
ReviewCommands ==
  {Work("tasks", adds, u) : adds \in {{}, {"tasks"}}, u \in UnitLists}
    \cup {Edit("tasks")}

TicketCommands ==
  {Work("maintenance", {}, u) : u \in UnitLists} \cup {Edit("maintenance")}

\* A batch of tickets on several kinds of unit asks for one of them only: the
\* scopes of the tickets are assigned over one another.
BatchCommands ==
  {Command({"maintenance"} \cup us, {"maintenance"}, {}, {}, {}, {{u} : u \in us}) :
     us \in (SUBSET UnitLists) \ {{}}}

\* A deleted ticket that is not in the list any more asks for everything.
DeleteTicketCommands ==
  {Command({"maintenance", u}, {"maintenance"}, {}, {}, {}, {{u}, UnitLists \cup WorkLists}) :
     u \in UnitLists}

AllCommands ==
  PropertyCommands \cup AreaCommands \cup ZoneCommands \cup RoomCommands
    \cup DormCommands \cup BedCommands \cup {DormCleaned} \cup WashroomCommands
    \cup WashroomMoves \cup BulkCommands \cup EmployeeCommands \cup TaskCommands
    \cup ReviewCommands \cup TicketCommands \cup BatchCommands
    \cup DeleteTicketCommands

\* A command as some of the lists see it.
Within(cmd, lists) ==
  [writes |-> cmd.writes \cap lists, rows |-> cmd.rows \cap lists,
   adds |-> cmd.adds \cap lists, guess |-> cmd.guess \cap lists,
   reads |-> cmd.reads \cap lists, asks |-> {s \cap lists : s \in cmd.asks}]

=============================================================================
