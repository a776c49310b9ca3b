---------------------------- MODULE TemplateForm -----------------------------
(* The wizard that creates and edits work templates: its steps and their    *)
(* checks, the condition that says which units the work is for, the place   *)
(* and unit pickers that share the stored location with it, and how the     *)
(* server resolves that location whenever the template is due.  What no     *)
(* check and no unit depends on is left out: texts, checklist, evidence.    *)
EXTENDS Naturals, FiniteSets

CONSTANTS
  Areas, Zones, Rooms, Dorms, Beds, Washrooms,   \* of the active property
  Nowhere,      \* no zone, or no area
  ZoneOf,       \* of a room, dorm or washroom
  AreaOf,       \* of a room, dorm, washroom or zone
  DormOf,       \* of a bed
  Modes,        \* the assignment modes to look at
  ScheduleKinds,  \* the schedules' kinds
  Frequencies     \* and their frequencies

Placed == Rooms \cup Dorms \cup Washrooms

ASSUME FormAssumptions ==
  /\ Nowhere \notin Areas \cup Zones
  /\ Dorms \cap (Rooms \cup Beds \cup Washrooms \cup Zones) = {}
  /\ Beds \cap (Rooms \cup Washrooms \cup Zones) = {}
  /\ Zones \cap (Rooms \cup Washrooms) = {}
  /\ Rooms \cap Washrooms = {}
  /\ ZoneOf \in [Placed -> Zones \cup {Nowhere}]
  /\ AreaOf \in [Placed \cup Zones -> Areas \cup {Nowhere}]
  /\ DormOf \in [Beds -> Dorms]
  /\ Modes \subseteq {"automatic", "individual", "employees", "team", "department"}
  /\ ScheduleKinds \subseteq {"one_time", "recurring"}
  /\ Frequencies \subseteq {"minutes", "hourly", "daily", "weekly", "monthly", "custom"}

VARIABLES
  step,       \* which step is shown
  operations, \* the work type is the earlier wizard's "operations"
  named,      \* the name has three characters
  mode,       \* assignment.mode
  picked,     \* the modes whose pick is made
  loc,        \* form.location
  sched,      \* form.schedule: kind, frequency and the values given
  submitting  \* the template is being saved

fields == <<operations, named, mode, picked, loc, sched>>
wizardVars == <<step, operations, named, mode, picked, loc, sched, submitting>>

-----------------------------------------------------------------------------
(* The stored location, and the condition the form derives from it.         *)

Resources == {"rooms", "beds", "dorms", "washrooms", "rooms_beds", "common_area"}
SpecificKinds == {"rooms", "dorms", "beds", "washrooms", "units"}
Occupancies == {"all", "occupied", "unoccupied"}

Locations ==
  [scope : {"property", "area", "zone"} \cup SpecificKinds,
   target : Resources \cup {"undefined", "units"}, occupancy : Occupancies,
   area : Areas \cup {Nowhere}, zone : Zones \cup {Nowhere},
   rooms : SUBSET Rooms, dorms : SUBSET Dorms, beds : SUBSET Beds,
   washrooms : SUBSET Washrooms]

\* normalizeLocation: a scope without its place is widened.
Normalized(l) ==
  [l EXCEPT !.scope =
     CASE @ = "zone" /\ l.zone = Nowhere /\ l.area # Nowhere -> "area"
       [] @ = "zone" /\ l.zone = Nowhere /\ l.area = Nowhere -> "property"
       [] @ = "area" /\ l.area = Nowhere -> "property"
       [] OTHER -> @]

\* A new template; those of earlier wizards, which picked single beds, or
\* stored a scope and an occupancy without naming one of the resources.
NewLocation ==
  [scope |-> "property", target |-> "rooms", occupancy |-> "all",
   area |-> Nowhere, zone |-> Nowhere,
   rooms |-> {}, dorms |-> {}, beds |-> {}, washrooms |-> {}]

PickedBeds(beds) == [NewLocation EXCEPT !.scope = "beds", !.target = "undefined", !.beds = beds]

Unnamed ==
  {l \in Locations :
     /\ l.scope \in {"property", "area", "zone"} /\ l.target \in {"undefined", "units"}
     /\ l.rooms \cup l.dorms \cup l.beds \cup l.washrooms = {}}

FirstLocations ==
  {Normalized(l) :
     l \in {NewLocation} \cup {PickedBeds(beds) : beds \in (SUBSET Beds) \ {{}}} \cup Unnamed}

IsSpecific(l) == l.scope \in SpecificKinds

\* How a specific condition on a resource is stored.
SpecificScope(resource) ==
  CASE resource = "beds" -> "dorms"
    [] resource = "rooms_beds" -> "units"
    [] OTHER -> resource

CondResource(l) ==
  CASE l.scope = "dorms" -> IF l.target = "beds" THEN "beds" ELSE "dorms"
    [] l.scope = "units" -> "rooms_beds"
    [] l.scope \in {"rooms", "beds", "washrooms"} -> l.scope
    [] OTHER -> IF l.target \in {"undefined", "units"} THEN "rooms" ELSE l.target

CondScope(l) == IF IsSpecific(l) THEN "specific" ELSE l.scope

\* Washrooms and common areas have no occupancy.
OccupancyFor(resource, occupancy) ==
  IF resource \in {"washrooms", "common_area"} THEN "all" ELSE occupancy

\* Mutant: the occupancy stays when washrooms are chosen.
ConditionKeeping(resource, scope, occupancy) ==
  LET chosen == IF resource = "common_area" /\ scope = "specific" THEN "property" ELSE scope
  IN [loc EXCEPT
        !.scope = IF chosen = "specific" THEN SpecificScope(resource) ELSE chosen,
        !.target = IF chosen = "specific" /\ resource # "beds" THEN "undefined" ELSE resource,
        !.occupancy = occupancy]

\* setCondition: the location that says it.  A common area is never specific.
Condition(resource, scope, occupancy) ==
  LET chosen == IF resource = "common_area" /\ scope = "specific" THEN "property" ELSE scope
  IN [loc EXCEPT
        !.scope = IF chosen = "specific" THEN SpecificScope(resource) ELSE chosen,
        !.target = IF chosen = "specific" /\ resource # "beds" THEN "undefined" ELSE resource,
        !.occupancy = OccupancyFor(resource, occupancy)]

\* The zones that the zone select offers.
ZoneChoices == {z \in Zones : loc.area = Nowhere \/ AreaOf[z] = loc.area}

\* applyScopePick: the selects are the scope, and a zone of another area goes.
ScopePick(area, zone) ==
  LET foreign == area # Nowhere /\ zone # Nowhere /\ AreaOf[zone] \notin {Nowhere, area}
      kept == IF foreign THEN Nowhere ELSE zone
  IN [loc EXCEPT
        !.scope = IF kept # Nowhere THEN "zone" ELSE IF area # Nowhere THEN "area" ELSE "property",
        !.target = CondResource(loc), !.area = area, !.zone = kept,
        !.occupancy = OccupancyFor(CondResource(loc), loc.occupancy)]

-----------------------------------------------------------------------------
(* The steps and their checks.                                              *)

Steps == <<"basics", "assign", "location", "schedule", "instructions", "verify", "review">>

\* The units a specific condition has picked.
Picks(l) ==
  CASE l.scope = "rooms" -> l.rooms
    [] l.scope = "dorms" -> l.dorms
    [] l.scope = "beds" -> l.beds
    [] l.scope = "washrooms" -> l.washrooms
    [] l.scope = "units" -> l.rooms \cup l.beds

LocationComplete(l) ==
  /\ l.scope = "zone" => l.zone # Nowhere
  /\ l.scope = "area" => l.area # Nowhere
  /\ IsSpecific(l) => Picks(l) # {}

\* What a schedule cannot do without.
Needs(s) ==
  CASE s.kind = "one_time" -> {"date"}
    [] s.kind = "recurring" /\ s.frequency = "weekly" -> {"weekdays"}
    [] s.kind = "recurring" /\ s.frequency = "monthly" -> {"day"}
    [] OTHER -> {}

\* A new template repeats daily; an older one has what its schedule needs.
FirstSchedules ==
  {[kind |-> k, frequency |-> f, given |-> Needs([kind |-> k, frequency |-> f])] :
     k \in ScheduleKinds, f \in Frequencies}

\* stepError finds nothing.
Complete(name) ==
  CASE name = "basics" -> named
    [] name = "assign" -> mode = "automatic" \/ mode \in picked
    [] name = "location" -> operations \/ LocationComplete(loc)
    [] name = "schedule" -> Needs(sched) \subseteq sched.given
    [] OTHER -> TRUE

WizardTypeOK ==
  /\ step \in DOMAIN Steps /\ operations \in BOOLEAN /\ named \in BOOLEAN
  /\ mode \in Modes /\ picked \subseteq Modes
  /\ loc \in Locations
  /\ sched \in [kind : ScheduleKinds, frequency : Frequencies, given : SUBSET {"date", "weekdays", "day"}]
  /\ submitting \in BOOLEAN

WizardInit ==
  /\ step = 1 /\ submitting = FALSE
  /\ operations \in BOOLEAN /\ named \in BOOLEAN
  /\ mode \in Modes /\ picked = {mode} \ {"automatic"}
  /\ loc \in FirstLocations
  /\ sched \in FirstSchedules

\* Mutant: the button goes on whatever the step lacks.
NextStepBlind ==
  /\ step < 7
  /\ step' = step + 1
  /\ UNCHANGED <<fields, submitting>>

NextStep ==
  /\ step < 7 /\ Complete(Steps[step])
  /\ step' = step + 1
  /\ UNCHANGED <<fields, submitting>>

\* Back, or an earlier step of the stepper: nothing is checked.
GoBack(i) ==
  /\ i < step
  /\ step' = i
  /\ UNCHANGED <<fields, submitting>>

-----------------------------------------------------------------------------
(* What the steps let the user change, also while the template is saved.    *)

On(name) == Steps[step] = name

\* The earlier type is offered only as long as the template has it.
PickType ==
  /\ On("basics")
  /\ operations' = FALSE
  /\ UNCHANGED <<step, named, mode, picked, loc, sched, submitting>>

Rename ==
  /\ On("basics")
  /\ named' = ~named
  /\ UNCHANGED <<step, operations, mode, picked, loc, sched, submitting>>

PickMode(m) ==
  /\ On("assign")
  /\ mode' = m
  /\ UNCHANGED <<step, operations, named, picked, loc, sched, submitting>>

\* An employee, employees, a team, a department; or none again.
PickWhom ==
  /\ On("assign") /\ mode # "automatic"
  /\ picked' \in {picked \cup {mode}, picked \ {mode}}
  /\ UNCHANGED <<step, operations, named, mode, loc, sched, submitting>>

\* Operations work has no place to pick.
Place(l) ==
  /\ On("location") /\ ~operations
  /\ loc' = l
  /\ UNCHANGED <<step, operations, named, mode, picked, sched, submitting>>

PickResource(r) == Place(Condition(r, CondScope(loc), loc.occupancy))

PickOccupancy(o) ==
  /\ CondResource(loc) \notin {"washrooms", "common_area"}
  /\ Place(Condition(CondResource(loc), CondScope(loc), o))

\* Choosing "All areas" or "All zones" changes neither.
PickArea(a) ==
  /\ ~IsSpecific(loc)
  /\ Place(ScopePick(IF a = Nowhere THEN loc.area ELSE a, loc.zone))

PickZone(z) ==
  /\ ~IsSpecific(loc) /\ z \in ZoneChoices \cup {Nowhere}
  /\ Place(ScopePick(loc.area, IF z = Nowhere THEN loc.zone ELSE z))

PickSpecific ==
  /\ CondResource(loc) # "common_area"
  /\ Place(Condition(CondResource(loc), IF IsSpecific(loc) THEN "property" ELSE "specific",
                     loc.occupancy))

Toggled(s, x) == IF x \in s THEN s \ {x} ELSE s \cup {x}

\* toggleRoom; "select all" takes the rooms of the zone, "clear" none.
ZoneRooms == {r \in Rooms : loc.zone = Nowhere \/ ZoneOf[r] = loc.zone}

PickRooms ==
  /\ loc.scope \in {"rooms", "units"}
  /\ \E rs \in {Toggled(loc.rooms, r) : r \in ZoneRooms} \cup {ZoneRooms, {}} :
       Place([loc EXCEPT !.rooms = rs])

PickDorm(d) ==
  /\ loc.scope = "dorms"
  /\ Place([loc EXCEPT !.dorms = Toggled(@, d)])

PickWashroom(w) ==
  /\ loc.scope = "washrooms"
  /\ Place([loc EXCEPT !.washrooms = Toggled(@, w)])

PickBed(b) ==
  /\ loc.scope \in {"beds", "units"}
  /\ Place([loc EXCEPT !.beds = Toggled(@, b)])

Schedule(s) ==
  /\ On("schedule")
  /\ sched' = s
  /\ UNCHANGED <<step, operations, named, mode, picked, loc, submitting>>

PickKind(k) == Schedule([sched EXCEPT !.kind = k])

PickFrequency(f) ==
  sched.kind = "recurring" /\ Schedule([sched EXCEPT !.frequency = f])

\* The date, the weekdays, the day of the month: given, or taken back.
PickWhen == \E x \in Needs(sched) : Schedule([sched EXCEPT !.given = Toggled(@, x)])

\* What the payload says of the location: operations work has none.
Sent(l) ==
  IF operations THEN [NewLocation EXCEPT !.target = "undefined"] ELSE Normalized(l)

\* The payload is the form as it is now; the button is off until it ends.
Save ==
  /\ On("review") /\ ~submitting
  /\ submitting' = TRUE
  /\ UNCHANGED <<step, fields>>

\* An error leaves the form as it is; a saved template closes it, and is
\* opened again at the first step, as it was stored.
SaveFails ==
  /\ submitting
  /\ submitting' = FALSE
  /\ UNCHANGED <<step, fields>>

SaveEnds ==
  /\ submitting
  /\ submitting' = FALSE /\ step' = 1
  /\ loc' = Sent(loc)
  /\ UNCHANGED <<operations, named, mode, picked, sched>>

WizardNext ==
  \/ NextStep \/ (\E i \in DOMAIN Steps : GoBack(i))
  \/ PickType \/ Rename \/ PickWhom \/ (\E m \in Modes : PickMode(m))
  \/ \E r \in Resources : PickResource(r)
  \/ \E o \in Occupancies : PickOccupancy(o)
  \/ \E a \in Areas \cup {Nowhere} : PickArea(a)
  \/ \E z \in Zones \cup {Nowhere} : PickZone(z)
  \/ PickSpecific \/ PickRooms
  \/ \E d \in Dorms : PickDorm(d)
  \/ \E w \in Washrooms : PickWashroom(w)
  \/ \E b \in Beds : PickBed(b)
  \/ \E k \in ScheduleKinds : PickKind(k)
  \/ \E f \in Frequencies : PickFrequency(f)
  \/ PickWhen \/ Save \/ SaveFails \/ SaveEnds

WizardSpec == WizardInit /\ [][WizardNext]_wizardVars

-----------------------------------------------------------------------------
(* The server: _expand_targets, for a set of occupied rooms and beds.       *)

InZone(u, z) == ZoneOf[u] = z
InArea(u, a) == AreaOf[u] = a \/ (ZoneOf[u] # Nowhere /\ AreaOf[ZoneOf[u]] = a)

Keeps(l, u, occupied) ==
  LET taken == IF u \in Dorms THEN \E b \in occupied \cap Beds : DormOf[b] = u
               ELSE u \in occupied
  IN CASE l.occupancy = "occupied" -> taken
       [] l.occupancy = "unoccupied" -> ~taken
       [] OTHER -> TRUE

\* The place of a scope covers a placed unit.
Covers(l, u) ==
  CASE l.scope = "zone" -> InZone(u, l.zone)
    [] l.scope = "area" -> InArea(u, l.area)
    [] OTHER -> TRUE

\* What a location without a target is expanded to: every unit of a place,
\* the rooms of the property if an occupancy is asked for, or else nothing.
Target(l) ==
  CASE l.target # "undefined" -> l.target
    [] l.target = "undefined" /\ l.scope # "property" -> "units"
    [] l.target = "undefined" /\ l.scope = "property" /\ l.occupancy # "all" -> "rooms"
    [] OTHER -> "undefined"

\* Of the units covered, those the target names: beds by their dorm,
\* washrooms whoever is in.
Expanded(l, occupied) ==
  {r \in Rooms : Target(l) \in {"rooms", "rooms_beds", "units"} /\ Covers(l, r)
                 /\ Keeps(l, r, occupied)}
    \cup {d \in Dorms : Target(l) = "dorms" /\ Covers(l, d) /\ Keeps(l, d, occupied)}
    \cup {b \in Beds : Target(l) \in {"beds", "rooms_beds", "units"} /\ Covers(l, DormOf[b])
                       /\ Keeps(l, b, occupied)}
    \cup {w \in Washrooms : Target(l) \in {"washrooms", "units"} /\ Covers(l, w)}

ExplicitUnits(l, occupied) ==
  CASE l.scope = "dorms" /\ l.target = "beds" ->
         {b \in Beds : DormOf[b] \in l.dorms /\ Keeps(l, b, occupied)}
    [] l.scope = "washrooms" -> l.washrooms
    [] OTHER -> {u \in Picks(l) : Keeps(l, u, occupied)}

ZonesCovered(l) ==
  CASE l.scope = "zone" -> {l.zone}
    [] l.scope = "area" -> {z \in Zones : AreaOf[z] = l.area}
    [] OTHER -> Zones

OrElse(s, t) == IF s # {} THEN s ELSE t

\* The zones, or if there is none the area, or the property as a whole, which
\* is written Nowhere.
AtLarge(l) == OrElse(ZonesCovered(l), {IF l.scope = "area" THEN l.area ELSE Nowhere})

\* What work is made for: units, or for a common area the zones.  A place
\* with no unit of the kind gets work all the same; the property gets one
\* task only when no target is stored.
Resolved(l, occupied) ==
  CASE IsSpecific(l) -> ExplicitUnits(l, occupied)
    [] ~IsSpecific(l) /\ l.target = "common_area" -> AtLarge(l)
    [] l.scope \in {"zone", "area"} /\ l.target # "common_area" ->
         OrElse(Expanded(l, occupied), AtLarge(l))
    [] OTHER -> IF Target(l) = "undefined" THEN {Nowhere} ELSE Expanded(l, occupied)

-----------------------------------------------------------------------------
(* What conditionSummary tells the user.                                    *)

UnitsOf(resource) ==
  CASE resource = "rooms" -> Rooms
    [] resource = "beds" -> Beds
    [] resource = "dorms" -> Dorms
    [] resource = "washrooms" -> Washrooms
    [] resource = "rooms_beds" -> Rooms \cup Beds
    [] resource = "common_area" -> Zones

\* "currently occupied", "currently unoccupied", or all.
Says(l, u, occupied) ==
  LET guests == {u} \cup (IF u \in Dorms THEN {b \in Beds : DormOf[b] = u} ELSE {})
  IN CASE l.occupancy = "all" -> TRUE
       [] l.occupancy = "occupied" -> guests \cap occupied # {}
       [] l.occupancy = "unoccupied" -> guests \cap occupied = {}

\* "in <zone>", "in <area>", "on the selected units only", or everywhere.
Where(l, u) ==
  LET at == IF u \in Beds THEN DormOf[u] ELSE u
      zone == IF u \in Zones THEN u ELSE ZoneOf[at]
  IN CASE CondScope(l) = "zone" -> zone = l.zone
       [] CondScope(l) = "area" ->
            l.area \in {AreaOf[at], IF zone = Nowhere THEN Nowhere ELSE AreaOf[zone]}
       [] CondScope(l) = "specific" -> {u, at} \cap Picks(l) # {}
       [] CondScope(l) = "property" -> TRUE

Meant(l, occupied) ==
  {u \in UnitsOf(CondResource(l)) : Where(l, u) /\ Says(l, u, occupied)}

-----------------------------------------------------------------------------
(* Properties.                                                              *)

\* A picked unit or a named resource says what the work is for.
Stated(l) == IsSpecific(l) \/ l.target \in Resources

\* The places at large that the summary names.
Places(l) ==
  CASE l.scope = "zone" -> {l.zone}
    [] l.scope = "area" -> {l.area} \cup ZonesCovered(l)
    [] l.scope = "property" /\ l.target = "common_area" -> {Nowhere}
    [] OTHER -> {}

\* However the pickers, the condition and the scope were used before each
\* other on the one stored location, and whoever is in when the work is due:
\* the server makes the work for the units the summary names; where there is
\* none of them it makes none, or one task for the named place at large.
\* Operations work is one task for the property.  A location that says
\* nothing, which the server and the summary read differently, is one nobody
\* touched: no order of the pickers makes one (TemplateWizard 152-296 and
\* 335-338, template.py _expand_targets).
MeansWhatItSays ==
  /\ ~Stated(loc) => loc \in FirstLocations
  /\ \A occupied \in SUBSET (Rooms \cup Beds) :
       LET made == Resolved(Sent(loc), occupied)
           meant == Meant(loc, occupied)
       IN IF operations THEN made = {Nowhere}
          ELSE Stated(loc) => \/ made = meant
                              \/ meant = {} /\ made \subseteq Places(loc)

\* A template is reviewed and saved only if every step is complete, although
\* steps are left backwards unchecked and changed again (stepError, next).
StepsChecked == \A i \in 1..(step - 1) : Complete(Steps[i])

=============================================================================
