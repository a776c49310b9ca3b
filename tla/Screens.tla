------------------------------ MODULE Screens -------------------------------
(* The web client on the screen: the routes with their redirects, and on   *)
(* the page that is shown one of its forms, boards or desks at a time.     *)
(* Leaving a page unmounts what it shows; the requests it sent go on, and  *)
(* their answers find no component to change.                              *)
EXTENDS WebRoutes, Forms, UnitBoard, ReviewDesk

CONSTANT MaxHops   \* redirects that are followed

ASSUME MaxHopsAssumption == MaxHops \in Nat

VARIABLES
  viewer,    \* who is signed in, and the loaded properties
  path,      \* the path of the browser
  hops,      \* redirects since the user went somewhere
  mounted    \* which kind of component is on the page

routeVars == <<viewer, path, hops>>

vars == <<routeVars, mounted, formVars, boardVars, deskVars>>

Nobody ==
  [signedIn |-> FALSE, role |-> "super_admin", own |-> NoProperty,
   active |-> NoProperty, known |-> {}]

TypeOK ==
  /\ viewer \in Viewers /\ path \in Paths /\ hops \in 0..MaxHops
  /\ mounted \in {"none", "form", "board", "desk"}
  /\ form \in Names /\ modal.filled \subseteq F.asks \cup F.takes
  /\ calls \in Seq(Calls)
  /\ board \in Boards /\ commands \in Seq(Commands)
  /\ stage \in [Tasks -> 0..MaxStage] /\ desk \in Desks

Init ==
  /\ viewer = Nobody /\ path = Page("landing") /\ hops = 0 /\ mounted = "none"
  /\ form = "Login" /\ modal = NoModal /\ calls = <<>>
  /\ board = EmptyBoard("rooms") /\ commands = <<>>
  /\ stage = [t \in Tasks |-> 0] /\ desk = EmptyDesk("manager")
  /\ reads = {} /\ sends = <<>> /\ reviews = <<>>

\* Nothing is on the page, and no answer finds a component.
Unmount ==
  /\ mounted' = "none"
  /\ form' = "Login" /\ modal' = NoModal /\ calls' = <<>>
  /\ board' = EmptyBoard("rooms") /\ commands' = <<>>
  /\ stage' = [t \in Tasks |-> 0] /\ desk' = EmptyDesk("manager")
  /\ reads' = {} /\ sends' = <<>> /\ reviews' = <<>>

-----------------------------------------------------------------------------
(* What the pages hold.                                                    *)

PropertyForms ==
  {"CreateRoom", "BulkCreateRooms", "CreateDorm", "BulkCreateDorms", "EditRoom",
   "EditDorm", "Washroom", "BulkCreateWashrooms", "AssignWashroomTask",
   "ScheduleWashroomMaintenance", "CreateMaintenance", "CreateTask",
   "CreateArea", "CreateZone", "EditZone", "EditArea", "CreateEmployee"}

PageForms ==
  CASE path.page = "login"           -> {"Login"}
    [] path.page = "signup"          -> {"Signup"}
    [] path.page = "adminProperties" -> {"CreateProperty", "EditProperty"}
    [] path.page = "hrEmployees"     -> {"HrCreateEmployee"}
    [] path.page = "employeeTasks"   -> {"CreateMaintenance"}
    [] path.page = "zones"           -> PropertyForms
    [] OTHER                         -> {}

PageBoards == IF path.page = "zones" THEN Kinds ELSE {}

PageDesks ==
  CASE path.page = "zones"         -> {"manager", "reviewer"}
    [] path.page = "employeeTasks" -> {"employee"}
    [] OTHER                       -> {}

\* As it would be if every user were told of the own property only.
KnownToOwn(v) == {v.own}

\* What GET /properties answers this user.
KnownTo(v) == IF v.role = "super_admin" THEN Properties ELSE {v.own}

\* The workspace is loaded and the active property is the page's: the effects
\* of the page have run.
Settled ==
  viewer.signedIn =>
    /\ viewer.known = KnownTo(viewer)
    /\ viewer.active = IF path.page = "zones" THEN path.uid ELSE viewer.own

Mount ==
  /\ mounted = "none" /\ Shown(viewer, path) /\ Settled
  /\ hops' = 0
  /\ \/ \E name \in PageForms :
          /\ mounted' = "form" /\ form' = name /\ modal' = Mounted(name)
          /\ UNCHANGED <<calls, boardVars, deskVars>>
     \/ \E kind \in PageBoards :
          /\ mounted' = "board" /\ board' = EmptyBoard(kind)
          /\ UNCHANGED <<formVars, commands, deskVars>>
     \/ \E role \in PageDesks :
          /\ mounted' = "desk" /\ desk' = EmptyDesk(role)
          /\ UNCHANGED <<formVars, boardVars, stage, reads, sends, reviews>>
  /\ UNCHANGED <<viewer, path>>

-----------------------------------------------------------------------------
(* The router.                                                             *)

\* A rendered Navigate element replaces the path.
Follow ==
  /\ ~Shown(viewer, path) /\ hops < MaxHops
  /\ path' = Redirect(viewer, path)
  /\ hops' = hops + 1
  /\ UNCHANGED <<viewer, mounted, formVars, boardVars, deskVars>>

\* The effects on the path of AppContext and PropertyScopedView, which run
\* also while the page is being redirected.
SyncActive ==
  /\ mounted = "none"
  /\ path.uid \in viewer.known /\ path.uid # viewer.active
  /\ viewer' = [viewer EXCEPT !.active = path.uid]
  /\ UNCHANGED <<path, hops, mounted, formVars, boardVars, deskVars>>

\* The properties arrive.  Nothing cancels the load of an earlier session:
\* its late answer, to another user, is shown as well, also after the wipe.
LoadWorkspace ==
  /\ mounted = "none"
  /\ \E known \in {KnownTo(viewer), Properties} \cup {{p} : p \in Properties} :
       /\ known # viewer.known
       /\ viewer' = [viewer EXCEPT !.known = known]
  /\ UNCHANGED <<path, hops, mounted, formVars, boardVars, deskVars>>

\* Leaving a page unmounts everything of it; the user is still nowhere else,
\* and comes back to it or goes on to any page.
Leave ==
  /\ mounted # "none" /\ Unmount
  /\ UNCHANGED routeVars

Navigate ==
  /\ mounted = "none"
  /\ \E p \in Paths :
       /\ p.uid # NoProperty <=> p.page \in PropertyPages
       /\ path' = p
  /\ hops' = 0
  /\ UNCHANGED <<viewer, mounted, formVars, boardVars, deskVars>>

\* signIn with the answer of a login or of a registration.
SignIn ==
  /\ mounted = "form" /\ Accepted
  /\ \E role \in (IF form = "Signup" THEN {"super_admin"} ELSE Roles) :
       \E own \in (IF role = "super_admin" THEN {NoProperty} ELSE Properties) :
         viewer' = [viewer EXCEPT !.signedIn = TRUE, !.role = role, !.own = own,
                                  !.active = IF own = NoProperty THEN @ ELSE own]
  /\ path' = HomePath(viewer') /\ hops' = 0 /\ Unmount

\* logout, and the handler of a session that the server no longer knows.
SignOut ==
  /\ viewer.signedIn
  /\ viewer' = Nobody
  /\ path' \in {Page("landing"), Page("login")} /\ hops' = 0 /\ Unmount

-----------------------------------------------------------------------------
FormPart ==
  /\ mounted = "form" /\ FormStep
  /\ UNCHANGED <<routeVars, mounted, boardVars, deskVars>>

BoardPart ==
  /\ mounted = "board" /\ BoardStep
  /\ UNCHANGED <<routeVars, mounted, formVars, deskVars>>

DeskPart ==
  /\ mounted = "desk" /\ DeskStep
  /\ UNCHANGED <<routeVars, mounted, formVars, boardVars>>

Next ==
  \/ Mount \/ Leave \/ Follow \/ SyncActive \/ LoadWorkspace \/ Navigate
  \/ SignIn \/ SignOut
  \/ FormPart \/ BoardPart \/ DeskPart

Spec == Init /\ [][Next]_vars

-----------------------------------------------------------------------------
(* Properties.                                                             *)

\* However typing, closing, refreshes and answers interleave: a form writes
\* the same content once, unless the answer to it was lost or the shown lists
\* have lost its name since, and has one request under way (isSubmitting); and
\* the answer to a bulk dialog finds the opening it was sent from, so that it
\* never blanks or closes what the user has begun since (onClose returns while
\* a submission runs).
FormsHonest == mounted = "form" => FormsAskOnce /\ AnswersFindTheirForm

\* A card is locked exactly as long as its one command runs (busyUnits), picked
\* fixtures exist, and the answer to a dorm card's command leaves the beds
\* picked meanwhile.
PicksHonest ==
  [][mounted = "board" /\ mounted' = "board" =>
       BoardAsksOnce' /\ PicksExist' /\ DormPicksKept]_boardVars

\* The drawer shows a detail of the open task, no older than a submission or
\* completion that the list shows; photos go with the task they were taken
\* for, and the buttons are locked while their request runs (isCompleting,
\* acting), however reads, refreshes and submissions overtake each other.
DrawerHonest ==
  mounted = "desk" => DetailIsOfOpenTask /\ EvidenceIsOfItsTask /\ DeskAsksOnce

\* The guards never send a user in circles, whichever property is active and
\* whichever are loaded: RequireRole sends a manager to the
\* active property, PropertyScopedView from there to the user's own, and the
\* effects change the active property between the two.
RedirectsEnd == hops <= 3

=============================================================================
