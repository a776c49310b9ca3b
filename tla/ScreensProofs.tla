--------------------------- MODULE ScreensProofs ----------------------------
(* For any number of properties, units, tasks and requests in flight: what  *)
(* the screens of the web client promise.  The routes end, the forms write  *)
(* once, the boards lock and keep their picks, the drawer shows its task;   *)
(* and the template wizard means what its summary says.                     *)
EXTENDS Screens, TemplateForm, Integers, SequenceTheorems, FiniteSetTheorems, TLAPS

-----------------------------------------------------------------------------
(* The inductive invariant: of the routes, and of each kind of component   *)
(* that may be on the page; what is not there is as it was mounted.        *)

\* Who may be signed in: everyone but a super admin has a property.
ViewerInv ==
  viewer \in Viewers /\ (viewer.role # "super_admin" => viewer.own \in Properties)

\* How many redirects may still follow on this path, whatever becomes the
\* active property meanwhile and whichever properties are loaded.
Left(v, p) ==
  LET manager == v.signedIn /\ v.role = "property_manager"
      misplaced(role) == IF v.signedIn /\ v.role = role THEN 0 ELSE IF manager THEN 2 ELSE 1
  IN CASE p.page = "landing"         -> 0
       [] p.page = "employeeLegacy"  -> 3
       [] p.page = "profile"         -> IF v.signedIn THEN 0 ELSE 1
       [] p.page \in {"login", "signup"} -> IF v.signedIn THEN 2 ELSE 0
       [] p.page = "adminProperties" -> misplaced("super_admin")
       [] p.page = "hrEmployees"     -> misplaced("human_resource")
       [] p.page = "employeeTasks"   -> misplaced("employee")
       [] p.page = "zones"           -> IF manager /\ p.uid = v.own THEN 0 ELSE 1
       [] OTHER                      -> 2

RouteInv ==
  /\ ViewerInv
  /\ path \in Paths
  /\ hops \in 0..MaxHops /\ hops + Left(viewer, path) <= 3

\* An open form.
Ends == {"closes", "shows", "signsIn"}
Modals ==
  [open : BOOLEAN, filled : SUBSET (F.asks \cup F.takes), taken : BOOLEAN,
   locked : BOOLEAN, shows : BOOLEAN, writes : Nat, lost : Nat]
\* The last request of a submission was served and its answer is on the way.
Written(c) == c.current /\ c.served = "done" /\ c.step = Len(F.steps)

\* Who is on the page and whom the lock is for.
Shape(m, cs) ==
  /\ m \in Modals /\ cs \in Seq(Calls)
  /\ \A i \in DOMAIN cs :
       /\ cs[i].step \in 1..Len(F.steps)
       /\ cs[i].current \/ cs[i].here => cs[i].mine
       /\ F.kept => cs[i].mine
       /\ F.locks /\ cs[i].mine => m.locked
       /\ F.guarded => cs[i].here
  /\ F.locks => \A i, j \in DOMAIN cs : cs[i].mine /\ cs[j].mine => i = j

\* Content that was written once more than answers were lost is under way
\* still, or cannot be submitted.
Counted(m, cs) ==
  WritesOnce =>
    /\ m.writes <= 1 + m.lost
    /\ m.writes > m.lost =>
         \/ \E i \in DOMAIN cs : Written(cs[i])
         \/ (m.taken \/ m.shows) /\ \A i \in DOMAIN cs : ~cs[i].current

FormInv == form \in Names /\ Shape(modal, calls) /\ Counted(modal, calls)

BoardInv ==
  /\ board \in Boards
  /\ commands \in Seq(Commands)
  /\ BoardAsksOnce
  /\ PicksExist

ReadsT == [task : Tasks, live : BOOLEAN, served : BOOLEAN, stage : 0..MaxStage]
Sends == [task : Tasks, photos : SUBSET Tasks, served : BOOLEAN]
ReviewsT == [task : Tasks, verdict : {"approve", "return"}, item : BOOLEAN,
            phase : {"sent", "refreshing"}]

DeskType ==
  /\ stage \in [Tasks -> 0..MaxStage]
  /\ desk \in Desks
  /\ reads \subseteq ReadsT
  /\ sends \in Seq(Sends)
  /\ DOMAIN reviews \subseteq Reviews
  /\ \A i \in DOMAIN reviews : reviews[i] \in ReviewsT

\* The list is never ahead of the server.
ListBehind ==
  \A t \in Tasks : desk.listed[t] = Gone \/ desk.listed[t] <= stage[t]

\* A read that is still wanted is of the open task, and its answer as far as
\* the list.
ReadsCurrent ==
  \A r \in reads : r.live =>
    /\ Showing /\ r.task = desk.open
    /\ r.served => AsFar(r.stage, desk.listed[desk.open])

DetailCurrent == DetailIsOfOpenTask /\ (desk.detail # NoDetail => Showing)

SendsLocked == Len(sends) = (IF desk.completing THEN 1 ELSE 0)

ActingReviewed ==
  desk.acting # NoTask =>
    \E i \in DOMAIN reviews : reviews[i].item /\ reviews[i].task = desk.acting

DeskInv ==
  /\ DeskType
  /\ ListBehind /\ ReadsCurrent /\ DetailCurrent
  /\ EvidenceIsOfItsTask /\ SendsLocked /\ ActingReviewed

\* What is not on the page is as it was mounted.
Blank ==
  /\ mounted \in {"none", "form", "board", "desk"}
  /\ mounted # "form" => form = "Login" /\ modal = NoModal /\ calls = <<>>
  /\ mounted # "board" => board = EmptyBoard("rooms") /\ commands = <<>>
  /\ mounted # "desk" =>
       /\ stage = [t \in Tasks |-> 0] /\ desk = EmptyDesk("manager")
       /\ reads = {} /\ sends = <<>> /\ reviews = <<>>

IInv == RouteInv /\ FormInv /\ BoardInv /\ DeskInv /\ Blank

-----------------------------------------------------------------------------
(* The routes.                                                             *)

USE NoPropertyAssumption, MaxHopsAssumption

LEMMA PathShapes ==
  /\ \A p \in PublicPages \cup OtherPages : Page(p) \in Paths
  /\ \A p \in PropertyPages, uid \in Properties \cup {NoProperty} :
       PropertyPage(p, uid) \in Paths
BY DEF Paths, Page, PropertyPage

\* A guard sends somewhere.
LEMMA RedirectTyped ==
  ASSUME NEW v, NEW p \in Paths, v \in Viewers
  PROVE  /\ Redirect(v, p) \in Paths
         /\ HomePath(v) \in Paths
<1>1. /\ v.own \in Properties \cup {NoProperty} /\ v.active \in Properties \cup {NoProperty}
      /\ v.role \in Roles
      /\ p.uid \in Properties \cup {NoProperty}
  BY DEF Viewers, Paths
<1>2. HomePath(v) \in Paths
  BY <1>1, PathShapes DEF HomePath, PublicPages, OtherPages, PropertyPages
<1>3. RoleHome(v) \in Paths
  BY <1>1, <1>2, PathShapes DEF RoleHome, PublicPages, OtherPages, PropertyPages
<1>4. PropertyScoped(v, p) \in Paths
  BY <1>1, PathShapes DEF PropertyScoped, PublicPages, OtherPages, PropertyPages
<1>5. Page("login") \in Paths /\ Page("landing") \in Paths /\ Page("employeeTasks") \in Paths
  BY PathShapes DEF PublicPages, OtherPages
<1>6. PropertyPage("zones", p.uid) \in Paths
  BY <1>1, PathShapes DEF PropertyPages
<1>7. LoginPage(v, p) \in Paths
  BY <1>2, <1>5 DEF LoginPage
<1>8. QED
  BY <1>1, <1>2, <1>3, <1>4, <1>5, <1>6, <1>7 DEF Redirect, RequireAuth, RequireRole, RootRedirect

LEMMA LeftBounds ==
  ASSUME NEW v, NEW p
  PROVE  Left(v, p) \in 0..3
BY DEF Left

\* A redirect leaves fewer to come.
LEMMA RedirectsShrink ==
  ASSUME NEW v, NEW p \in Paths, v \in Viewers,
         v.role # "super_admin" => v.own \in Properties,
         ~Shown(v, p)
  PROVE  Left(v, Redirect(v, p)) < Left(v, p)
<1> DEFINE q == Redirect(v, p)
<1>0. v.role \in Roles /\ v.own \in Properties \cup {NoProperty} /\ q # p
  BY DEF Viewers, Shown
<1>p. p.page \in PublicPages \cup PropertyPages \cup OtherPages
  BY DEF Paths
<1>h. v.signedIn => Left(v, HomePath(v)) <= 1
  BY <1>0 DEF HomePath, Left, Page, PropertyPage, Roles
<1>r. v.signedIn => Left(v, RoleHome(v)) <= 1
  BY <1>0, <1>h DEF HomePath, RoleHome, Left, Page, PropertyPage, Roles
<1>n. v.signedIn /\ v.role # "property_manager" => Left(v, HomePath(v)) = 0
  BY <1>0 DEF HomePath, Left, Page, PropertyPage, Roles
<1>o. Left(v, Page("login")) = (IF v.signedIn THEN 2 ELSE 0) /\ Left(v, Page("landing")) = 0
  BY DEF Left, Page
<1>1. CASE p.page = "landing"
  BY <1>0, <1>1 DEF Redirect
<1>2. CASE p.page \in {"login", "signup"}
  <2>1. q = LoginPage(v, p) /\ v.signedIn
    BY <1>0, <1>2 DEF Redirect, LoginPage
  <2>2. CASE v.role = "human_resource"
    BY <1>2, <2>1, <2>2 DEF LoginPage, Left, Page
  <2>3. CASE v.role # "human_resource"
    BY <1>2, <1>h, <2>1, <2>3, LeftBounds DEF LoginPage, Left
  <2>4. QED
    BY <2>2, <2>3
<1>3. CASE p.page \in {"adminProperties", "employeeTasks", "hrEmployees"}
  <2>1. PICK role \in Roles :
          /\ q = RequireAuth(v, RequireRole(v, {role}, p))
          /\ Left(v, p) = IF v.signedIn /\ v.role = role THEN 0
                         ELSE IF v.signedIn /\ v.role = "property_manager" THEN 2 ELSE 1
    BY <1>3 DEF Redirect, Left, Roles
  <2>2. CASE ~v.signedIn
    BY <2>1, <2>2, <1>o DEF RequireAuth
  <2>3. CASE v.signedIn
    <3>1. q = RoleHome(v) /\ v.role # role
      BY <1>0, <2>1, <2>3 DEF RequireAuth, RequireRole
    <3>2. QED
      BY <1>r, <1>n, <2>1, <2>3, <3>1, LeftBounds DEF RoleHome
  <2>4. QED
    BY <2>2, <2>3
<1>4. CASE p.page = "zones"
  <2>1. q = RequireAuth(v, PropertyScoped(v, p))
    BY <1>4 DEF Redirect
  <2>2. CASE ~v.signedIn
    BY <1>4, <2>1, <2>2, <1>o DEF RequireAuth, Left
  <2>3. CASE v.signedIn
    <3>1. q = PropertyScoped(v, p)
      BY <2>1, <2>3 DEF RequireAuth
    <3>2. CASE v.role = "property_manager"
      BY <1>0, <1>4, <2>3, <3>1, <3>2 DEF PropertyScoped, Left, PropertyPage
    <3>3. CASE v.role # "property_manager"
      BY <1>0, <1>4, <2>3, <3>1, <3>3 DEF PropertyScoped, Left, Page, Roles
    <3>4. QED
      BY <3>2, <3>3
  <2>4. QED
    BY <2>2, <2>3
<1>5. CASE p.page = "history"
  <2>0. Left(v, p) = 2
    BY <1>5 DEF Left
  <2>1. q = RequireAuth(v, RequireRole(v, {"super_admin"}, PropertyScoped(v, p)))
    BY <1>5 DEF Redirect
  <2>2. CASE ~v.signedIn
    BY <2>0, <2>1, <2>2, <1>o DEF RequireAuth
  <2>3. CASE v.signedIn /\ v.role # "super_admin"
    BY <2>0, <2>1, <2>3, <1>r, LeftBounds DEF RequireAuth, RequireRole
  <2>4. CASE v.signedIn /\ v.role = "super_admin"
    <3>1. q = Page("adminProperties")
      BY <1>0, <2>1, <2>4 DEF RequireAuth, RequireRole, PropertyScoped
    <3>2. QED
      BY <2>0, <2>4, <3>1 DEF Left, Page
  <2>5. QED
    BY <2>2, <2>3, <2>4
<1>6. CASE p.page = "profile"
  BY <1>0, <1>6, <1>o DEF Redirect, RequireAuth, Left
<1>7. CASE p.page = "property"
  BY <1>7, <1>o DEF Redirect, RequireAuth, Left, PropertyPage
<1>8. CASE p.page = "employeeLegacy"
  BY <1>8 DEF Redirect, Left, Page
<1>9. CASE p.page = "unknown"
  <2>1. q = RootRedirect(v) /\ Left(v, p) = 2
    BY <1>9 DEF Redirect, Left
  <2>2. QED
    BY <2>1, <1>o, <1>r, LeftBounds DEF RootRedirect
<1>10. QED
  BY <1>p, <1>1, <1>2, <1>3, <1>4, <1>5, <1>6, <1>7, <1>8, <1>9
     DEF PublicPages, PropertyPages, OtherPages

\* Only who is signed in counts, not the active and the loaded properties.
LEMMA LeftSame ==
  ASSUME NEW v, NEW w, NEW p, w.signedIn = v.signedIn, w.role = v.role, w.own = v.own
  PROVE  Left(w, p) = Left(v, p)
BY DEF Left

LEMMA ViewersKnow ==
  ASSUME ViewerInv
  PROVE  /\ KnownTo(viewer) \subseteq Properties
         /\ viewer.known \subseteq Properties
BY DEF ViewerInv, KnownTo, Viewers

LEMMA NobodyTyped ==
  Nobody \in Viewers /\ Nobody.role = "super_admin"
BY DEF Nobody, Viewers, Roles

LEMMA RouteInit == Init => RouteInv
<1> SUFFICES ASSUME Init PROVE RouteInv
  OBVIOUS
<1>1. Page("landing") \in Paths /\ Left(viewer, Page("landing")) = 0
  BY PathShapes DEF PublicPages, Left, Page
<1>2. QED
  BY <1>1, NobodyTyped DEF Init, RouteInv, ViewerInv

LEMMA RouteStep == RouteInv /\ [Next]_vars => RouteInv'
<1> SUFFICES ASSUME RouteInv, [Next]_vars PROVE RouteInv'
  OBVIOUS
<1>i. /\ ViewerInv /\ viewer \in Viewers /\ path \in Paths
      /\ hops \in 0..MaxHops /\ hops + Left(viewer, path) <= 3
  BY DEF RouteInv, ViewerInv
\* A step that starts from a page counts no redirects.
<1>s. ASSUME ViewerInv', path' \in Paths, hops' = 0 PROVE RouteInv'
  <2>1. Left(viewer', path') \in 0..3
    BY LeftBounds
  <2>2. QED
    BY <1>s, <2>1 DEF RouteInv
\* A step of what the page holds.
<1>u. ASSUME UNCHANGED routeVars PROVE RouteInv'
  BY <1>u DEF routeVars, RouteInv, ViewerInv
\* A step that changes the active or the loaded properties.
<1>v. ASSUME viewer' \in Viewers, UNCHANGED <<path, hops>>,
             viewer'.signedIn = viewer.signedIn, viewer'.role = viewer.role,
             viewer'.own = viewer.own
      PROVE  RouteInv'
  BY <1>v, <1>i, LeftSame DEF RouteInv, ViewerInv
<1>1. CASE Mount
  BY <1>1, <1>i, <1>s DEF Mount, ViewerInv
<1>2. CASE Follow
  <2>1. /\ path' = Redirect(viewer, path) /\ path' \in Paths
        /\ hops' = hops + 1 /\ hops < MaxHops /\ viewer' = viewer
        /\ ~Shown(viewer, path)
    BY <1>2, <1>i, RedirectTyped DEF Follow
  <2>2. Left(viewer, path') < Left(viewer, path)
    BY <1>i, <2>1, RedirectsShrink DEF ViewerInv
  <2>3. /\ Left(viewer, path) \in 0..3 /\ Left(viewer, path') \in 0..3
        /\ Left(viewer', path') = Left(viewer, path')
    BY <2>1, LeftBounds
  <2>4. QED
    BY <1>i, <2>1, <2>2, <2>3 DEF RouteInv, ViewerInv
<1>3. CASE SyncActive
  <2>1. path.uid \in Properties \cup {NoProperty}
    BY <1>i DEF Paths
  <2>2. QED
    BY <1>3, <1>i, <1>v, <2>1 DEF SyncActive, Viewers
<1>4. CASE LoadWorkspace
  <2>1. PICK known \in {KnownTo(viewer), Properties} \cup {{p} : p \in Properties} :
          viewer' = [viewer EXCEPT !.known = known]
    BY <1>4 DEF LoadWorkspace
  <2>2. known \subseteq Properties
    BY <1>i, <2>1, ViewersKnow
  <2>3. QED
    BY <1>4, <1>i, <1>v, <2>1, <2>2 DEF LoadWorkspace, Viewers
<1>5. CASE Leave
  BY <1>5, <1>u DEF Leave
<1>6. CASE Navigate
  BY <1>6, <1>i, <1>s DEF Navigate, ViewerInv
<1>7. CASE SignIn
  <2>1. PICK role \in Roles : \E own \in (IF role = "super_admin" THEN {NoProperty} ELSE Properties) :
         viewer' = [viewer EXCEPT !.signedIn = TRUE, !.role = role, !.own = own,
                                  !.active = IF own = NoProperty THEN @ ELSE own]
    BY <1>7 DEF SignIn, Roles
  <2>2. PICK own \in (IF role = "super_admin" THEN {NoProperty} ELSE Properties) :
         viewer' = [viewer EXCEPT !.signedIn = TRUE, !.role = role, !.own = own,
                                  !.active = IF own = NoProperty THEN @ ELSE own]
    BY <2>1
  <2>3. viewer' \in Viewers /\ (viewer'.role # "super_admin" => viewer'.own \in Properties)
    BY <1>i, <2>2 DEF Viewers
  <2>4. path' \in Paths
    BY <1>7, <1>i, <2>3, RedirectTyped DEF SignIn
  <2>5. QED
    BY <1>7, <1>s, <2>3, <2>4 DEF SignIn, ViewerInv
<1>8. CASE SignOut
  <2>1. path' \in Paths
    BY <1>8, PathShapes DEF SignOut, PublicPages
  <2>2. QED
    BY <1>8, <1>s, <2>1, NobodyTyped DEF SignOut, ViewerInv
<1>9. CASE FormPart \/ BoardPart \/ DeskPart \/ UNCHANGED vars
  BY <1>9, <1>u DEF FormPart, BoardPart, DeskPart, vars
<1>10. QED
  BY <1>1, <1>2, <1>3, <1>4, <1>5, <1>6, <1>7, <1>8, <1>9 DEF Next

-----------------------------------------------------------------------------
(* Sequences.                                                              *)

\* A sequence without one of its elements.
LEMMA RemoveAtIs ==
  ASSUME NEW S, NEW s \in Seq(S), NEW i \in DOMAIN s
  PROVE  /\ RemoveAt(s, i) \in Seq(S)
         /\ Len(RemoveAt(s, i)) = Len(s) - 1
         /\ DOMAIN RemoveAt(s, i) = 1..(Len(s) - 1)
         /\ \A j \in 1..(Len(s) - 1) :
              RemoveAt(s, i)[j] = IF j < i THEN s[j] ELSE s[j + 1]
<1>1. i \in 1..Len(s) /\ Len(s) \in Nat
  BY LenProperties
<1> DEFINE a == SubSeq(s, 1, i - 1)
           b == SubSeq(s, i + 1, Len(s))
<1>2. /\ a \in Seq(S) /\ Len(a) = i - 1
      /\ \A j \in 1..(i - 1) : a[j] = s[j]
  BY <1>1
<1>3. /\ b \in Seq(S) /\ Len(b) = Len(s) - i
      /\ \A j \in 1..(Len(s) - i) : b[j] = s[i + j]
  BY <1>1
<1> HIDE DEF a, b
<1>4. /\ a \o b \in Seq(S) /\ Len(a \o b) = Len(a) + Len(b)
      /\ \A j \in 1..(Len(a) + Len(b)) :
           (a \o b)[j] = IF j <= Len(a) THEN a[j] ELSE b[j - Len(a)]
  BY <1>2, <1>3, ConcatProperties
<1>c. \A j \in 1..(Len(s) - 1) :
        (a \o b)[j] = IF j <= i - 1 THEN a[j] ELSE b[j - (i - 1)]
  <2>1. Len(a) + Len(b) = Len(s) - 1
    BY <1>1, <1>2, <1>3
  <2>2. QED
    BY <1>2, <1>4, <2>1
<1>5. RemoveAt(s, i) = a \o b
  BY DEF RemoveAt, a, b
<1>6. DOMAIN (a \o b) = 1..(Len(s) - 1)
  BY <1>1, <1>2, <1>3, <1>4, LenProperties
<1>7. ASSUME NEW j \in 1..(Len(s) - 1)
      PROVE  (a \o b)[j] = IF j < i THEN s[j] ELSE s[j + 1]
  <2>1. CASE j < i
    BY <1>1, <1>2, <1>c, <2>1
  <2>2. CASE ~(j < i)
    <3>1. (a \o b)[j] = b[j - (i - 1)]
      <4>1. ~(j <= i - 1)
        BY <1>1, <2>2
      <4>2. QED
        BY <1>c, <4>1
    <3>2. j - (i - 1) \in 1..(Len(s) - i) /\ i + (j - (i - 1)) = j + 1
      BY <1>1, <2>2
    <3>3. QED
      BY <1>3, <2>2, <3>1, <3>2
  <2>3. QED
    BY <2>1, <2>2
<1>8. Len(a \o b) = Len(s) - 1
  BY <1>1, <1>2, <1>3, <1>4
<1>9. QED
  BY <1>4, <1>5, <1>6, <1>7, <1>8

\* What is left is what was there, but for one place.
LEMMA RemainingFrom ==
  ASSUME NEW S, NEW s \in Seq(S), NEW i \in DOMAIN s
  PROVE  /\ \A j \in DOMAIN RemoveAt(s, i) :
              \E k \in DOMAIN s \ {i} : RemoveAt(s, i)[j] = s[k]
         /\ \A k \in DOMAIN s \ {i} :
              \E j \in DOMAIN RemoveAt(s, i) : RemoveAt(s, i)[j] = s[k]
         /\ \A j, k \in DOMAIN RemoveAt(s, i) : j # k =>
              \E m, n \in DOMAIN s \ {i} :
                 m # n /\ RemoveAt(s, i)[j] = s[m] /\ RemoveAt(s, i)[k] = s[n]
<1>1. i \in 1..Len(s) /\ Len(s) \in Nat /\ DOMAIN s = 1..Len(s)
  BY LenProperties
<1> DEFINE r == RemoveAt(s, i)
           old(j) == IF j < i THEN j ELSE j + 1
<1>2. DOMAIN r = 1..(Len(s) - 1) /\ \A j \in DOMAIN r : r[j] = s[old(j)]
  BY RemoveAtIs
<1>3. \A j \in DOMAIN r : old(j) \in DOMAIN s \ {i}
  BY <1>1, <1>2
<1>4. \A j, k \in DOMAIN r : j # k => old(j) # old(k)
  BY <1>1, <1>2
<1>5. ASSUME NEW k \in DOMAIN s \ {i}
      PROVE  \E j \in DOMAIN r : r[j] = s[k]
  <2>1. CASE k < i
    <3>1. k \in DOMAIN r /\ old(k) = k
      BY <1>1, <1>2, <2>1
    <3>2. QED
      BY <1>2, <3>1
  <2>2. CASE ~(k < i)
    <3>1. k - 1 \in DOMAIN r /\ old(k - 1) = k
      BY <1>1, <1>2, <2>2
    <3>2. QED
      BY <1>2, <3>1
  <2>3. QED
    BY <2>1, <2>2
<1> HIDE DEF r, old
<1>6. /\ \A j \in DOMAIN r : \E k \in DOMAIN s \ {i} : r[j] = s[k]
      /\ \A j, k \in DOMAIN r : j # k =>
           \E m, n \in DOMAIN s \ {i} : m # n /\ r[j] = s[m] /\ r[k] = s[n]
  BY <1>2, <1>3, <1>4
<1>7. QED
  BY <1>5, <1>6 DEF r

-----------------------------------------------------------------------------
(* The forms.                                                              *)

\* What every entry of the catalogue has.
Sensible(f) ==
  /\ f.unique \in BOOLEAN /\ f.kept \in BOOLEAN /\ f.guarded \in BOOLEAN
  /\ f.locks \in BOOLEAN /\ f.ends \in Ends
  /\ f.guarded => f.kept /\ f.locks /\ f.ends = "closes"
  /\ f.ends = "shows" => ~f.kept
  /\ f.filled \subseteq f.asks \cup f.takes
  /\ Len(f.steps) \in 1..3 /\ DOMAIN f.steps = 1..Len(f.steps)

LEMMA DialogsSensible ==
  ASSUME NEW asks, NEW takes
  PROVE  /\ Sensible(Dialog(asks, takes))
         /\ \A start : Sensible(Fresh(start, asks, takes))
BY DEF Dialog, Fresh, Sensible, Ends

LEMMA CatalogueSensible ==
  \A name \in Names : Sensible(Catalogue[name])
<1>1. /\ Sensible(CreateRoom) /\ Sensible(BulkCreateRooms) /\ Sensible(CreateDorm)
      /\ Sensible(BulkCreateDorms)
  BY DEF Sensible, Ends, Dialog, CreateRoom, BulkRoomFields, BulkCreateRooms, DormFields,
         CreateDorm, BulkDormFields, BulkCreateDorms
<1>2. /\ Sensible(EditRoom) /\ Sensible(EditDorm) /\ Sensible(Washroom)
      /\ Sensible(BulkCreateWashrooms)
  BY DEF Sensible, Ends, Dialog, Fresh, EditRoom, EditDorm, DormFields, EditDormFields,
         FixtureFields, WashroomFields, Washroom, BulkWashroomFields, BulkCreateWashrooms
<1>3. /\ Sensible(AssignWashroomTask) /\ Sensible(ScheduleWashroomMaintenance)
      /\ Sensible(CreateMaintenance) /\ Sensible(CreateTask)
  BY DEF Sensible, Ends, Dialog, Fresh, AssignFields, AssignWashroomTask, ScheduleFields,
         PhotoFields, ScheduleWashroomMaintenance, ComplaintFields, TicketFields,
         CreateMaintenance, AssignmentFields, RecurrenceFields, RuleFields, TaskFields,
         CreateTask
<1>4. /\ Sensible(CreateArea) /\ Sensible(CreateZone) /\ Sensible(EditZone)
      /\ Sensible(EditArea) /\ Sensible(EditProperty)
  BY DEF Sensible, Ends, Dialog, Fresh, CreateArea, ZoneFields, CreateZone, EditZone,
         EditArea, EditPropertyFields, EditProperty
<1>5. /\ Sensible(CreateEmployee) /\ Sensible(HrCreateEmployee) /\ Sensible(CreateProperty)
      /\ Sensible(Login) /\ Sensible(Signup)
  BY DEF Sensible, Ends, Dialog, EmployeeFields, CreateEmployee, HrCreateEmployee,
         PropertyFields, ManagerFields, CreateProperty, Login, SignupFields, Signup
<1>6. QED
  BY <1>1, <1>2, <1>3, <1>4, <1>5 DEF Names, Catalogue

LEMMA FormIs ==
  ASSUME FormInv
  PROVE  /\ Sensible(F) /\ modal \in Modals /\ calls \in Seq(Calls)
         /\ Len(calls) \in Nat /\ DOMAIN calls = 1..Len(calls)
         /\ \A i \in DOMAIN calls : calls[i] \in Calls
<1>1. Sensible(F)
  BY CatalogueSensible DEF FormInv, F
<1>2. modal \in Modals /\ calls \in Seq(Calls)
  BY DEF FormInv, Shape
<1>3. QED
  BY <1>1, <1>2, LenProperties, ElementOfSeq

\* The form stays the same: so does its entry of the catalogue.
LEMMA SameForm ==
  ASSUME FormInv, UNCHANGED form, Shape(modal', calls'), Counted(modal', calls')
  PROVE  FormInv'
BY DEF FormInv, F, Shape, Counted, Modals, Written, WritesOnce

LEMMA ModalParts ==
  ASSUME NEW m \in Modals
  PROVE  /\ m.filled \subseteq F.asks \cup F.takes
         /\ m.open \in BOOLEAN /\ m.taken \in BOOLEAN /\ m.locked \in BOOLEAN
         /\ m.shows \in BOOLEAN /\ m.writes \in Nat /\ m.lost \in Nat
         /\ NoModal \in Modals
         /\ NoModal.writes = 0 /\ NoModal.lost = 0
BY DEF Modals, NoModal

\* New content has not been written yet.
LEMMA RefilledIs ==
  ASSUME NEW m \in Modals, NEW filled, filled \subseteq F.asks \cup F.takes
  PROVE  /\ Refilled(m, filled) \in Modals
         /\ Refilled(m, filled).locked = m.locked
         /\ Refilled(m, filled).open = m.open
         /\ Refilled(m, filled).shows = m.shows
         /\ Refilled(m, filled).writes = 0 /\ Refilled(m, filled).lost = 0
BY DEF Refilled, Modals

LEMMA OpenIs ==
  ASSUME NEW m \in Modals, NEW open \in BOOLEAN
  PROVE  /\ [m EXCEPT !.open = open] \in Modals
         /\ [m EXCEPT !.open = open].locked = m.locked
         /\ [m EXCEPT !.open = open].taken = m.taken
         /\ [m EXCEPT !.open = open].shows = m.shows
         /\ [m EXCEPT !.open = open].writes = m.writes
         /\ [m EXCEPT !.open = open].lost = m.lost
BY DEF Modals

\* A family of elements that is indexed like a sequence is a sequence.
LEMMA FamilyIs ==
  ASSUME NEW S, NEW n \in Nat, NEW s, s = [i \in 1..n |-> s[i]],
         \A i \in 1..n : s[i] \in S
  PROVE  s \in Seq(S) /\ DOMAIN s = 1..n /\ Len(s) = n
<1>1. s \in [1..n -> S]
  OBVIOUS
<1>2. s \in Seq(S)
  BY <1>1, SeqDef
<1>3. QED
  BY <1>1, <1>2, LenProperties

\* Calls that lose a mark: which are mine stays, and nothing becomes current.
LEMMA MarksGo ==
  ASSUME FormInv, NEW m \in Modals, m.locked = modal.locked,
         NEW cs, cs = [i \in DOMAIN calls |-> cs[i]],
         \A i \in DOMAIN calls :
           /\ cs[i] \in Calls /\ cs[i].step = calls[i].step
           /\ cs[i].mine = calls[i].mine
           /\ cs[i].current => calls[i].current
           /\ cs[i].here => calls[i].here
           /\ F.guarded => cs[i].here = calls[i].here
  PROVE  Shape(m, cs)
<1>1. DOMAIN cs = DOMAIN calls /\ cs \in Seq(Calls)
  BY FormIs, FamilyIs
<1>2. QED
  BY <1>1 DEF FormInv, Shape

LEMMA MarkedIs ==
  ASSUME FormInv, NEW m \in Modals, m.locked = modal.locked
  PROVE  Shape(m, Marked("current"))
<1> DEFINE cs == Marked("current")
<1>1. \A i \in DOMAIN calls : /\ cs[i] \in Calls /\ cs[i].step = calls[i].step
           /\ cs[i].mine = calls[i].mine /\ cs[i].here = calls[i].here
           /\ ~cs[i].current
  BY FormIs DEF Marked, Calls
<1>2. cs = [i \in DOMAIN calls |-> cs[i]]
  BY DEF Marked
<1> HIDE DEF cs
<1>3. Shape(m, cs)
  BY <1>1, <1>2, MarksGo
<1>4. QED
  BY <1>3 DEF cs

\* The fields get other content as the dialog opens or closes.
LEMMA TurnedIs ==
  ASSUME NEW m \in Modals, NEW filled, filled \subseteq F.asks \cup F.takes,
         NEW open \in BOOLEAN, NEW new, new = [Refilled(m, filled) EXCEPT !.open = open]
  PROVE  new \in Modals /\ new.locked = m.locked /\ new.writes = 0 /\ new.lost = 0
<1> DEFINE r == Refilled(m, filled)
<1>1. r \in Modals /\ r.locked = m.locked /\ r.writes = 0 /\ r.lost = 0
  BY RefilledIs
<1>2. new = [r EXCEPT !.open = open]
  OBVIOUS
<1> HIDE DEF r
<1>3. /\ [r EXCEPT !.open = open] \in Modals
      /\ [r EXCEPT !.open = open].locked = r.locked
      /\ [r EXCEPT !.open = open].writes = r.writes
      /\ [r EXCEPT !.open = open].lost = r.lost
  BY <1>1, OpenIs
<1>4. QED
  BY <1>1, <1>2, <1>3

LEMMA FreshCounts ==
  ASSUME NEW m, NEW cs, m.writes = 0, m.lost = 0
  PROVE  Counted(m, cs)
BY DEF Counted

\* The request of a step writes when it is the last.
LEMMA LastWrites ==
  ASSUME FormInv, WritesOnce, NEW i \in DOMAIN calls
  PROVE  F.steps[calls[i].step] = "write" <=> calls[i].step = Len(F.steps)
<1>1. calls[i].step \in DOMAIN F.steps
  BY FormIs DEF FormInv, Shape, Sensible
<1>2. QED
  BY <1>1 DEF WritesOnce

LEMMA TypingKeeps ==
  ASSUME FormInv, OpenForm \/ FillIn \/ NameTaken \/ NameFreed
  PROVE  FormInv'
<1>t. /\ Sensible(F) /\ modal \in Modals /\ modal.filled \subseteq F.asks \cup F.takes
      /\ UNCHANGED form /\ Shape(modal, calls) /\ Counted(modal, calls)
  BY FormIs, ModalParts DEF OpenForm, FillIn, NameTaken, NameFreed, FormInv
<1>1. CASE OpenForm
  <2>1. PICK filled \in Opened :
          IF F.kept /\ filled = modal.filled
          THEN modal' = [modal EXCEPT !.open = TRUE] /\ UNCHANGED calls
          ELSE /\ modal' = [Refilled(modal, filled) EXCEPT !.open = TRUE]
               /\ calls' = Marked("current")
    BY <1>1 DEF OpenForm
  <2>2. filled \subseteq F.asks \cup F.takes
    BY <1>t, <2>1 DEF Opened
  <2>3. CASE modal' = [modal EXCEPT !.open = TRUE] /\ UNCHANGED calls
    <3> DEFINE m == [modal EXCEPT !.open = TRUE]
    <3>m. /\ m \in Modals /\ m.locked = modal.locked /\ m.taken = modal.taken
          /\ m.shows = modal.shows /\ m.writes = modal.writes /\ m.lost = modal.lost
      BY <1>t, OpenIs
    <3> HIDE DEF m
    <3>1. Shape(m, calls) /\ Counted(m, calls)
      BY <1>t, <3>m DEF Shape, Counted
    <3>e. modal' = m /\ calls' = calls
      BY <2>3 DEF m
    <3>x. Shape(modal', calls') /\ Counted(modal', calls')
      BY <3>1, <3>e
    <3>2. QED
      BY <1>t, <3>x, SameForm
  <2>4. CASE modal' = [Refilled(modal, filled) EXCEPT !.open = TRUE] /\ calls' = Marked("current")
    <3>1. /\ modal' \in Modals /\ modal'.locked = modal.locked
          /\ modal'.writes = 0 /\ modal'.lost = 0
      BY <1>t, <2>2, <2>4, TurnedIs
    <3>2. Shape(modal', calls') /\ Counted(modal', calls')
      BY <2>4, <3>1, MarkedIs, FreshCounts
    <3>3. QED
      BY <1>t, <3>2, SameForm
  <2>5. QED
    BY <2>1, <2>3, <2>4
<1>2. CASE FillIn
  <2>1. PICK filled \in SUBSET (F.asks \cup F.takes) : modal' = Refilled(modal, filled)
    BY <1>2 DEF FillIn
  <2>2. calls' = Marked("current")
    BY <1>2 DEF FillIn
  <2>3. /\ modal' \in Modals /\ modal'.locked = modal.locked
        /\ modal'.writes = 0 /\ modal'.lost = 0
    BY <1>t, <2>1, RefilledIs
  <2>4. Shape(modal', calls') /\ Counted(modal', calls')
    BY <2>2, <2>3, MarkedIs, FreshCounts
  <2>5. QED
    BY <1>t, <2>4, SameForm
<1>3. CASE NameTaken
  <2>1. /\ modal' = [modal EXCEPT !.taken = TRUE] /\ UNCHANGED calls
    BY <1>3 DEF NameTaken
  <2>2. /\ modal' \in Modals /\ modal'.locked = modal.locked /\ modal'.taken
        /\ modal'.shows = modal.shows /\ modal'.writes = modal.writes
        /\ modal'.lost = modal.lost
    BY <1>t, <2>1 DEF Modals
  <2>3. Shape(modal', calls') /\ Counted(modal', calls')
    BY <1>t, <2>1, <2>2 DEF Shape, Counted
  <2>4. QED
    BY <1>t, <2>3, SameForm
<1>4. CASE NameFreed
  <2> DEFINE pending == \E i \in DOMAIN calls : Unanswered(calls[i])
  <2>1. /\ modal' = [modal EXCEPT !.taken = FALSE, !.lost = 0, !.writes = IF pending THEN 1 ELSE 0]
        /\ UNCHANGED calls
    BY <1>4 DEF NameFreed
  <2>2. WritesOnce /\ pending => \E i \in DOMAIN calls : Written(calls[i])
    BY LastWrites DEF Unanswered, Written
  <2> HIDE DEF pending
  <2>3. /\ modal' \in Modals /\ modal'.locked = modal.locked
        /\ modal'.lost = 0 /\ modal'.writes = IF pending THEN 1 ELSE 0
    BY <1>t, <2>1 DEF Modals
  <2>4. Shape(modal', calls') /\ Counted(modal', calls')
    BY <1>t, <2>1, <2>2, <2>3 DEF Shape, Counted
  <2>5. QED
    BY <1>t, <2>4, SameForm
<1>5. QED
  BY <1>1, <1>2, <1>3, <1>4

\* Nothing is submitted that was written and whose answer may come still.
LEMMA SubmitKeeps == FormInv /\ Submit => FormInv'
<1> SUFFICES ASSUME FormInv, Submit PROVE FormInv'
  OBVIOUS
<1> DEFINE new == [step |-> 1, served |-> "no", mine |-> TRUE,
                   here |-> TRUE, current |-> TRUE]
           n == Len(calls) + 1
<1>t. /\ Sensible(F) /\ modal \in Modals /\ calls \in Seq(Calls) /\ Len(calls) \in Nat
      /\ DOMAIN calls = 1..Len(calls) /\ modal.locked \in BOOLEAN
      /\ Shape(modal, calls) /\ Counted(modal, calls)
  BY FormIs, ModalParts DEF FormInv
<1>1. /\ ~modal.shows /\ ~modal.taken /\ ~modal.locked /\ UNCHANGED form
      /\ modal' = [modal EXCEPT !.locked = F.locks] /\ calls' = Append(calls, new)
  BY DEF Submit, Ready
<1>2. /\ modal' \in Modals /\ modal'.locked = F.locks
      /\ modal'.writes = modal.writes /\ modal'.lost = modal.lost
      /\ modal.writes \in Nat /\ modal.lost \in Nat
  BY <1>t, <1>1 DEF Modals, Sensible
<1>3. new \in Calls /\ new.mine /\ new.here /\ new.step = 1
  BY DEF Calls
<1> HIDE DEF new
<1>4. /\ calls' \in Seq(Calls) /\ DOMAIN calls' = 1..n
      /\ \A i \in 1..Len(calls) : calls'[i] = calls[i]
      /\ calls'[n] = new
  <2>1. Len(Append(calls, new)) = n /\ Append(calls, new) \in Seq(Calls)
    BY <1>t, <1>3, AppendProperties
  <2>2. DOMAIN Append(calls, new) = 1..n
    BY <2>1, LenProperties
  <2>3. QED
    BY <1>t, <1>1, <1>3, <2>1, <2>2, AppendProperties
<1>5. F.locks => \A i \in DOMAIN calls : ~calls[i].mine
  BY <1>t, <1>1 DEF Shape
<1>6. 1 \in 1..Len(F.steps)
  <2>1. Len(F.steps) \in 1..3
    BY <1>t DEF Sensible
  <2>2. QED
    BY <2>1
<1>7. Shape(modal', calls')
  <2>1. ASSUME NEW i \in DOMAIN calls'
        PROVE  /\ calls'[i].step \in 1..Len(F.steps)
               /\ calls'[i].current \/ calls'[i].here => calls'[i].mine
               /\ F.kept => calls'[i].mine
               /\ F.locks /\ calls'[i].mine => modal'.locked
               /\ F.guarded => calls'[i].here
    BY <1>t, <1>2, <1>3, <1>4, <1>6 DEF Shape
  <2>2. F.locks => \A i, j \in DOMAIN calls' : calls'[i].mine /\ calls'[j].mine => i = j
    BY <1>t, <1>4, <1>5
  <2>3. QED
    BY <1>2, <1>4, <2>1, <2>2 DEF Shape
<1>8. Counted(modal', calls')
  <2> SUFFICES ASSUME WritesOnce PROVE modal.writes <= modal.lost
    BY <1>2 DEF Counted
  <2>1. F.locks
    BY DEF WritesOnce
  <2>2. \A i \in DOMAIN calls : ~calls[i].current
    BY <1>t, <1>5, <2>1 DEF Shape
  <2>3. QED
    BY <1>t, <1>1, <1>2, <2>2 DEF Counted, Written
<1>9. QED
  BY <1>1, <1>7, <1>8, SameForm

\* A guarded form has no submission under way when it closes.
LEMMA CloseKeeps == FormInv /\ CloseForm => FormInv'
<1> SUFFICES ASSUME FormInv, CloseForm PROVE FormInv'
  OBVIOUS
<1>t. /\ Sensible(F) /\ modal \in Modals /\ modal.filled \subseteq F.asks \cup F.takes
      /\ UNCHANGED form /\ Shape(modal, calls) /\ Counted(modal, calls)
      /\ calls \in Seq(Calls) /\ DOMAIN calls = 1..Len(calls) /\ Len(calls) \in Nat
      /\ \A i \in DOMAIN calls : calls[i] \in Calls
  BY FormIs, ModalParts DEF CloseForm, FormInv
<1>g. F.guarded => DOMAIN calls = {}
  BY <1>t DEF CloseForm, Sensible, Shape
<1>1. CASE F.kept
  <2> DEFINE m == IF F.wipes = {} THEN modal ELSE Refilled(modal, modal.filled \ F.wipes)
             cs == [i \in DOMAIN calls |->
                      [calls[i] EXCEPT !.here = FALSE, !.current = @ /\ F.wipes = {}]]
  <2>1. modal' = [m EXCEPT !.open = FALSE] /\ calls' = cs
    BY <1>1 DEF CloseForm
  <2>2. \A i \in DOMAIN calls :
          /\ cs[i] \in Calls /\ cs[i].step = calls[i].step /\ cs[i].served = calls[i].served
          /\ cs[i].mine = calls[i].mine /\ ~cs[i].here
          /\ cs[i].current <=> calls[i].current /\ F.wipes = {}
    BY <1>t DEF Calls
  <2>3. cs = [i \in DOMAIN calls |-> cs[i]] /\ DOMAIN cs = DOMAIN calls
    OBVIOUS
  <2>4. m \in Modals /\ m.locked = modal.locked
    BY <1>t, RefilledIs
  <2>5. modal' \in Modals /\ modal'.locked = modal.locked
    BY <2>1, <2>4, OpenIs
  <2> HIDE DEF cs
  <2>6. Shape(modal', cs)
    BY <1>g, <2>2, <2>3, <2>5, MarksGo
  <2>7. Counted(modal', cs)
    <3>1. CASE F.wipes = {}
      <4>1. /\ modal'.writes = modal.writes /\ modal'.lost = modal.lost
            /\ modal'.taken = modal.taken /\ modal'.shows = modal.shows
        <5>1. modal' = [modal EXCEPT !.open = FALSE]
          BY <2>1, <3>1
        <5>2. QED
          BY <1>t, <5>1, OpenIs
      <4>2. QED
        BY <1>t, <2>2, <2>3, <3>1, <4>1 DEF Counted, Written
    <3>2. CASE F.wipes # {}
      <4>1. modal' = [Refilled(modal, modal.filled \ F.wipes) EXCEPT !.open = FALSE]
        BY <2>1, <3>2
      <4>2. modal.filled \ F.wipes \subseteq F.asks \cup F.takes
        BY <1>t
      <4>3. modal'.writes = 0 /\ modal'.lost = 0
        BY <1>t, <4>1, <4>2, TurnedIs
      <4>4. QED
        BY <4>3, FreshCounts
    <3>3. QED
      BY <3>1, <3>2
  <2>8. QED
    BY <1>t, <2>1, <2>6, <2>7, SameForm
<1>2. CASE ~F.kept
  <2> DEFINE cs == [i \in DOMAIN calls |->
                      [calls[i] EXCEPT !.mine = FALSE, !.here = FALSE, !.current = FALSE]]
  <2>1. modal' = NoModal /\ calls' = cs
    BY <1>2 DEF CloseForm
  <2>2. \A i \in DOMAIN calls :
          /\ cs[i] \in Calls /\ cs[i].step = calls[i].step
          /\ ~cs[i].mine /\ ~cs[i].here /\ ~cs[i].current
    BY <1>t DEF Calls
  <2>s. cs = [i \in 1..Len(calls) |-> cs[i]]
    BY <1>t
  <2> HIDE DEF cs
  <2>3. DOMAIN cs = DOMAIN calls /\ cs \in Seq(Calls)
    BY <1>t, <2>2, <2>s, FamilyIs
  <2>4. Shape(NoModal, cs)
    BY <1>t, <1>2, <2>2, <2>3, ModalParts DEF Shape, Sensible
  <2>5. Counted(NoModal, cs)
    BY <1>t, ModalParts, FreshCounts
  <2>6. QED
    BY <1>t, <2>1, <2>4, <2>5, SameForm
<1>3. QED
  BY <1>1, <1>2

\* Calls that lose marks, of a form whose lock is not lifted too early.
LEMMA MarksFall ==
  ASSUME NEW m0, NEW cs0, Shape(m0, cs0), NEW m \in Modals,
         F.locks /\ m0.locked => m.locked,
         NEW cs, cs = [j \in DOMAIN cs0 |-> cs[j]],
         \A j \in DOMAIN cs0 :
           /\ cs[j] \in Calls /\ cs[j].step = cs0[j].step
           /\ cs[j].mine => cs0[j].mine
           /\ cs[j].current \/ cs[j].here => cs[j].mine
           /\ F.kept => cs[j].mine = cs0[j].mine
           /\ F.guarded => cs[j].here
  PROVE  Shape(m, cs)
<1>1. /\ cs0 \in Seq(Calls) /\ Len(cs0) \in Nat /\ DOMAIN cs0 = 1..Len(cs0)
      /\ \A j \in DOMAIN cs0 : cs0[j] \in Calls
  BY LenProperties, ElementOfSeq DEF Shape
<1>2. DOMAIN cs = DOMAIN cs0 /\ cs \in Seq(Calls)
  BY <1>1, FamilyIs
<1>3. \A j \in DOMAIN cs0 :
        /\ cs0[j].step \in 1..Len(F.steps) /\ (F.kept => cs0[j].mine)
        /\ F.locks /\ cs0[j].mine => m0.locked
  BY DEF Shape
<1>4. F.locks => \A i, j \in DOMAIN cs : cs[i].mine /\ cs[j].mine => i = j
  BY <1>2 DEF Shape
<1>5. \A j \in DOMAIN cs :
       /\ cs[j].step \in 1..Len(F.steps)
       /\ cs[j].current \/ cs[j].here => cs[j].mine
       /\ F.kept => cs[j].mine
       /\ F.locks /\ cs[j].mine => m.locked
       /\ F.guarded => cs[j].here
  BY <1>2, <1>3
<1>6. QED
  BY <1>2, <1>4, <1>5 DEF Shape

\* The submissions that are left when one is answered.
LEMMA RestIs ==
  ASSUME FormInv, NEW i \in DOMAIN calls
  PROVE  LET rest == RemoveAt(calls, i)
         IN /\ rest \in Seq(Calls)
            /\ \A j \in DOMAIN rest : \E k \in DOMAIN calls \ {i} : rest[j] = calls[k]
            /\ \A k \in DOMAIN calls \ {i} : \E j \in DOMAIN rest : rest[j] = calls[k]
            /\ \A j \in DOMAIN rest : rest[j] \in Calls
            /\ F.locks /\ calls[i].mine => \A j \in DOMAIN rest : ~rest[j].mine
            /\ F.locks /\ F.kept => DOMAIN rest = {}
<1> DEFINE rest == RemoveAt(calls, i)
<1>1. calls \in Seq(Calls) /\ \A k \in DOMAIN calls : calls[k] \in Calls
  BY FormIs
<1>2. /\ rest \in Seq(Calls)
      /\ \A j \in DOMAIN rest : \E k \in DOMAIN calls \ {i} : rest[j] = calls[k]
      /\ \A k \in DOMAIN calls \ {i} : \E j \in DOMAIN rest : rest[j] = calls[k]
  BY <1>1, RemoveAtIs, RemainingFrom
<1> HIDE DEF rest
<1>3. \A j \in DOMAIN rest : rest[j] \in Calls
  BY <1>1, <1>2
<1>4. /\ F.locks => \A k \in DOMAIN calls : calls[i].mine /\ calls[k].mine => i = k
      /\ F.kept => \A k \in DOMAIN calls : calls[k].mine
  BY DEF FormInv, Shape
<1>5. F.locks /\ calls[i].mine => \A j \in DOMAIN rest : ~rest[j].mine
  BY <1>2, <1>4
<1>6. F.locks /\ F.kept => DOMAIN rest = {}
  BY <1>2, <1>4
<1>7. QED
  BY <1>2, <1>3, <1>5, <1>6 DEF rest

LEMMA RestShape ==
  ASSUME FormInv, NEW i \in DOMAIN calls, NEW m \in Modals,
         m.locked = (modal.locked /\ ~calls[i].mine)
  PROVE  Shape(m, RemoveAt(calls, i))
<1> DEFINE rest == RemoveAt(calls, i)
<1>1. /\ rest \in Seq(Calls)
      /\ \A j \in DOMAIN rest : \E k \in DOMAIN calls \ {i} : rest[j] = calls[k]
      /\ F.locks /\ calls[i].mine => \A j \in DOMAIN rest : ~rest[j].mine
  BY RestIs
<1>2. \A k \in DOMAIN calls :
       /\ calls[k].step \in 1..Len(F.steps)
       /\ calls[k].current \/ calls[k].here => calls[k].mine
       /\ F.kept => calls[k].mine
       /\ F.locks /\ calls[k].mine => modal.locked
       /\ F.guarded => calls[k].here
  BY DEF FormInv, Shape
<1>3. F.locks => \A j, k \in DOMAIN rest : rest[j].mine /\ rest[k].mine => j = k
  <2> SUFFICES ASSUME F.locks, NEW j \in DOMAIN rest, NEW k \in DOMAIN rest, j # k
               PROVE  ~(rest[j].mine /\ rest[k].mine)
    OBVIOUS
  <2>1. PICK x \in DOMAIN calls \ {i}, y \in DOMAIN calls \ {i} :
          x # y /\ rest[j] = calls[x] /\ rest[k] = calls[y]
    <3>1. calls \in Seq(Calls)
      BY FormIs
    <3>2. QED
      BY <3>1, RemainingFrom
  <2>2. QED
    BY <2>1 DEF FormInv, Shape
<1> HIDE DEF rest
<1>4. \A j \in DOMAIN rest :
       /\ rest[j].step \in 1..Len(F.steps)
       /\ rest[j].current \/ rest[j].here => rest[j].mine
       /\ F.kept => rest[j].mine
       /\ F.locks /\ rest[j].mine => m.locked
       /\ F.guarded => rest[j].here
  <2> SUFFICES ASSUME NEW j \in DOMAIN rest
               PROVE  /\ rest[j].step \in 1..Len(F.steps)
                      /\ rest[j].current \/ rest[j].here => rest[j].mine
                      /\ F.kept => rest[j].mine
                      /\ F.locks /\ rest[j].mine => m.locked
                      /\ F.guarded => rest[j].here
    OBVIOUS
  <2>1. PICK k \in DOMAIN calls \ {i} : rest[j] = calls[k]
    BY <1>1
  <2>2. QED
    BY <1>1, <1>2, <2>1
<1>5. Shape(m, rest)
  BY <1>1, <1>3, <1>4 DEF Shape
<1>6. QED
  BY <1>5 DEF rest

\* A call that is current is the only one of its form.
LEMMA CurrentAlone ==
  ASSUME FormInv, WritesOnce, NEW i \in DOMAIN calls, calls[i].mine
  PROVE  \A k \in DOMAIN calls \ {i} : ~calls[k].mine /\ ~calls[k].current
BY DEF FormInv, Shape, WritesOnce

LEMMA CallTyped ==
  ASSUME FormInv, NEW i \in DOMAIN calls
  PROVE  /\ calls[i].step \in 1..3 /\ calls[i].step \in 1..Len(F.steps)
         /\ calls[i].served \in {"no", "done", "refused"}
         /\ calls[i].mine \in BOOLEAN /\ calls[i].here \in BOOLEAN
         /\ calls[i].current \in BOOLEAN
<1>1. calls[i] \in Calls
  BY FormIs
<1>2. QED
  BY <1>1 DEF Calls, FormInv, Shape

LEMMA ModalWith ==
  ASSUME NEW m \in Modals, NEW locked \in BOOLEAN, NEW lost \in Nat
  PROVE  [m EXCEPT !.locked = locked, !.lost = lost] \in Modals
BY DEF Modals

LEMMA FailKeeps ==
  ASSUME FormInv, NEW i \in DOMAIN calls, Fail(i)
  PROVE  FormInv'
<1> DEFINE c == calls[i]
           write == Unanswered(c)
           m == [modal EXCEPT !.locked = @ /\ ~c.mine, !.lost = IF write THEN @ + 1 ELSE @]
<1>1. UNCHANGED form /\ modal' = m /\ calls' = RemoveAt(calls, i)
  BY DEF Fail
<1>2. modal \in Modals /\ modal.lost \in Nat /\ modal.writes \in Nat /\ modal.locked \in BOOLEAN
  BY FormIs, ModalParts
<1>3. /\ m.locked = (modal.locked /\ ~c.mine)
      /\ m.lost = (IF write THEN modal.lost + 1 ELSE modal.lost)
      /\ m.writes = modal.writes /\ m.taken = modal.taken /\ m.shows = modal.shows
  BY <1>2 DEF Modals
<1>4. m \in Modals
  <2> DEFINE locked == modal.locked /\ ~c.mine
             lost == IF write THEN modal.lost + 1 ELSE modal.lost
  <2>1. locked \in BOOLEAN /\ lost \in Nat
    BY <1>2
  <2>2. m = [modal EXCEPT !.locked = locked, !.lost = lost]
    OBVIOUS
  <2> HIDE DEF locked, lost, m
  <2>3. QED
    BY <1>2, <2>1, <2>2, ModalWith
<1> HIDE DEF m
<1>5. Shape(m, RemoveAt(calls, i))
  BY <1>3, <1>4, RestShape
<1>6. Counted(m, RemoveAt(calls, i))
  <2> SUFFICES ASSUME WritesOnce
               PROVE  /\ m.writes <= 1 + m.lost
                      /\ m.writes > m.lost =>
                           \/ \E j \in DOMAIN RemoveAt(calls, i) : Written(RemoveAt(calls, i)[j])
                           \/ /\ m.taken \/ m.shows
                              /\ \A j \in DOMAIN RemoveAt(calls, i) : ~RemoveAt(calls, i)[j].current
    BY DEF Counted
  <2>1. write <=> Written(c)
    BY LastWrites DEF Written, Unanswered
  <2> HIDE DEF write
  <2>2. /\ modal.writes <= 1 + modal.lost
        /\ modal.writes > modal.lost =>
             \/ \E k \in DOMAIN calls : Written(calls[k])
             \/ (modal.taken \/ modal.shows) /\ \A k \in DOMAIN calls : ~calls[k].current
    BY DEF FormInv, Counted
  <2>3. CASE write
    BY <1>2, <1>3, <2>2, <2>3
  <2>4. CASE ~write
    <3> SUFFICES ASSUME modal.writes > modal.lost
                 PROVE  \/ \E j \in DOMAIN RemoveAt(calls, i) : Written(RemoveAt(calls, i)[j])
                        \/ /\ modal.taken \/ modal.shows
                           /\ \A j \in DOMAIN RemoveAt(calls, i) : ~RemoveAt(calls, i)[j].current
      BY <1>2, <1>3, <2>2, <2>4
    <3>1. CASE \E k \in DOMAIN calls : Written(calls[k])
      <4>1. PICK k \in DOMAIN calls \ {i} : Written(calls[k])
        BY <2>1, <2>4, <3>1
      <4>2. QED
        BY <4>1, RestIs
    <3>2. CASE (modal.taken \/ modal.shows) /\ \A k \in DOMAIN calls : ~calls[k].current
      BY <3>2, RestIs
    <3>3. QED
      BY <2>2, <3>1, <3>2
  <2>5. QED
    BY <2>3, <2>4
<1>7. QED
  BY <1>1, <1>5, <1>6, SameForm

\* One call moves on and keeps its marks.
LEMMA CallMoves ==
  ASSUME FormInv, NEW i \in DOMAIN calls, NEW c \in Calls,
         c.step \in 1..Len(F.steps), c.mine = calls[i].mine, c.here = calls[i].here,
         c.current = calls[i].current,
         NEW m \in Modals, m.locked = modal.locked
  PROVE  Shape(m, [calls EXCEPT ![i] = c])
<1> DEFINE cs == [calls EXCEPT ![i] = c]
<1>1. calls \in Seq(Calls) /\ Len(calls) \in Nat /\ DOMAIN calls = 1..Len(calls)
  BY FormIs
<1>2. /\ DOMAIN cs = DOMAIN calls
      /\ \A j \in DOMAIN calls : cs[j] = IF j = i THEN c ELSE calls[j]
  BY <1>1
<1>3. cs \in Seq(Calls)
  BY <1>1, ExceptSeq
<1> HIDE DEF cs
<1>4. \A j \in DOMAIN calls :
       /\ calls[j].step \in 1..Len(F.steps)
       /\ calls[j].current \/ calls[j].here => calls[j].mine
       /\ F.kept => calls[j].mine
       /\ F.locks /\ calls[j].mine => modal.locked
       /\ F.guarded => calls[j].here
  BY DEF FormInv, Shape
<1>5. \A j \in DOMAIN cs :
       /\ cs[j].step \in 1..Len(F.steps)
       /\ cs[j].current \/ cs[j].here => cs[j].mine
       /\ F.kept => cs[j].mine
       /\ F.locks /\ cs[j].mine => m.locked
       /\ F.guarded => cs[j].here
  BY <1>2, <1>4
<1>6. \A j \in DOMAIN cs : cs[j].mine = calls[j].mine
  BY <1>2
<1>7. F.locks => \A j, k \in DOMAIN cs : cs[j].mine /\ cs[k].mine => j = k
  BY <1>2, <1>6 DEF FormInv, Shape
<1>8. Shape(m, cs)
  BY <1>3, <1>5, <1>7 DEF Shape
<1>9. QED
  BY <1>8 DEF cs

\* What was said of the written content stays while another call moves.
LEMMA OthersCount ==
  ASSUME FormInv, NEW i \in DOMAIN calls, ~Written(calls[i]), NEW c,
         c.current = calls[i].current
  PROVE  Counted(modal, [calls EXCEPT ![i] = c])
<1> DEFINE cs == [calls EXCEPT ![i] = c]
<1>1. /\ DOMAIN cs = DOMAIN calls
      /\ \A j \in DOMAIN calls : cs[j] = IF j = i THEN c ELSE calls[j]
  OBVIOUS
<1> HIDE DEF cs
<1>2. \A j \in DOMAIN cs : cs[j].current = calls[j].current
  BY <1>1
<1>3. (\E j \in DOMAIN calls : Written(calls[j])) => \E j \in DOMAIN cs : Written(cs[j])
  BY <1>1
<1>4. Counted(modal, cs)
  BY <1>1, <1>2, <1>3 DEF FormInv, Counted
<1>5. QED
  BY <1>4 DEF cs

LEMMA ServedIs ==
  ASSUME FormInv, NEW i \in DOMAIN calls, NEW served \in {"no", "done", "refused"}
  PROVE  LET c == [calls[i] EXCEPT !.served = served]
         IN /\ c \in Calls /\ c.step = calls[i].step /\ c.served = served
            /\ c.mine = calls[i].mine /\ c.here = calls[i].here
            /\ c.current = calls[i].current
            /\ [calls EXCEPT ![i].served = served] = [calls EXCEPT ![i] = c]
<1>1. calls[i] \in Calls
  BY FormIs
<1>2. QED
  BY <1>1 DEF Calls

LEMMA ServeKeeps ==
  ASSUME FormInv, NEW i \in DOMAIN calls, Serve(i)
  PROVE  FormInv'
<1>t. /\ UNCHANGED form /\ modal \in Modals /\ modal.writes \in Nat /\ modal.lost \in Nat
      /\ calls[i].step \in 1..Len(F.steps) /\ calls[i].served = "no"
      /\ calls[i].current \in BOOLEAN
  BY FormIs, ModalParts, CallTyped DEF Serve
<1>w. ~Written(calls[i])
  BY <1>t DEF Written
<1>1. ASSUME NEW served \in {"done", "refused"}, UNCHANGED modal,
             calls' = [calls EXCEPT ![i].served = served]
      PROVE  FormInv'
  <2> DEFINE c == [calls[i] EXCEPT !.served = served]
  <2>1. /\ c \in Calls /\ c.step = calls[i].step /\ c.mine = calls[i].mine
        /\ c.here = calls[i].here /\ c.current = calls[i].current
        /\ calls' = [calls EXCEPT ![i] = c]
    BY <1>1, ServedIs
  <2> HIDE DEF c
  <2>2. Shape(modal, [calls EXCEPT ![i] = c]) /\ Counted(modal, [calls EXCEPT ![i] = c])
    BY <1>t, <1>w, <2>1, CallMoves, OthersCount
  <2>3. Shape(modal', calls') /\ Counted(modal', calls')
    BY <1>1, <2>1, <2>2
  <2>4. QED
    BY <1>t, <2>3, SameForm
<1>2. CASE /\ calls' = [calls EXCEPT ![i].served = "done"]
           /\ calls[i].current /\ F.steps[calls[i].step] = "write"
           /\ modal' = [modal EXCEPT !.writes = @ + 1]
  <2> DEFINE c == [calls[i] EXCEPT !.served = "done"]
             m == [modal EXCEPT !.writes = @ + 1]
  <2>1. /\ c \in Calls /\ c.step = calls[i].step /\ c.mine = calls[i].mine
        /\ c.here = calls[i].here /\ c.current = calls[i].current
        /\ c.served = "done" /\ calls' = [calls EXCEPT ![i] = c]
    BY <1>2, ServedIs
  <2>2. /\ m \in Modals /\ m.locked = modal.locked /\ m.lost = modal.lost
        /\ m.writes = modal.writes + 1
    BY <1>t DEF Modals
  <2>3. modal' = m
    BY <1>2
  <2> HIDE DEF c, m
  <2>4. Shape(m, [calls EXCEPT ![i] = c])
    BY <1>t, <2>1, <2>2, CallMoves
  <2>5. Counted(m, [calls EXCEPT ![i] = c])
    <3> SUFFICES ASSUME WritesOnce
                 PROVE  /\ modal.writes <= modal.lost
                        /\ \E j \in DOMAIN [calls EXCEPT ![i] = c] :
                             Written([calls EXCEPT ![i] = c][j])
      BY <1>t, <2>2 DEF Counted
    <3>1. calls[i].step = Len(F.steps)
      BY <1>2, LastWrites
    <3>2. Written(c)
      BY <1>2, <2>1, <3>1 DEF Written
    <3>3. [calls EXCEPT ![i] = c][i] = c /\ i \in DOMAIN [calls EXCEPT ![i] = c]
      OBVIOUS
    <3>4. calls[i].mine
      BY <1>2 DEF FormInv, Shape
    <3>5. \A k \in DOMAIN calls : ~Written(calls[k])
      BY <1>w, <3>4, CurrentAlone DEF Written
    <3>6. modal.writes <= modal.lost
      BY <1>t, <1>2, <3>5 DEF FormInv, Counted
    <3>7. QED
      BY <3>2, <3>3, <3>6
  <2>6. Shape(modal', calls') /\ Counted(modal', calls')
    BY <2>1, <2>3, <2>4, <2>5
  <2>7. QED
    BY <1>t, <2>6, SameForm
<1>3. QED
  BY <1>1, <1>2 DEF Serve

LEMMA NextRequestKeeps ==
  ASSUME FormInv, NEW i \in DOMAIN calls, NextRequest(i)
  PROVE  FormInv'
<1>t. /\ UNCHANGED <<form, modal>> /\ modal \in Modals
      /\ calls[i].step \in 1..Len(F.steps) /\ calls[i].step < Len(F.steps)
      /\ calls[i].step \in 1..3 /\ calls[i] \in Calls
      /\ Sensible(F) /\ calls' = [calls EXCEPT ![i].step = @ + 1, ![i].served = "no"]
  BY FormIs, CallTyped DEF NextRequest
<1>s. Sensible(F)
  BY FormIs
<1>1. Len(F.steps) \in 1..3
  BY <1>s DEF Sensible
<1> DEFINE c == [calls[i] EXCEPT !.step = @ + 1, !.served = "no"]
<1>2. /\ c.step = calls[i].step + 1 /\ c.mine = calls[i].mine
      /\ c.here = calls[i].here /\ c.current = calls[i].current
  BY <1>t DEF Calls
<1>3. c \in Calls
  <2>1. calls[i].step + 1 \in 1..3
    <3>1. \A n \in 1..3 : \A k \in 1..3 : k < n => k + 1 \in 1..3
      OBVIOUS
    <3>2. QED
      BY <1>t, <1>1, <3>1
  <2>2. QED
    BY <1>t, <2>1 DEF Calls
<1>4. calls' = [calls EXCEPT ![i] = c]
  BY <1>t DEF Calls
<1> HIDE DEF c
<1>5. c.step \in 1..Len(F.steps) /\ ~Written(calls[i])
  BY <1>t, <1>1, <1>2 DEF Written
<1>6. Shape(modal, [calls EXCEPT ![i] = c]) /\ Counted(modal, [calls EXCEPT ![i] = c])
  BY <1>t, <1>2, <1>3, <1>5, CallMoves, OthersCount
<1>7. Shape(modal', calls') /\ Counted(modal', calls')
  BY <1>t, <1>4, <1>6
<1>8. QED
  BY <1>t, <1>7, SameForm

\* The fields and the lock after the last answer.
Blanked(i) ==
  IF calls[i].mine /\ F.blanks # {}
  THEN Refilled(modal, modal.filled \ F.blanks) ELSE modal

Unlocked(i) ==
  [Blanked(i) EXCEPT !.locked = @ /\ ~calls[i].mine,
                     !.taken = @ \/ (F.unique /\ F.blanks = {} /\ calls[i].current)]

LEMMA BlankedIs ==
  ASSUME FormInv, NEW i \in DOMAIN calls
  PROVE  /\ Blanked(i) \in Modals /\ Blanked(i).locked = modal.locked
         /\ Blanked(i).shows = modal.shows
         /\ IF calls[i].mine /\ F.blanks # {}
            THEN Blanked(i).writes = 0 /\ Blanked(i).lost = 0
            ELSE /\ Blanked(i).writes = modal.writes /\ Blanked(i).lost = modal.lost
                 /\ Blanked(i).taken = modal.taken
<1>1. modal \in Modals /\ modal.filled \ F.blanks \subseteq F.asks \cup F.takes
  BY FormIs, ModalParts
<1>2. CASE calls[i].mine /\ F.blanks # {}
  BY <1>1, <1>2, RefilledIs DEF Blanked
<1>3. CASE ~(calls[i].mine /\ F.blanks # {})
  BY <1>1, <1>3 DEF Blanked
<1>4. QED
  BY <1>2, <1>3

LEMMA UnlockedIs ==
  ASSUME FormInv, NEW i \in DOMAIN calls
  PROVE  /\ Unlocked(i) \in Modals
         /\ Unlocked(i).locked = (modal.locked /\ ~calls[i].mine)
         /\ Unlocked(i).shows = modal.shows
         /\ IF calls[i].mine /\ F.blanks # {}
            THEN Unlocked(i).writes = 0 /\ Unlocked(i).lost = 0
            ELSE /\ Unlocked(i).writes = modal.writes /\ Unlocked(i).lost = modal.lost
                 /\ modal.taken => Unlocked(i).taken
                 /\ F.unique /\ F.blanks = {} /\ calls[i].current => Unlocked(i).taken
<1> DEFINE b == Blanked(i)
           locked == b.locked /\ ~calls[i].mine
           taken == b.taken \/ (F.unique /\ F.blanks = {} /\ calls[i].current)
<1>1. /\ b \in Modals /\ b.locked = modal.locked /\ b.shows = modal.shows
      /\ IF calls[i].mine /\ F.blanks # {}
         THEN b.writes = 0 /\ b.lost = 0
         ELSE b.writes = modal.writes /\ b.lost = modal.lost /\ b.taken = modal.taken
  BY BlankedIs
<1>2. locked \in BOOLEAN /\ taken \in BOOLEAN
  BY <1>1 DEF Modals
<1>3. Unlocked(i) = [b EXCEPT !.locked = locked, !.taken = taken]
  BY DEF Unlocked
<1>4. locked = (modal.locked /\ ~calls[i].mine)
  BY <1>1
<1>5. /\ b.taken => taken
      /\ F.unique /\ F.blanks = {} /\ calls[i].current => taken
  OBVIOUS
<1> HIDE DEF b, locked, taken
<1>6. /\ Unlocked(i) \in Modals /\ Unlocked(i).locked = locked /\ Unlocked(i).taken = taken
      /\ Unlocked(i).shows = b.shows /\ Unlocked(i).writes = b.writes
      /\ Unlocked(i).lost = b.lost
  <2> DEFINE n == [b EXCEPT !.locked = locked, !.taken = taken]
  <2>1. /\ n \in Modals /\ n.locked = locked /\ n.taken = taken
        /\ n.shows = b.shows /\ n.writes = b.writes /\ n.lost = b.lost
    BY <1>1, <1>2 DEF Modals
  <2>2. QED
    BY <1>3, <2>1, Zenon
<1>7. modal.taken /\ ~(calls[i].mine /\ F.blanks # {}) => Unlocked(i).taken
  BY <1>1, <1>5, <1>6
<1>8. F.unique /\ F.blanks = {} /\ calls[i].current => Unlocked(i).taken
  BY <1>5, <1>6
<1>9. QED
  BY <1>1, <1>4, <1>6, <1>7, <1>8

\* The answer to a form that shows what was created.
LEMMA ShowsKeeps ==
  ASSUME FormInv, NEW i \in DOMAIN calls, Succeed(i), F.ends = "shows"
  PROVE  FormInv'
<1> DEFINE m == IF calls[i].mine THEN [Unlocked(i) EXCEPT !.shows = TRUE] ELSE modal
           rest == RemoveAt(calls, i)
<1>t. /\ modal \in Modals /\ modal.writes \in Nat /\ modal.lost \in Nat
      /\ modal.locked \in BOOLEAN /\ Sensible(F) /\ calls[i].mine \in BOOLEAN
  BY FormIs, ModalParts, CallTyped
<1>1. UNCHANGED form /\ modal' = m /\ calls' = rest
  BY DEF Succeed, Unlocked, Blanked
<1>2. /\ Unlocked(i) \in Modals
      /\ Unlocked(i).locked = (modal.locked /\ ~calls[i].mine)
  BY UnlockedIs
<1>3. m \in Modals /\ m.locked = (modal.locked /\ ~calls[i].mine)
  BY <1>t, <1>2 DEF Modals
<1>4. calls[i].mine =>
        m.shows /\ m.writes = Unlocked(i).writes /\ m.lost = Unlocked(i).lost
  BY <1>2 DEF Modals
<1>5. ~calls[i].mine => m = modal
  OBVIOUS
<1> HIDE DEF m
<1>6. Shape(m, rest)
  BY <1>3, RestShape
<1>7. Counted(m, rest)
  <2> SUFFICES ASSUME WritesOnce
               PROVE  /\ m.writes <= 1 + m.lost
                      /\ m.writes > m.lost =>
                           \/ \E j \in DOMAIN rest : Written(rest[j])
                           \/ (m.taken \/ m.shows) /\ \A j \in DOMAIN rest : ~rest[j].current
    BY DEF Counted
  <2>1. /\ modal.writes <= 1 + modal.lost
        /\ modal.writes > modal.lost =>
             \/ \E k \in DOMAIN calls : Written(calls[k])
             \/ (modal.taken \/ modal.shows) /\ \A k \in DOMAIN calls : ~calls[k].current
    BY DEF FormInv, Counted
  <2>2. CASE calls[i].mine
    <3>1. \A j \in DOMAIN rest : ~rest[j].current
      BY <2>2, RestIs, CurrentAlone
    <3>2. m.writes <= 1 + m.lost
      BY <1>t, <1>4, <2>1, <2>2, UnlockedIs
    <3>3. QED
      BY <1>4, <2>2, <3>1, <3>2
  <2>3. CASE ~calls[i].mine
    <3>1. ~Written(calls[i])
      BY <2>3 DEF FormInv, Shape, Written
    <3>2. (\E k \in DOMAIN calls : Written(calls[k])) =>
            \E j \in DOMAIN rest : Written(rest[j])
      BY <3>1, RestIs
    <3>3. (\A k \in DOMAIN calls : ~calls[k].current) =>
            \A j \in DOMAIN rest : ~rest[j].current
      BY RestIs
    <3>4. QED
      BY <1>5, <2>1, <2>3, <3>2, <3>3
  <2>4. QED
    BY <2>2, <2>3
<1>8. QED
  BY <1>1, <1>6, <1>7, SameForm

\* The answer to a dialog that stays mounted: it closes.
LEMMA ClosesKeeps ==
  ASSUME FormInv, NEW i \in DOMAIN calls, Succeed(i), F.ends = "closes", F.kept
  PROVE  FormInv'
<1> DEFINE m == [Unlocked(i) EXCEPT !.open = FALSE]
           rest == RemoveAt(calls, i)
           cs == [j \in DOMAIN rest |-> [rest[j] EXCEPT !.here = FALSE,
                                                        !.current = @ /\ F.blanks = {}]]
<1>t. /\ modal \in Modals /\ modal.writes \in Nat /\ modal.lost \in Nat
      /\ modal.locked \in BOOLEAN /\ Sensible(F) /\ calls[i].mine \in BOOLEAN
  BY FormIs, ModalParts, CallTyped
<1>1. UNCHANGED form /\ modal' = m /\ calls' = cs
  BY DEF Succeed, Unlocked, Blanked
<1>2. /\ Unlocked(i) \in Modals
      /\ Unlocked(i).locked = (modal.locked /\ ~calls[i].mine)
  BY UnlockedIs
<1>3. /\ m \in Modals /\ m.locked = (modal.locked /\ ~calls[i].mine)
      /\ m.taken = Unlocked(i).taken /\ m.shows = Unlocked(i).shows
      /\ m.writes = Unlocked(i).writes /\ m.lost = Unlocked(i).lost
  BY <1>2, OpenIs
<1> HIDE DEF m
<1>4. Shape(m, rest)
  BY <1>3, RestShape
<1>5. /\ \A j \in DOMAIN rest : rest[j] \in Calls
      /\ F.locks => DOMAIN rest = {}
  BY RestIs
<1> HIDE DEF rest
<1>6. /\ DOMAIN cs = DOMAIN rest /\ cs = [j \in DOMAIN rest |-> cs[j]]
      /\ \A j \in DOMAIN rest :
           /\ cs[j] \in Calls /\ cs[j].step = rest[j].step
           /\ cs[j].mine = rest[j].mine /\ ~cs[j].here
           /\ cs[j].current => rest[j].current
  BY <1>5 DEF Calls
<1> HIDE DEF cs
<1>7. \A j \in DOMAIN rest : rest[j].mine
  BY <1>4 DEF Shape
<1>8. F.guarded => DOMAIN rest = {}
  BY <1>t, <1>5 DEF Sensible
<1>9. Shape(m, cs)
  BY <1>3, <1>4, <1>6, <1>7, <1>8, MarksFall
<1>10. Counted(m, cs)
  <2> SUFFICES ASSUME WritesOnce
               PROVE  /\ m.writes <= 1 + m.lost
                      /\ m.writes > m.lost =>
                           (m.taken \/ m.shows) /\ \A j \in DOMAIN cs : ~cs[j].current
    BY DEF Counted
  <2>1. /\ modal.writes <= 1 + modal.lost
        /\ modal.writes > modal.lost =>
             \/ \E k \in DOMAIN calls : Written(calls[k])
             \/ (modal.taken \/ modal.shows) /\ \A k \in DOMAIN calls : ~calls[k].current
    BY DEF FormInv, Counted
  <2>2. \A j \in DOMAIN cs : ~cs[j].current
    BY <1>5, <1>6 DEF WritesOnce
  <2>3. calls[i].mine
    BY DEF FormInv, Shape
  <2>4. CASE F.blanks # {}
    BY <1>3, <2>2, <2>3, <2>4, UnlockedIs
  <2>5. CASE F.blanks = {}
    <3>1. F.unique
      BY <2>5 DEF WritesOnce
    <3>2. /\ m.writes = modal.writes /\ m.lost = modal.lost /\ m.shows = modal.shows
          /\ modal.taken => m.taken
          /\ calls[i].current => m.taken
      BY <1>3, <2>5, <3>1, UnlockedIs
    <3>3. (\E k \in DOMAIN calls : Written(calls[k])) => calls[i].current
      BY <2>3, CurrentAlone DEF Written
    <3>4. QED
      BY <2>1, <2>2, <3>2, <3>3
  <2>6. QED
    BY <2>4, <2>5
<1>11. QED
  BY <1>1, <1>9, <1>10, SameForm

\* The answer to a dialog that is mounted when it opens: it is gone.
LEMMA GoneKeeps ==
  ASSUME FormInv, NEW i \in DOMAIN calls, Succeed(i), F.ends # "shows",
         ~(F.ends = "closes" /\ F.kept)
  PROVE  FormInv'
<1> DEFINE rest == RemoveAt(calls, i)
           cs == [j \in DOMAIN rest |-> [rest[j] EXCEPT !.mine = FALSE, !.here = FALSE,
                                                        !.current = FALSE]]
<1>1. UNCHANGED form /\ modal' = NoModal /\ calls' = cs
  BY DEF Succeed
<1>2. ~F.kept /\ ~F.guarded
  <2>1. Sensible(F) /\ F.ends # "signsIn"
    BY FormIs DEF Succeed
  <2>2. QED
    BY <2>1 DEF Sensible, Ends
<1>3. rest \in Seq(Calls) /\ \A j \in DOMAIN rest : rest[j] \in Calls
  BY RestIs
<1>4. \A j \in DOMAIN rest : rest[j].step \in 1..Len(F.steps)
  <2>1. \A j \in DOMAIN rest : \E k \in DOMAIN calls : rest[j] = calls[k]
    BY RestIs
  <2>2. QED
    BY <2>1, CallTyped
<1> HIDE DEF rest
<1>5. /\ DOMAIN cs = DOMAIN rest /\ cs = [j \in DOMAIN rest |-> cs[j]]
      /\ \A j \in DOMAIN rest :
           /\ cs[j] \in Calls /\ cs[j].step = rest[j].step
           /\ ~cs[j].mine /\ ~cs[j].here /\ ~cs[j].current
  BY <1>3 DEF Calls
<1> HIDE DEF cs
<1>6. cs \in Seq(Calls)
  BY <1>3, <1>5, LenProperties, FamilyIs
<1>7. Shape(NoModal, cs)
  BY <1>2, <1>4, <1>5, <1>6, FormIs, ModalParts DEF Shape
<1>8. Counted(NoModal, cs)
  BY FormIs, ModalParts, FreshCounts
<1>9. QED
  BY <1>1, <1>7, <1>8, SameForm

LEMMA FormStepKeeps == FormInv /\ FormStep => FormInv'
<1> SUFFICES ASSUME FormInv, FormStep PROVE FormInv'
  OBVIOUS
<1>1. ASSUME NEW i \in DOMAIN calls, Serve(i) \/ NextRequest(i) \/ Succeed(i) \/ Fail(i)
      PROVE  FormInv'
  BY <1>1, ServeKeeps, NextRequestKeeps, ShowsKeeps, ClosesKeeps, GoneKeeps, FailKeeps
<1>2. QED
  BY <1>1, TypingKeeps, SubmitKeeps, CloseKeeps DEF FormStep

\* A form that is mounted is well formed.
LEMMA MountedIs ==
  ASSUME NEW name \in Names, NEW m \in {NoModal, Mounted(name)}
  PROVE  /\ m \in [open : BOOLEAN,
                   filled : SUBSET (Catalogue[name].asks \cup Catalogue[name].takes),
                   taken : BOOLEAN, locked : BOOLEAN, shows : BOOLEAN,
                   writes : Nat, lost : Nat]
         /\ m.writes = 0
<1>1. Catalogue[name].filled \subseteq Catalogue[name].asks \cup Catalogue[name].takes
  BY CatalogueSensible DEF Sensible
<1>2. (Catalogue[name].ends = "signsIn") \in BOOLEAN
  OBVIOUS
<1>3. CASE m = NoModal
  BY <1>3 DEF NoModal
<1>4. CASE m = Mounted(name)
  <2> DEFINE filled == Catalogue[name].filled
             open == Catalogue[name].ends = "signsIn"
  <2>1. m = [open |-> open, filled |-> filled, taken |-> FALSE, locked |-> FALSE,
             shows |-> FALSE, writes |-> 0, lost |-> 0]
    BY <1>4 DEF Mounted, NoModal
  <2>2. open \in BOOLEAN
    OBVIOUS
  <2> HIDE DEF open
  <2>3. QED
    BY <1>1, <2>1, <2>2
<1>5. QED
  BY <1>3, <1>4

LEMMA FormMounts ==
  ASSUME NEW name \in Names, form' = name, modal' \in {NoModal, Mounted(name)},
         calls' = <<>>
  PROVE  FormInv'
<1>1. modal' \in Modals' /\ modal'.writes = 0
  BY MountedIs DEF Modals, F
<1>2. calls' \in Seq(Calls) /\ DOMAIN calls' = {}
  BY EmptySeq
<1>3. modal'.lost \in Nat
  BY <1>1 DEF Modals
<1>4. QED
  BY <1>1, <1>2, <1>3 DEF FormInv, Shape, Counted

-----------------------------------------------------------------------------
(* The boards.                                                             *)

USE NoUnitAssumption

LEMMA BoardTyped ==
  ASSUME BoardInv
  PROVE  /\ board.kind \in Kinds /\ board.condition \in [Units -> Conditions]
         /\ board.listed \subseteq Units /\ board.picked \subseteq Units
         /\ board.busy \subseteq Units /\ board.dialog \in Units \cup {NoUnit}
         /\ commands \in Seq(Commands)
BY DEF BoardInv, Boards

\* A change of the board that sends nothing.
LEMMA BoardChanges ==
  ASSUME BoardInv, UNCHANGED commands, board' \in Boards,
         board'.busy = board.busy, PicksExist'
  PROVE  BoardInv'
BY DEF BoardInv, BoardAsksOnce, CardCommands

\* A command of several units.
LEMMA BulkSends ==
  ASSUME BoardInv, NEW units, units \subseteq Units, Send(units, FALSE),
         board' \in Boards, board'.busy = board.busy, PicksExist'
  PROVE  BoardInv'
<1>1. [units |-> units, card |-> FALSE] \in Commands
  BY DEF Commands
<1>2. /\ commands' \in Seq(Commands)
      /\ DOMAIN commands' = 1..(Len(commands) + 1) /\ Len(commands) \in Nat
      /\ DOMAIN commands = 1..Len(commands)
      /\ \A i \in 1..Len(commands) : commands'[i] = commands[i]
      /\ commands'[Len(commands) + 1].card = FALSE
  BY <1>1, BoardTyped, LenProperties DEF Send
<1>3. /\ CardCommands' = CardCommands
      /\ \A i \in CardCommands : commands'[i] = commands[i]
  BY <1>2 DEF CardCommands
<1>4. BoardAsksOnce'
  BY <1>3 DEF BoardInv, BoardAsksOnce
<1>5. QED
  BY <1>2, <1>4 DEF BoardInv

\* A card is locked, and its command under way.
LEMMA CardSends ==
  ASSUME BoardInv, NEW u \in Units, NEW dialog \in Units \cup {NoUnit},
         RunUnitAction(u, [board EXCEPT !.dialog = dialog])
  PROVE  BoardInv'
<1> DEFINE n == Len(commands) + 1
<1>1. [units |-> {u}, card |-> TRUE] \in Commands
  BY DEF Commands
<1>2. /\ commands' \in Seq(Commands) /\ Len(commands) \in Nat
      /\ DOMAIN commands = 1..Len(commands) /\ DOMAIN commands' = 1..n
      /\ \A i \in 1..Len(commands) : commands'[i] = commands[i]
      /\ commands'[n] = [units |-> {u}, card |-> TRUE]
  BY <1>1, BoardTyped, LenProperties DEF RunUnitAction, Send
<1>3. /\ board'.busy = board.busy \cup {u} /\ u \notin board.busy
      /\ board' \in Boards /\ board'.kind = board.kind
      /\ board'.picked = board.picked /\ board'.listed = board.listed
  BY BoardTyped DEF RunUnitAction, BoardInv, Boards
<1>4. /\ CardCommands' = CardCommands \cup {n} /\ n \notin CardCommands
      /\ \A i \in CardCommands : commands'[i] = commands[i]
  BY <1>2 DEF CardCommands
<1>5. /\ board.busy = UNION {commands[i].units : i \in CardCommands}
      /\ \A i, j \in CardCommands : i # j => commands[i].units \cap commands[j].units = {}
  BY DEF BoardInv, BoardAsksOnce
<1>6. board'.busy = UNION {commands'[i].units : i \in CardCommands'}
  BY <1>2, <1>3, <1>4, <1>5
<1>7. \A i \in CardCommands : u \notin commands[i].units
  BY <1>3, <1>5
<1>8. \A i, j \in CardCommands' : i # j => commands'[i].units \cap commands'[j].units = {}
  BY <1>2, <1>4, <1>5, <1>7
<1>9. QED
  BY <1>2, <1>3, <1>6, <1>8 DEF BoardInv, BoardAsksOnce, PicksExist

\* An answer frees the card of its command and no other.
LEMMA AnswerFrees ==
  ASSUME BoardInv, NEW i \in DOMAIN commands, Answered(i)
  PROVE  BoardInv' /\ DormPicksKept
<1> DEFINE c == commands[i]
<1>0. c \in Commands /\ c.card \in BOOLEAN /\ c.units \subseteq Units
  <2>1. c \in Commands
    BY BoardTyped, LenProperties, ElementOfSeq
  <2>2. QED
    BY <2>1 DEF Commands
<1>1. PICK left : /\ left \in {{}, board.picked, board.picked \ c.units}
                  /\ board.kind = "dorm" => left \in {board.picked, board.picked \ c.units}
                  /\ board' = [board EXCEPT !.busy = IF c.card THEN @ \ c.units ELSE @,
                                            !.picked = left]
  BY BoardTyped DEF Answered
<1>2. /\ commands' = RemoveAt(commands, i) /\ commands' \in Seq(Commands)
  BY BoardTyped, RemoveAtIs DEF Answered
<1>p. /\ left \subseteq board.picked
      /\ board.kind = "dorm" => left \in {board.picked, board.picked \ c.units}
  BY <1>1
<1>3. /\ board'.busy = IF c.card THEN board.busy \ c.units ELSE board.busy
      /\ board'.picked = left /\ left \subseteq board.picked
      /\ board'.listed = board.listed /\ board'.kind = board.kind
      /\ board' \in Boards
  <2> DEFINE busy == IF c.card THEN board.busy \ c.units ELSE board.busy
  <2>1. busy \subseteq Units /\ left \subseteq Units /\ board \in Boards
    BY <1>p, BoardTyped DEF BoardInv
  <2>2. board' = [board EXCEPT !.busy = busy, !.picked = left]
    BY <1>1
  <2> HIDE DEF busy
  <2>3. /\ board'.busy = busy /\ board'.picked = left
        /\ board'.listed = board.listed /\ board'.kind = board.kind /\ board' \in Boards
    BY <2>1, <2>2 DEF Boards
  <2>4. QED
    BY <1>p, <2>3 DEF busy
<1>4. /\ board.busy = UNION {commands[j].units : j \in CardCommands}
      /\ \A j, k \in CardCommands : j # k => commands[j].units \cap commands[k].units = {}
  BY DEF BoardInv, BoardAsksOnce
<1>5. /\ \A j \in CardCommands' : \E k \in CardCommands \ {i} : commands'[j] = commands[k]
      /\ \A k \in CardCommands \ {i} : \E j \in CardCommands' : commands'[j] = commands[k]
      /\ \A j, k \in CardCommands' : j # k =>
           \E m, n \in CardCommands : m # n /\ commands'[j] = commands[m]
                                            /\ commands'[k] = commands[n]
  <2> DEFINE r == RemoveAt(commands, i)
  <2>1. /\ \A j \in DOMAIN r : \E k \in DOMAIN commands \ {i} : r[j] = commands[k]
        /\ \A k \in DOMAIN commands \ {i} : \E j \in DOMAIN r : r[j] = commands[k]
        /\ \A j, k \in DOMAIN r : j # k =>
             \E m, n \in DOMAIN commands \ {i} :
               m # n /\ r[j] = commands[m] /\ r[k] = commands[n]
    BY BoardTyped, RemainingFrom
  <2>2. commands' = r
    BY <1>2
  <2> HIDE DEF r
  <2>3. QED
    BY <2>1, <2>2 DEF CardCommands
<1>6. UNION {commands'[j].units : j \in CardCommands'}
        = UNION {commands[k].units : k \in CardCommands \ {i}}
  BY <1>5
<1>7. UNION {commands[k].units : k \in CardCommands \ {i}}
        = IF c.card THEN board.busy \ c.units ELSE board.busy
  <2>1. CASE c.card
    <3>1. i \in CardCommands
      BY <2>1 DEF CardCommands
    <3>2. QED
      BY <1>4, <2>1, <3>1
  <2>2. CASE ~c.card
    <3>1. CardCommands \ {i} = CardCommands
      BY <2>2 DEF CardCommands
    <3>2. QED
      BY <1>4, <2>2, <3>1
  <2>3. QED
    BY <2>1, <2>2
<1>8. \A j, k \in CardCommands' : j # k => commands'[j].units \cap commands'[k].units = {}
  BY <1>4, <1>5
<1>9. PicksExist'
  BY <1>3 DEF BoardInv, PicksExist
<1>10. BoardInv'
  BY <1>2, <1>3, <1>6, <1>7, <1>8, <1>9 DEF BoardInv, BoardAsksOnce
<1>11. DormPicksKept
  <2>1. board.kind = "dorm" => board.picked \ board'.picked \subseteq c.units
    BY <1>p, <1>3
  <2>2. QED
    BY <1>2, <2>1 DEF DormPicksKept
<1>12. QED
  BY <1>10, <1>11

LEMMA GuestsListed ==
  ASSUME NEW units, units \subseteq Units
  PROVE  Guests(units) \subseteq units /\ Cleanable(units) \subseteq units
BY DEF Guests, Cleanable

\* A step of a board keeps its locks and its picks.
LEMMA BoardStepKeeps ==
  ASSUME BoardInv, BoardStep
  PROVE  BoardInv' /\ DormPicksKept
<1>t. /\ board.kind \in Kinds /\ board.condition \in [Units -> Conditions]
      /\ board.listed \subseteq Units /\ board.picked \subseteq Units
      /\ board.busy \subseteq Units /\ board.dialog \in Units \cup {NoUnit}
      /\ commands \in Seq(Commands) /\ board \in Boards
      /\ board.kind = "fixtures" => board.picked \subseteq board.listed
  BY BoardTyped DEF BoardInv, PicksExist
<1>a. ASSUME Len(commands') >= Len(commands) PROVE DormPicksKept
  BY <1>a, <1>t, LenProperties DEF DormPicksKept
<1>b. ASSUME UNCHANGED commands PROVE DormPicksKept
  BY <1>a, <1>b, <1>t, LenProperties
<1>s. ASSUME NEW units, NEW card, Send(units, card) PROVE DormPicksKept
  <2>1. Len(commands') = Len(commands) + 1 /\ Len(commands) \in Nat
    BY <1>s, <1>t, LenProperties DEF Send
  <2>2. QED
    BY <1>a, <2>1
<1>1. CASE ListOther
  <2>1. PICK listed \in SUBSET Units :
          board' = [board EXCEPT !.listed = listed,
                      !.picked = IF board.kind = "fixtures" THEN @ \cap listed ELSE @]
    BY <1>1 DEF ListOther
  <2>2. board' \in Boards /\ board'.busy = board.busy /\ PicksExist'
    BY <1>t, <2>1 DEF Boards, PicksExist
  <2>3. QED
    BY <1>1, <1>b, <2>2, BoardChanges DEF ListOther
<1>2. CASE ShowOther
  <2>1. board' \in Boards /\ board'.busy = board.busy /\ PicksExist'
    BY <1>t, <1>2 DEF ShowOther, Boards, PicksExist
  <2>2. QED
    BY <1>2, <1>b, <2>1, BoardChanges DEF ShowOther
<1>3. CASE Deselect
  <2>1. board' \in Boards /\ board'.busy = board.busy /\ PicksExist'
    BY <1>t, <1>3 DEF Deselect, Boards, PicksExist
  <2>2. QED
    BY <1>3, <1>b, <2>1, BoardChanges DEF Deselect
<1>4. CASE Toggle
  <2>1. board' \in Boards /\ board'.busy = board.busy /\ PicksExist'
    BY <1>t, <1>4 DEF Toggle, Boards, PicksExist
  <2>2. QED
    BY <1>4, <1>b, <2>1, BoardChanges DEF Toggle
<1>5. CASE ToggleAll
  <2>1. board' \in Boards /\ board'.busy = board.busy /\ PicksExist'
    BY <1>t, <1>5 DEF ToggleAll, Boards, PicksExist
  <2>2. QED
    BY <1>5, <1>b, <2>1, BoardChanges DEF ToggleAll
<1>6. CASE SelectAll
  <2>1. PICK units \in {board.listed, Guests(board.listed),
                        board.listed \ Cleanable(board.listed)} :
          board' = [board EXCEPT !.picked = units]
    BY <1>6 DEF SelectAll
  <2>2. units \subseteq Units
    BY <1>t, <2>1, GuestsListed
  <2>3. board' \in Boards /\ board'.busy = board.busy /\ PicksExist'
    BY <1>t, <1>6, <2>1, <2>2 DEF SelectAll, Boards, PicksExist
  <2>4. QED
    BY <1>6, <1>b, <2>3, BoardChanges DEF SelectAll
<1>7. CASE ClearPicks
  <2>1. board' \in Boards /\ board'.busy = board.busy /\ PicksExist'
    BY <1>t, <1>7 DEF ClearPicks, Boards, PicksExist
  <2>2. QED
    BY <1>7, <1>b, <2>1, BoardChanges DEF ClearPicks
<1>8. CASE BulkListed
  <2>1. /\ Send(board.picked \cap board.listed, FALSE) /\ board' = board
        /\ board.picked \cap board.listed \subseteq Units /\ PicksExist'
    BY <1>t, <1>8 DEF BulkListed, PicksExist
  <2>2. QED
    BY <1>s, <1>t, <2>1, BulkSends
<1>9. CASE BulkPicked
  <2>1. /\ Send(board.picked, FALSE)
        /\ board' \in Boards /\ board'.busy = board.busy /\ PicksExist'
    BY <1>t, <1>9 DEF BulkPicked, Boards, PicksExist
  <2>2. QED
    BY <1>s, <1>t, <2>1, BulkSends
<1>10. CASE DormCommand
  <2>1. PICK units \in {DormScope, Guests(DormScope), Cleanable(DormScope)} :
          Send(units, FALSE) /\ board' = board
    BY <1>10 DEF DormCommand
  <2>2. DormScope \subseteq Units
    BY <1>t DEF DormScope
  <2>3. units \subseteq Units /\ PicksExist'
    BY <1>t, <2>1, <2>2, GuestsListed DEF PicksExist
  <2>4. QED
    BY <1>s, <1>t, <2>1, <2>3, BulkSends
<1>c. ASSUME NEW u \in Units, NEW dialog \in Units \cup {NoUnit},
             RunUnitAction(u, [board EXCEPT !.dialog = dialog])
      PROVE  BoardInv' /\ DormPicksKept
  BY <1>c, <1>s, CardSends DEF RunUnitAction
<1>d. [board EXCEPT !.dialog = board.dialog] = board
  BY <1>t DEF Boards
<1>11. CASE CheckIn \/ SendToClean
  <2>1. PICK u \in Units : RunUnitAction(u, board)
    BY <1>t, <1>11, GuestsListed DEF CheckIn, SendToClean
  <2>2. RunUnitAction(u, [board EXCEPT !.dialog = board.dialog])
    BY <1>d, <2>1
  <2>3. QED
    BY <1>c, <1>t, <2>2
<1>12. CASE RequestCheckout
  <2>1. board' \in Boards /\ board'.busy = board.busy /\ PicksExist'
    BY <1>t, <1>12, GuestsListed DEF RequestCheckout, Boards, PicksExist
  <2>2. QED
    BY <1>12, <1>b, <2>1, BoardChanges DEF RequestCheckout
<1>13. CASE ConfirmCheckout
  BY <1>c, <1>13 DEF ConfirmCheckout
<1>14. CASE CancelCheckout
  <2>1. board' \in Boards /\ board'.busy = board.busy /\ PicksExist'
    BY <1>t, <1>14 DEF CancelCheckout, Boards, PicksExist
  <2>2. QED
    BY <1>14, <1>b, <2>1, BoardChanges DEF CancelCheckout
<1>15. ASSUME NEW i \in DOMAIN commands, Answered(i)
       PROVE  BoardInv' /\ DormPicksKept
  BY <1>15, AnswerFrees
<1>16. QED
  BY <1>1, <1>2, <1>3, <1>4, <1>5, <1>6, <1>7, <1>8, <1>9, <1>10, <1>11, <1>12,
     <1>13, <1>14, <1>15 DEF BoardStep

LEMMA BoardEmpty ==
  ASSUME NEW kind \in Kinds
  PROVE  /\ EmptyBoard(kind) \in Boards
         /\ EmptyBoard(kind).busy = {} /\ EmptyBoard(kind).picked = {}
BY DEF EmptyBoard, Boards, Conditions

\* A board that is mounted is well formed.
LEMMA BoardMounts ==
  ASSUME NEW kind \in Kinds, board' = EmptyBoard(kind), commands' = <<>>
  PROVE  BoardInv'
<1>1. CardCommands' = {}
  BY DEF CardCommands
<1>2. commands' \in Seq(Commands)
  BY EmptySeq
<1>3. QED
  BY <1>1, <1>2, BoardEmpty DEF BoardInv, BoardAsksOnce, PicksExist

-----------------------------------------------------------------------------
(* The desks.                                                              *)

USE NoTaskAssumption, MaxStageAssumption

LEMMA DeskTyped ==
  ASSUME DeskType
  PROVE  /\ \A t \in Tasks : stage[t] \in 0..MaxStage /\ desk.listed[t] \in 0..Gone
         /\ desk.role \in DeskRoles /\ desk.listed \in [Tasks -> 0..Gone]
         /\ desk.open \in Tasks \cup {NoTask}
         /\ desk.detail \in [task : Tasks \cup {NoTask}, stage : 0..MaxStage]
         /\ desk.photos \subseteq Tasks /\ desk.completing \in BOOLEAN
         /\ desk.pending \subseteq Tasks /\ desk.acting \in Tasks \cup {NoTask}
         /\ desk.snapshot \subseteq Tasks
         /\ Gone \in Nat /\ MaxStage \in Nat
BY DEF DeskType, Desks, Gone

\* What is shown is a task of the list.
LEMMA SummaryIs ==
  ASSUME NEW d \in Desks
  PROVE  /\ Summary(d) # <<>> <=> d.open \in Tasks /\ d.listed[d.open] # Gone
         /\ Summary(d) # <<>> => Summary(d) = <<d.open, d.listed[d.open]>>
BY DEF Summary

\* What is as far as the one list is as far as the other.
LEMMA AlikeIs ==
  ASSUME NEW d \in Desks, NEW e \in Desks, Alike(d, e)
  PROVE  /\ Summary(d) = <<>> <=> Summary(e) = <<>>
         /\ Summary(d) # <<>> =>
              /\ d.open = e.open
              /\ \A s : AsFar(s, e.listed[e.open]) => AsFar(s, d.listed[d.open])
BY SummaryIs DEF Alike, AsFar

\* What Turn makes of the new desk.
LEMMA TurnIs ==
  ASSUME DeskType, NEW d \in Desks, Turn(d)
  PROVE  /\ desk' \in Desks /\ reads' \subseteq ReadsT
         /\ desk'.role = d.role /\ desk'.listed = d.listed /\ desk'.open = d.open
         /\ desk'.photos = d.photos /\ desk'.completing = d.completing
         /\ desk'.acting = d.acting
         /\ Summary(desk') = Summary(d)
         /\ \/ Alike(d, desk) /\ desk' = d /\ reads' = reads
            \/ /\ desk'.detail = NoDetail
               /\ \A r \in reads' : r.live =>
                    Summary(d) # <<>> /\ r.task = d.open /\ ~r.served
<1>1. CASE Alike(d, desk) /\ desk' = d /\ UNCHANGED reads
  BY <1>1 DEF DeskType
<1>2. CASE ~(Alike(d, desk) /\ desk' = d /\ UNCHANGED reads)
  <2> DEFINE old == {[r EXCEPT !.live = FALSE] : r \in reads}
             new == [task |-> d.open, live |-> TRUE, served |-> FALSE, stage |-> 0]
  <2>1. /\ desk' = [d EXCEPT !.detail = NoDetail]
        /\ \/ Summary(d) = <<>> /\ reads' = old
           \/ Summary(d) # <<>> /\ reads' = old \cup {new}
    BY <1>2 DEF Turn
  <2>2. NoDetail \in [task : Tasks \cup {NoTask}, stage : 0..MaxStage]
    BY DEF NoDetail
  <2>3. /\ desk' \in Desks /\ desk'.detail = NoDetail
        /\ desk'.role = d.role /\ desk'.listed = d.listed /\ desk'.open = d.open
        /\ desk'.photos = d.photos /\ desk'.completing = d.completing
        /\ desk'.acting = d.acting
    BY <2>1, <2>2 DEF Desks
  <2>4. Summary(desk') = Summary(d)
    BY <2>3 DEF Summary
  <2>5. old \subseteq ReadsT /\ \A r \in old : ~r.live
    BY DEF DeskType, ReadsT
  <2>6. Summary(d) # <<>> => new \in ReadsT /\ new.task = d.open /\ ~new.served
    BY SummaryIs DEF ReadsT
  <2> HIDE DEF old, new
  <2>7. QED
    BY <2>1, <2>3, <2>4, <2>5, <2>6
<1>3. QED
  BY <1>1, <1>2

\* A new desk: no detail and no read of before is shown for another summary.
LEMMA TurnKeeps ==
  ASSUME DeskInv, NEW d \in Desks, d.detail = desk.detail, Turn(d),
         stage' \in [Tasks -> 0..MaxStage],
         \A t \in Tasks : d.listed[t] = Gone \/ d.listed[t] <= stage'[t]
  PROVE  ListBehind' /\ ReadsCurrent' /\ DetailCurrent'
<1>1. /\ DeskType /\ ReadsCurrent /\ DetailCurrent /\ desk \in Desks
  BY DEF DeskInv, DeskType
<1>2. /\ desk' \in Desks /\ desk'.listed = d.listed /\ desk'.open = d.open
      /\ Summary(desk') = Summary(d)
  BY <1>1, TurnIs
<1>3. ListBehind'
  BY <1>2 DEF ListBehind
<1>4. CASE Alike(d, desk) /\ desk' = d /\ reads' = reads
  <2>1. Showing' <=> Showing
    BY <1>1, <1>2, <1>4, AlikeIs DEF Showing
  <2>2. Showing => /\ d.open = desk.open
                   /\ \A s : AsFar(s, desk.listed[desk.open]) => AsFar(s, d.listed[d.open])
    BY <1>1, <1>4, AlikeIs DEF Showing
  <2>3. ReadsCurrent'
    BY <1>1, <1>4, <2>1, <2>2 DEF ReadsCurrent
  <2>4. DetailCurrent'
    BY <1>1, <1>4, <2>1, <2>2 DEF DetailCurrent, DetailIsOfOpenTask
  <2>5. QED
    BY <1>3, <2>3, <2>4
<1>5. CASE /\ desk'.detail = NoDetail
           /\ \A r \in reads' : r.live =>
                Summary(d) # <<>> /\ r.task = d.open /\ ~r.served
  BY <1>2, <1>3, <1>5 DEF ReadsCurrent, DetailCurrent, DetailIsOfOpenTask, Showing
<1>6. QED
  BY <1>1, <1>4, <1>5, TurnIs

\* A step beside the list, the open task and its detail.
LEMMA BesideDetail ==
  ASSUME DeskInv, desk' \in Desks, UNCHANGED <<stage, reads>>,
         desk'.listed = desk.listed, desk'.open = desk.open, desk'.detail = desk.detail
  PROVE  ListBehind' /\ ReadsCurrent' /\ DetailCurrent'
<1>1. Showing' <=> Showing
  BY DEF Showing, Summary
<1>2. QED
  BY <1>1 DEF DeskInv, ListBehind, ReadsCurrent, DetailCurrent, DetailIsOfOpenTask

\* A review that stays keeps its mark.
LEMMA ReviewsSame ==
  ASSUME DeskInv, UNCHANGED reviews, desk'.acting = desk.acting
  PROVE  ActingReviewed'
BY DEF DeskInv, ActingReviewed

LEMMA SendsSame ==
  ASSUME DeskInv, UNCHANGED sends, desk'.completing = desk.completing
  PROVE  SendsLocked'
BY DEF DeskInv, SendsLocked

\* Photos and submissions as before, and no task is back in the list.
LEMMA EvidenceSame ==
  ASSUME DeskInv, UNCHANGED sends, desk'.photos \subseteq desk.photos,
         desk'.photos = {} \/ desk'.open = desk.open,
         \A t \in Tasks : desk.listed[t] = Gone => desk'.listed[t] = Gone
  PROVE  EvidenceIsOfItsTask'
BY DEF DeskInv, DeskType, Desks, EvidenceIsOfItsTask

LEMMA StageTyped ==
  ASSUME DeskInv
  PROVE  /\ stage \in [Tasks -> 0..MaxStage]
         /\ \A t \in Tasks : Status(stage[t]) = "submitted" => stage[t] + 1 <= MaxStage
<1>1. \A s \in 0..MaxStage : Status(s) = "submitted" => s + 1 <= MaxStage
  BY DEF Status
<1>2. QED
  BY <1>1 DEF DeskInv, DeskType

\* Tasks only get further.
LEMMA StagesGrow ==
  ASSUME DeskInv, stage' \in [Tasks -> 0..MaxStage], \A t \in Tasks : stage[t] <= stage'[t],
         UNCHANGED <<desk, reads, reviews>>
  PROVE  ListBehind' /\ ReadsCurrent' /\ DetailCurrent' /\ ActingReviewed'
<1>1. ListBehind'
  BY DeskTyped DEF DeskInv, ListBehind, DeskType
<1>2. QED
  BY <1>1 DEF DeskInv, ReadsCurrent, DetailCurrent, DetailIsOfOpenTask, Showing, ActingReviewed

LEMMA ElsewhereKeeps == DeskInv /\ Elsewhere => DeskInv'
<1> SUFFICES ASSUME DeskInv, Elsewhere PROVE DeskInv'
  OBVIOUS
<1>1. PICK t \in Tasks : \E s \in {stage[t] + 1} \cup
                (IF Status(stage[t]) = "submitted" THEN {MaxStage} ELSE {}) :
         s <= MaxStage /\ stage' = [stage EXCEPT ![t] = s]
  BY DEF Elsewhere
<1>2. PICK s \in {stage[t] + 1, MaxStage} :
         s <= MaxStage /\ stage' = [stage EXCEPT ![t] = s]
  BY <1>1
<1>3. stage' \in [Tasks -> 0..MaxStage] /\ \A u \in Tasks : stage[u] <= stage'[u]
  BY <1>2, StageTyped
<1>4. UNCHANGED <<desk, reads, sends, reviews>>
  BY DEF Elsewhere
<1>5. DeskType'
  BY <1>3, <1>4 DEF DeskInv, DeskType
<1>6. EvidenceIsOfItsTask' /\ SendsLocked'
  BY <1>4 DEF DeskInv, EvidenceIsOfItsTask, SendsLocked
<1>7. QED
  BY <1>3, <1>4, <1>5, <1>6, StagesGrow DEF DeskInv

\* A step that turns the desk and nothing else.
LEMMA TurnOnly ==
  ASSUME DeskInv, NEW d \in Desks, d.detail = desk.detail, Turn(d),
         UNCHANGED <<stage, sends, reviews>>,
         \A t \in Tasks : d.listed[t] = Gone \/ d.listed[t] <= stage[t],
         \A t \in Tasks : desk.listed[t] = Gone => d.listed[t] = Gone,
         d.photos \subseteq desk.photos,
         \A t \in d.photos : d.listed[t] # Gone => t = d.open,
         d.completing = desk.completing, d.acting = desk.acting
  PROVE  DeskInv'
<1>1. /\ DeskType /\ stage \in [Tasks -> 0..MaxStage] /\ EvidenceIsOfItsTask
      /\ desk.listed \in [Tasks -> 0..Gone] /\ d.photos \subseteq Tasks
  BY DeskTyped DEF DeskInv, DeskType, Desks
<1>2. /\ desk' \in Desks /\ reads' \subseteq ReadsT
      /\ desk'.listed = d.listed /\ desk'.open = d.open
      /\ desk'.photos = d.photos /\ desk'.completing = d.completing
      /\ desk'.acting = d.acting
  BY <1>1, TurnIs
<1>3. DeskType'
  BY <1>1, <1>2 DEF DeskType
<1>4. ListBehind' /\ ReadsCurrent' /\ DetailCurrent'
  BY <1>1, TurnKeeps
<1>5. EvidenceIsOfItsTask'
  BY <1>1, <1>2 DEF EvidenceIsOfItsTask
<1>6. QED
  BY <1>2, <1>3, <1>4, <1>5, SendsSame, ReviewsSame DEF DeskInv

LEMMA TurningKeeps ==
  ASSUME DeskInv, ListTask \/ ListWithout \/ OpenTask \/ HandleClose
  PROVE  DeskInv'
<1>t. /\ DeskType /\ desk \in Desks /\ desk.listed \in [Tasks -> 0..Gone]
      /\ desk.open \in Tasks \cup {NoTask} /\ desk.photos \subseteq Tasks
      /\ Gone \in Nat /\ MaxStage \in Nat /\ stage \in [Tasks -> 0..MaxStage]
      /\ \A t \in Tasks : desk.listed[t] = Gone \/ desk.listed[t] <= stage[t]
      /\ \A t \in desk.photos : desk.listed[t] # Gone => t = desk.open
  BY DeskTyped DEF DeskInv, DeskType, ListBehind, EvidenceIsOfItsTask
<1>1. CASE ListTask
  <2>1. PICK t \in Tasks : desk.listed[t] # Gone /\ \E s \in 0..stage[t] :
                              Turn([desk EXCEPT !.listed[t] = s])
    BY <1>1 DEF ListTask
  <2>2. PICK s \in 0..stage[t] : Turn([desk EXCEPT !.listed[t] = s])
    BY <2>1
  <2> DEFINE d == [desk EXCEPT !.listed[t] = s]
  <2>3. s \in 0..Gone /\ s # Gone
    BY <1>t, <2>2 DEF Gone
  <2>4. /\ d \in Desks /\ d.listed = [desk.listed EXCEPT ![t] = s]
        /\ d.detail = desk.detail /\ d.open = desk.open /\ d.photos = desk.photos
        /\ d.completing = desk.completing /\ d.acting = desk.acting
    BY <1>t, <2>3 DEF Desks
  <2>5. /\ \A u \in Tasks : d.listed[u] = Gone \/ d.listed[u] <= stage[u]
        /\ \A u \in Tasks : desk.listed[u] = Gone => d.listed[u] = Gone
        /\ \A u \in desk.photos : d.listed[u] # Gone => desk.listed[u] # Gone
    BY <1>t, <2>1, <2>2, <2>3, <2>4
  <2> HIDE DEF d
  <2>6. UNCHANGED <<stage, sends, reviews>>
    BY <1>1 DEF ListTask
  <2>7. Turn(d)
    BY <2>2 DEF d
  <2>8. QED
    BY <1>t, <2>4, <2>5, <2>6, <2>7, TurnOnly
<1>2. CASE ListWithout
  <2>1. PICK t \in Tasks : Turn([desk EXCEPT !.listed[t] = Gone])
    BY <1>2 DEF ListWithout
  <2> DEFINE d == [desk EXCEPT !.listed[t] = Gone]
  <2>2. /\ d \in Desks /\ d.listed = [desk.listed EXCEPT ![t] = Gone]
        /\ d.detail = desk.detail /\ d.open = desk.open /\ d.photos = desk.photos
        /\ d.completing = desk.completing /\ d.acting = desk.acting
    BY <1>t DEF Desks
  <2>3. /\ \A u \in Tasks : d.listed[u] = Gone \/ d.listed[u] <= stage[u]
        /\ \A u \in Tasks : desk.listed[u] = Gone => d.listed[u] = Gone
        /\ \A u \in desk.photos : d.listed[u] # Gone => desk.listed[u] # Gone
    BY <1>t, <2>1, <2>2
  <2> HIDE DEF d
  <2>4. UNCHANGED <<stage, sends, reviews>>
    BY <1>2 DEF ListWithout
  <2>5. Turn(d)
    BY <2>1 DEF d
  <2>6. QED
    BY <1>t, <2>2, <2>3, <2>4, <2>5, TurnOnly
<1>3. CASE OpenTask
  <2>1. PICK t \in {u \in (IF desk.role = "reviewer" THEN desk.pending ELSE Tasks) :
                desk.listed[u] # Gone} : Turn([desk EXCEPT !.open = t])
    BY <1>3 DEF OpenTask
  <2>2. t \in Tasks
    BY <1>t, <2>1, DeskTyped
  <2> DEFINE d == [desk EXCEPT !.open = t]
  <2>3. /\ d \in Desks /\ d.listed = desk.listed
        /\ d.detail = desk.detail /\ d.photos = desk.photos
        /\ d.completing = desk.completing /\ d.acting = desk.acting
    BY <1>t, <2>2 DEF Desks
  <2>4. \A u \in desk.photos : desk.listed[u] = Gone
    BY <1>3, <1>t, SummaryIs DEF OpenTask, Showing
  <2> HIDE DEF d
  <2>5. UNCHANGED <<stage, sends, reviews>>
    BY <1>3 DEF OpenTask
  <2>6. Turn(d)
    BY <2>1 DEF d
  <2>7. QED
    BY <1>t, <2>3, <2>4, <2>5, <2>6, TurnOnly
<1>4. CASE HandleClose
  <2> DEFINE d == [ResetLocal(desk) EXCEPT !.open = NoTask]
  <2>1. /\ d \in Desks /\ d.listed = desk.listed /\ d.photos = {}
        /\ d.detail = desk.detail
        /\ d.completing = desk.completing /\ d.acting = desk.acting
    BY <1>t DEF Desks, ResetLocal
  <2>2. Turn(d) /\ UNCHANGED <<stage, sends, reviews>>
    BY <1>4 DEF HandleClose
  <2> HIDE DEF d
  <2>3. QED
    BY <1>t, <2>1, <2>2, TurnOnly
<1>5. QED
  BY <1>1, <1>2, <1>3, <1>4

\* Reads are served and taken.
LEMMA ReadingKeeps ==
  ASSUME DeskInv, ServeRead \/ TakeDetail \/ LoseRead
  PROVE  DeskInv'
<1>t. /\ DeskType /\ desk \in Desks /\ reads \subseteq ReadsT
      /\ stage \in [Tasks -> 0..MaxStage] /\ ListBehind /\ ReadsCurrent /\ DetailCurrent
  BY DEF DeskInv, DeskType
<1>1. CASE ServeRead
  <2>1. PICK r \in reads : reads' = (reads \ {r})
                  \cup {[r EXCEPT !.served = TRUE, !.stage = stage[r.task]]}
    BY <1>1 DEF ServeRead
  <2> DEFINE q == [r EXCEPT !.served = TRUE, !.stage = stage[r.task]]
  <2>2. /\ q \in ReadsT /\ q.task = r.task /\ q.live = r.live
        /\ q.stage = stage[r.task] /\ r.task \in Tasks
    BY <1>t DEF ReadsT
  <2>3. q.live => /\ Showing /\ q.task = desk.open
                  /\ AsFar(q.stage, desk.listed[desk.open])
    BY <1>t, <2>2, SummaryIs, DeskTyped DEF ReadsCurrent, ListBehind, Showing, AsFar
  <2> HIDE DEF q
  <2>4. reads' = (reads \ {r}) \cup {q}
    BY <2>1 DEF q
  <2>5. UNCHANGED <<stage, desk, sends, reviews>>
    BY <1>1 DEF ServeRead
  <2>6. DeskType' /\ ReadsCurrent'
    BY <1>t, <2>2, <2>3, <2>4, <2>5 DEF DeskType, ReadsCurrent, Showing
  <2>7. ListBehind' /\ DetailCurrent' /\ EvidenceIsOfItsTask' /\ SendsLocked' /\ ActingReviewed'
    BY <2>5 DEF DeskInv, ListBehind, DetailCurrent, DetailIsOfOpenTask, Showing,
                EvidenceIsOfItsTask, SendsLocked, ActingReviewed
  <2>8. QED
    BY <2>6, <2>7 DEF DeskInv
<1>2. CASE LoseRead
  <2>1. reads' \subseteq reads /\ UNCHANGED <<stage, desk, sends, reviews>>
    BY <1>2 DEF LoseRead
  <2>2. DeskType' /\ ReadsCurrent'
    BY <1>t, <2>1 DEF DeskType, ReadsCurrent, Showing
  <2>3. ListBehind' /\ DetailCurrent' /\ EvidenceIsOfItsTask' /\ SendsLocked' /\ ActingReviewed'
    BY <2>1 DEF DeskInv, ListBehind, DetailCurrent, DetailIsOfOpenTask, Showing,
                EvidenceIsOfItsTask, SendsLocked, ActingReviewed
  <2>4. QED
    BY <2>2, <2>3 DEF DeskInv
<1>3. CASE TakeDetail
  <2>1. PICK r \in reads :
          /\ r.served
          /\ desk' = IF r.live
                     THEN [desk EXCEPT !.detail = [task |-> r.task, stage |-> r.stage]]
                     ELSE desk
          /\ reads' = reads \ {r}
    BY <1>3 DEF TakeDetail
  <2>2. r.task \in Tasks /\ r.stage \in 0..MaxStage
    BY <1>t DEF ReadsT
  <2>3. UNCHANGED <<stage, sends, reviews>>
    BY <1>3 DEF TakeDetail
  <2>4. /\ desk' \in Desks /\ desk'.listed = desk.listed /\ desk'.open = desk.open
        /\ desk'.photos = desk.photos /\ desk'.completing = desk.completing
        /\ desk'.acting = desk.acting
    BY <1>t, <2>1, <2>2 DEF Desks
  <2>5. Showing' <=> Showing
    BY <2>4 DEF Showing, Summary
  <2>6. DeskType' /\ ReadsCurrent' /\ ListBehind'
    BY <1>t, <2>1, <2>3, <2>4, <2>5 DEF DeskType, ReadsCurrent, ListBehind
  <2>7. DetailCurrent'
    <3>1. CASE r.live
      <4>1. desk'.detail.task = r.task /\ desk'.detail.stage = r.stage
        BY <1>t, <2>1, <3>1 DEF Desks
      <4>2. QED
        BY <1>t, <2>1, <2>4, <2>5, <3>1, <4>1
           DEF DetailCurrent, DetailIsOfOpenTask, ReadsCurrent
    <3>2. CASE ~r.live
      BY <1>t, <2>1, <2>5, <3>2 DEF DetailCurrent, DetailIsOfOpenTask
    <3>3. QED
      BY <3>1, <3>2
  <2>8. EvidenceIsOfItsTask' /\ SendsLocked' /\ ActingReviewed'
    BY <2>3, <2>4, EvidenceSame, SendsSame, ReviewsSame
  <2>9. QED
    BY <2>6, <2>7, <2>8 DEF DeskInv
<1>4. QED
  BY <1>1, <1>2, <1>3

LEMMA ShowingOpen ==
  ASSUME DeskInv, Showing
  PROVE  desk.open \in Tasks /\ desk.listed[desk.open] # Gone
BY SummaryIs DEF DeskInv, DeskType, Showing

\* A submission is sent, is served, or ends.
LEMMA SendsTyped ==
  ASSUME DeskInv
  PROVE  /\ sends \in Seq(Sends) /\ Len(sends) \in Nat
         /\ DOMAIN sends = 1..Len(sends)
         /\ \A i \in DOMAIN sends :
              sends[i].task \in Tasks /\ sends[i].photos \subseteq Tasks
         /\ DOMAIN sends # {} => DOMAIN sends = {1} /\ desk.completing
<1>1. sends \in Seq(Sends) /\ Len(sends) \in Nat /\ DOMAIN sends = 1..Len(sends)
  BY LenProperties DEF DeskInv, DeskType
<1>2. \A i \in DOMAIN sends : sends[i] \in Sends
  BY <1>1, ElementOfSeq
<1>3. \A i \in DOMAIN sends : sends[i].task \in Tasks /\ sends[i].photos \subseteq Tasks
  BY <1>2 DEF Sends
<1>4. DOMAIN sends # {} => DOMAIN sends = {1} /\ desk.completing
  BY <1>1 DEF DeskInv, SendsLocked
<1>5. QED
  BY <1>1, <1>3, <1>4

LEMMA LastSend ==
  ASSUME DeskInv, NEW i \in DOMAIN sends, sends' = RemoveAt(sends, i)
  PROVE  sends' = <<>> /\ sends' \in Seq(Sends)
<1>1. sends' \in Seq(Sends) /\ Len(sends') = Len(sends) - 1
  BY SendsTyped, RemoveAtIs
<1>2. Len(sends') = 0
  BY <1>1, SendsTyped
<1>3. QED
  BY <1>1, <1>2, EmptySeq

LEMMA PhotosKeep ==
  ASSUME DeskInv, AddPhoto \/ RemovePhoto
  PROVE  DeskInv'
<1>t. /\ desk \in Desks /\ desk.photos \subseteq Tasks /\ desk.open \in Tasks
      /\ DeskType /\ EvidenceIsOfItsTask
  BY ShowingOpen, DeskTyped DEF DeskInv, DeskType, AddPhoto, RemovePhoto
<1>1. PICK photos \in SUBSET (desk.photos \cup {desk.open}) :
        desk' = [desk EXCEPT !.photos = photos]
  <2>1. CASE AddPhoto
    BY <2>1 DEF AddPhoto
  <2>2. CASE RemovePhoto
    BY <2>2 DEF RemovePhoto
  <2>3. QED
    BY <2>1, <2>2
<1>2. UNCHANGED <<stage, reads, sends, reviews>>
  BY DEF AddPhoto, RemovePhoto
<1>3. /\ desk' \in Desks /\ desk'.listed = desk.listed /\ desk'.open = desk.open
      /\ desk'.detail = desk.detail /\ desk'.completing = desk.completing
      /\ desk'.acting = desk.acting /\ desk'.photos = photos
  BY <1>t, <1>1 DEF Desks
<1>4. DeskType'
  BY <1>t, <1>2, <1>3 DEF DeskType
<1>5. EvidenceIsOfItsTask'
  BY <1>t, <1>2, <1>3 DEF EvidenceIsOfItsTask
<1>6. QED
  BY <1>2, <1>3, <1>4, <1>5, BesideDetail, SendsSame, ReviewsSame DEF DeskInv

LEMMA CompleteKeeps == DeskInv /\ HandleComplete => DeskInv'
<1> SUFFICES ASSUME DeskInv, HandleComplete PROVE DeskInv'
  OBVIOUS
<1>t. /\ desk \in Desks /\ desk.photos \subseteq Tasks /\ desk.open \in Tasks
      /\ DeskType /\ EvidenceIsOfItsTask
  BY ShowingOpen, DeskTyped DEF DeskInv, DeskType, HandleComplete
<1> DEFINE new == [task |-> desk.open, photos |-> desk.photos, served |-> FALSE]
<1>1. /\ desk' = [desk EXCEPT !.completing = TRUE] /\ sends' = Append(sends, new)
      /\ ~desk.completing /\ UNCHANGED <<stage, reads, reviews>>
  BY DEF HandleComplete
<1>2. new \in Sends /\ new.task = desk.open /\ new.photos = desk.photos
  BY <1>t DEF Sends
<1> HIDE DEF new
<1>3. sends = <<>>
  BY <1>1, SendsTyped, EmptySeq DEF DeskInv, SendsLocked
<1>4. sends' \in Seq(Sends) /\ Len(sends') = 1 /\ DOMAIN sends' = {1} /\ sends'[1] = new
  BY <1>1, <1>2, <1>3, SendsTyped
<1>5. /\ desk' \in Desks /\ desk'.listed = desk.listed /\ desk'.open = desk.open
      /\ desk'.detail = desk.detail /\ desk'.completing = TRUE
      /\ desk'.acting = desk.acting /\ desk'.photos = desk.photos
  BY <1>t, <1>1 DEF Desks
<1>6. DeskType'
  BY <1>t, <1>1, <1>4, <1>5 DEF DeskType
<1>7. EvidenceIsOfItsTask'
  BY <1>t, <1>2, <1>4, <1>5 DEF EvidenceIsOfItsTask
<1>8. SendsLocked'
  BY <1>4, <1>5 DEF SendsLocked
<1>9. QED
  BY <1>1, <1>5, <1>6, <1>7, <1>8, BesideDetail, ReviewsSame DEF DeskInv

LEMMA ServeSubmissionKeeps == DeskInv /\ ServeSubmission => DeskInv'
<1> SUFFICES ASSUME DeskInv, ServeSubmission PROVE DeskInv'
  OBVIOUS
<1>1. PICK i \in DOMAIN sends :
        /\ stage[sends[i].task] + 1 < MaxStage
        /\ stage' = [stage EXCEPT ![sends[i].task] = @ + 1]
        /\ sends' = [sends EXCEPT ![i].served = TRUE]
  BY DEF ServeSubmission
<1>2. UNCHANGED <<desk, reads, reviews>>
  BY DEF ServeSubmission
<1>3. sends[i] \in Sends /\ sends[i].task \in Tasks
  BY SendsTyped, ElementOfSeq DEF Sends
<1>4. stage' \in [Tasks -> 0..MaxStage] /\ \A t \in Tasks : stage[t] <= stage'[t]
  BY <1>1, <1>3, StageTyped
<1>5. [sends[i] EXCEPT !.served = TRUE] \in Sends
  BY <1>3 DEF Sends
<1>6. /\ sends' \in Seq(Sends) /\ Len(sends') = Len(sends)
      /\ DOMAIN sends' = DOMAIN sends
      /\ \A j \in DOMAIN sends :
           sends'[j].task = sends[j].task /\ sends'[j].photos = sends[j].photos
  <2>1. sends' = [sends EXCEPT ![i] = [sends[i] EXCEPT !.served = TRUE]]
    BY <1>1
  <2>2. sends' \in Seq(Sends) /\ Len(sends') = Len(sends) /\ DOMAIN sends' = DOMAIN sends
    BY <1>5, <2>1, SendsTyped, ExceptSeq
  <2>3. /\ [sends[i] EXCEPT !.served = TRUE].task = sends[i].task
        /\ [sends[i] EXCEPT !.served = TRUE].photos = sends[i].photos
    BY <1>3 DEF Sends
  <2>4. QED
    BY <2>1, <2>2, <2>3
<1>7. DeskType'
  BY <1>2, <1>4, <1>6 DEF DeskInv, DeskType
<1>8. EvidenceIsOfItsTask' /\ SendsLocked'
  BY <1>2, <1>6 DEF DeskInv, EvidenceIsOfItsTask, SendsLocked
<1>9. QED
  BY <1>2, <1>4, <1>7, <1>8, StagesGrow DEF DeskInv

LEMMA SubmittedKeeps == DeskInv /\ Submitted => DeskInv'
<1> SUFFICES ASSUME DeskInv, Submitted PROVE DeskInv'
  OBVIOUS
<1>1. PICK i \in DOMAIN sends :
        /\ Turn([ResetLocal(desk) EXCEPT
                  !.completing = FALSE,
                  !.listed[sends[i].task] = IF @ = Gone THEN Gone ELSE stage[sends[i].task]])
        /\ sends' = RemoveAt(sends, i)
  BY DEF Submitted
<1>2. UNCHANGED <<stage, reviews>>
  BY DEF Submitted
<1>t. /\ desk \in Desks /\ DeskType /\ stage \in [Tasks -> 0..MaxStage]
      /\ desk.listed \in [Tasks -> 0..Gone] /\ MaxStage \in Nat /\ Gone \in Nat
      /\ \A t \in Tasks : desk.listed[t] = Gone \/ desk.listed[t] <= stage[t]
      /\ sends[i].task \in Tasks
  BY SendsTyped, DeskTyped DEF DeskInv, DeskType, ListBehind
<1> DEFINE t == sends[i].task
           d == [ResetLocal(desk) EXCEPT
                   !.completing = FALSE,
                   !.listed[t] = IF @ = Gone THEN Gone ELSE stage[t]]
<1>3. stage[t] \in 0..Gone
  BY <1>t DEF Gone
<1>4. /\ d \in Desks /\ d.photos = {} /\ d.completing = FALSE
      /\ d.detail = desk.detail /\ d.acting = desk.acting
      /\ d.listed = [desk.listed EXCEPT ![t] = IF @ = Gone THEN Gone ELSE stage[t]]
  BY <1>t, <1>3 DEF Desks, ResetLocal
<1>5. \A u \in Tasks : d.listed[u] = Gone \/ d.listed[u] <= stage[u]
  BY <1>t, <1>4
<1>6. Turn(d)
  BY <1>1
<1> HIDE DEF d, t
<1>7. ListBehind' /\ ReadsCurrent' /\ DetailCurrent'
  BY <1>t, <1>2, <1>4, <1>5, <1>6, TurnKeeps
<1>8. /\ desk' \in Desks /\ reads' \subseteq ReadsT /\ desk'.photos = {}
      /\ desk'.completing = FALSE /\ desk'.acting = desk.acting
  BY <1>t, <1>4, <1>6, TurnIs
<1>9. sends' = <<>> /\ sends' \in Seq(Sends)
  BY <1>1, LastSend
<1>10. DeskType'
  BY <1>t, <1>2, <1>8, <1>9 DEF DeskType
<1>11. EvidenceIsOfItsTask' /\ SendsLocked'
  BY <1>8, <1>9 DEF EvidenceIsOfItsTask, SendsLocked
<1>12. QED
  BY <1>2, <1>7, <1>8, <1>10, <1>11, ReviewsSame DEF DeskInv

LEMMA FailureKeeps == DeskInv /\ SubmissionFails => DeskInv'
<1> SUFFICES ASSUME DeskInv, SubmissionFails PROVE DeskInv'
  OBVIOUS
<1>1. PICK i \in DOMAIN sends : sends' = RemoveAt(sends, i)
  BY DEF SubmissionFails
<1>2. /\ desk' = [desk EXCEPT !.completing = FALSE]
      /\ UNCHANGED <<stage, reads, reviews>>
  BY DEF SubmissionFails
<1>t. desk \in Desks /\ DeskType /\ EvidenceIsOfItsTask
  BY DEF DeskInv, DeskType
<1>3. /\ desk' \in Desks /\ desk'.listed = desk.listed /\ desk'.open = desk.open
      /\ desk'.detail = desk.detail /\ desk'.completing = FALSE
      /\ desk'.acting = desk.acting /\ desk'.photos = desk.photos
  BY <1>t, <1>2 DEF Desks
<1>4. sends' = <<>> /\ sends' \in Seq(Sends)
  BY <1>1, LastSend
<1>5. DeskType'
  BY <1>t, <1>2, <1>3, <1>4 DEF DeskType
<1>6. EvidenceIsOfItsTask' /\ SendsLocked'
  BY <1>t, <1>3, <1>4 DEF EvidenceIsOfItsTask, SendsLocked
<1>7. QED
  BY <1>2, <1>3, <1>5, <1>6, BesideDetail, ReviewsSame DEF DeskInv

LEMMA ReviewTyped ==
  ASSUME DeskInv, NEW i \in DOMAIN reviews
  PROVE  /\ reviews[i] \in ReviewsT /\ reviews[i].task \in Tasks
         /\ reviews[i].item \in BOOLEAN
         /\ [reviews[i] EXCEPT !.phase = "refreshing"] \in ReviewsT
         /\ [reviews[i] EXCEPT !.phase = "refreshing"].task = reviews[i].task
         /\ [reviews[i] EXCEPT !.phase = "refreshing"].item = reviews[i].item
<1>1. reviews[i] \in ReviewsT
  BY DEF DeskInv, DeskType
<1>2. QED
  BY <1>1 DEF ReviewsT

\* A review is added to those under way.
LEMMA SendReviewIs ==
  ASSUME DeskInv, NEW t \in Tasks, NEW verdict \in {"approve", "return"},
         NEW listItem \in BOOLEAN, SendReview(t, verdict, listItem)
  PROVE  /\ DOMAIN reviews' \subseteq Reviews
         /\ \A i \in DOMAIN reviews' : reviews'[i] \in ReviewsT
         /\ \A i \in DOMAIN reviews : i \in DOMAIN reviews' /\ reviews'[i] = reviews[i]
         /\ \E i \in DOMAIN reviews' : reviews'[i].task = t /\ reviews'[i].item = listItem
<1> DEFINE new == [task |-> t, verdict |-> verdict, item |-> listItem, phase |-> "sent"]
<1>1. PICK i \in Reviews \ DOMAIN reviews :
        reviews' = [j \in DOMAIN reviews \cup {i} |-> IF j = i THEN new ELSE reviews[j]]
  BY DEF SendReview
<1>2. new \in ReviewsT /\ new.task = t /\ new.item = listItem
  BY DEF ReviewsT
<1> HIDE DEF new
<1>3. DOMAIN reviews \subseteq Reviews /\ \A j \in DOMAIN reviews : reviews[j] \in ReviewsT
  BY DEF DeskInv, DeskType
<1>4. QED
  BY <1>1, <1>2, <1>3

\* The review of the open task, and the refresh of the pending check.
LEMMA ReviewOpenKeeps == DeskInv /\ ReviewOpen => DeskInv'
<1> SUFFICES ASSUME DeskInv, ReviewOpen PROVE DeskInv'
  OBVIOUS
<1>1. desk.open \in Tasks
  BY ShowingOpen DEF ReviewOpen
<1>2. PICK verdict \in {"approve", "return"} : SendReview(desk.open, verdict, FALSE)
  BY DEF ReviewOpen
<1>3. /\ DOMAIN reviews' \subseteq Reviews
      /\ \A i \in DOMAIN reviews' : reviews'[i] \in ReviewsT
      /\ \A i \in DOMAIN reviews : i \in DOMAIN reviews' /\ reviews'[i] = reviews[i]
  BY <1>1, <1>2, SendReviewIs
<1>4. UNCHANGED <<stage, desk, reads, sends>>
  BY DEF ReviewOpen
<1>5. DeskType' /\ ActingReviewed'
  BY <1>3, <1>4 DEF DeskInv, DeskType, ActingReviewed
<1>6. desk' \in Desks
  BY <1>4 DEF DeskInv, DeskType
<1>7. EvidenceIsOfItsTask' /\ SendsLocked'
  BY <1>4, EvidenceSame, SendsSame
<1>8. QED
  BY <1>4, <1>5, <1>6, <1>7, BesideDetail DEF DeskInv

LEMMA AskPendingIs ==
  ASSUME NEW d \in Desks
  PROVE  /\ AskPending(d) \in Desks
         /\ AskPending(d).role = d.role /\ AskPending(d).listed = d.listed
         /\ AskPending(d).open = d.open /\ AskPending(d).detail = d.detail
         /\ AskPending(d).photos = d.photos /\ AskPending(d).completing = d.completing
         /\ AskPending(d).acting = d.acting
BY DEF AskPending, Desks

LEMMA PendingKeeps ==
  ASSUME DeskInv, RefreshPendingCheck \/ ServePending \/ TakePending \/ ActOnItem
  PROVE  DeskInv'
<1>t. desk \in Desks /\ DeskType
  BY DEF DeskInv, DeskType
\* What these steps leave alone.
<1>b. ASSUME desk' \in Desks, UNCHANGED <<stage, reads, sends>>,
             desk'.listed = desk.listed, desk'.open = desk.open,
             desk'.detail = desk.detail, desk'.photos = desk.photos,
             desk'.completing = desk.completing,
             DOMAIN reviews' \subseteq Reviews,
             \A i \in DOMAIN reviews' : reviews'[i] \in ReviewsT,
             ActingReviewed'
      PROVE  DeskInv'
  <2>1. DeskType'
    BY <1>b, <1>t DEF DeskType
  <2>2. EvidenceIsOfItsTask' /\ SendsLocked'
    BY <1>b, EvidenceSame, SendsSame
  <2>3. QED
    BY <1>b, <2>1, <2>2, BesideDetail DEF DeskInv
<1>c. ASSUME desk' \in Desks, UNCHANGED <<stage, reads, sends, reviews>>,
             desk'.listed = desk.listed, desk'.open = desk.open,
             desk'.detail = desk.detail, desk'.photos = desk.photos,
             desk'.completing = desk.completing, desk'.acting = desk.acting
      PROVE  DeskInv'
  BY <1>b, <1>c, ReviewsSame DEF DeskInv, DeskType
<1>1. CASE RefreshPendingCheck
  BY <1>1, <1>c, <1>t, AskPendingIs DEF RefreshPendingCheck
<1>2. CASE ServePending
  <2> DEFINE snapshot == {t \in Tasks : Status(stage[t]) = "submitted"}
  <2>1. desk' = [desk EXCEPT !.asking = "served", !.snapshot = snapshot]
    BY <1>2 DEF ServePending
  <2>2. snapshot \subseteq Tasks
    OBVIOUS
  <2> HIDE DEF snapshot
  <2>3. /\ desk' \in Desks /\ desk'.listed = desk.listed /\ desk'.open = desk.open
        /\ desk'.detail = desk.detail /\ desk'.photos = desk.photos
        /\ desk'.completing = desk.completing /\ desk'.acting = desk.acting
    BY <1>t, <2>1, <2>2 DEF Desks
  <2>4. QED
    BY <1>2, <1>c, <2>3 DEF ServePending
<1>3. CASE TakePending
  <2> DEFINE waiting == {i \in DOMAIN reviews : reviews[i].phase = "refreshing"}
  <2>1. PICK shown \in {desk.pending, desk.snapshot} :
          desk' = [desk EXCEPT !.asking = "no", !.snapshot = {}, !.pending = shown,
                               !.acting = IF waiting = {} THEN @ ELSE NoTask]
    BY <1>3 DEF TakePending
  <2>2. shown \subseteq Tasks
    BY <1>t, <2>1, DeskTyped
  <2>3. reviews' = [i \in DOMAIN reviews \ waiting |-> reviews[i]]
    BY <1>3 DEF TakePending, Restrict
  <2> HIDE DEF waiting
  <2>4. /\ desk' \in Desks /\ desk'.listed = desk.listed /\ desk'.open = desk.open
        /\ desk'.detail = desk.detail /\ desk'.photos = desk.photos
        /\ desk'.completing = desk.completing
        /\ desk'.acting = IF waiting = {} THEN desk.acting ELSE NoTask
    BY <1>t, <2>1, <2>2, DeskTyped DEF Desks
  <2>5. /\ DOMAIN reviews' \subseteq Reviews
        /\ \A i \in DOMAIN reviews' : reviews'[i] \in ReviewsT
    BY <1>t, <2>3 DEF DeskType
  <2>6. ActingReviewed'
    BY <2>3, <2>4 DEF DeskInv, ActingReviewed
  <2>7. QED
    BY <1>3, <1>b, <2>4, <2>5, <2>6 DEF TakePending
<1>4. CASE ActOnItem
  <2>1. PICK t \in desk.pending \ {desk.acting} : \E verdict \in {"approve", "return"} :
          SendReview(t, verdict, TRUE) /\ desk' = [desk EXCEPT !.acting = t]
    BY <1>4 DEF ActOnItem
  <2>2. PICK verdict \in {"approve", "return"} :
          SendReview(t, verdict, TRUE) /\ desk' = [desk EXCEPT !.acting = t]
    BY <2>1
  <2>3. t \in Tasks
    BY <1>t, <2>1, DeskTyped
  <2>4. /\ desk' \in Desks /\ desk'.listed = desk.listed /\ desk'.open = desk.open
        /\ desk'.detail = desk.detail /\ desk'.photos = desk.photos
        /\ desk'.completing = desk.completing /\ desk'.acting = t
    BY <1>t, <2>2, <2>3 DEF Desks
  <2>5. /\ DOMAIN reviews' \subseteq Reviews
        /\ \A i \in DOMAIN reviews' : reviews'[i] \in ReviewsT
        /\ \E i \in DOMAIN reviews' : reviews'[i].task = t /\ reviews'[i].item
    BY <2>2, <2>3, SendReviewIs
  <2>6. ActingReviewed'
    BY <2>4, <2>5 DEF ActingReviewed
  <2>7. QED
    BY <1>4, <1>b, <2>4, <2>5, <2>6 DEF ActOnItem
<1>5. QED
  BY <1>1, <1>2, <1>3, <1>4

\* A verdict takes the task further or leaves it.
LEMMA ReviewedGrows ==
  ASSUME DeskInv, NEW i \in DOMAIN reviews
  PROVE  /\ Reviewed(reviews[i]) \in 0..MaxStage
         /\ stage[reviews[i].task] <= Reviewed(reviews[i])
<1>1. reviews[i].task \in Tasks /\ stage[reviews[i].task] \in 0..MaxStage
  BY ReviewTyped, StageTyped
<1>2. QED
  BY <1>1, StageTyped DEF Reviewed

LEMMA AnswerKeeps == DeskInv /\ ReviewAnswered => DeskInv'
<1> SUFFICES ASSUME DeskInv, ReviewAnswered PROVE DeskInv'
  OBVIOUS
<1> DEFINE Shown1(r, after, answered) ==
             IF answered /\ after # stage[r.task] /\ desk.listed[r.task] # Gone
             THEN [desk EXCEPT !.listed[r.task] = after] ELSE desk
<1>1. PICK i \in DOMAIN reviews :
        \E after \in {stage[reviews[i].task], Reviewed(reviews[i])}, answered \in BOOLEAN :
          /\ stage' = [stage EXCEPT ![reviews[i].task] = after]
          /\ reviews' = IF reviews[i].item THEN [reviews EXCEPT ![i].phase = "refreshing"]
                        ELSE Restrict(reviews, DOMAIN reviews \ {i})
          /\ Turn(IF reviews[i].item THEN AskPending(Shown1(reviews[i], after, answered))
                  ELSE Shown1(reviews[i], after, answered))
  BY DEF ReviewAnswered
<1> DEFINE r == reviews[i]
           t == reviews[i].task
<1>2. PICK after \in {stage[t], Reviewed(r)} : \E answered \in BOOLEAN :
          /\ stage' = [stage EXCEPT ![t] = after]
          /\ reviews' = IF r.item THEN [reviews EXCEPT ![i].phase = "refreshing"]
                        ELSE Restrict(reviews, DOMAIN reviews \ {i})
          /\ Turn(IF r.item THEN AskPending(Shown1(r, after, answered))
                  ELSE Shown1(r, after, answered))
  BY <1>1
<1>3. PICK answered \in BOOLEAN :
          /\ stage' = [stage EXCEPT ![t] = after]
          /\ reviews' = IF r.item THEN [reviews EXCEPT ![i].phase = "refreshing"]
                        ELSE Restrict(reviews, DOMAIN reviews \ {i})
          /\ Turn(IF r.item THEN AskPending(Shown1(r, after, answered))
                  ELSE Shown1(r, after, answered))
  BY <1>2
<1> DEFINE shown == Shown1(r, after, answered)
           d == IF r.item THEN AskPending(shown) ELSE shown
<1>t. /\ desk \in Desks /\ DeskType /\ EvidenceIsOfItsTask
      /\ stage \in [Tasks -> 0..MaxStage] /\ desk.listed \in [Tasks -> 0..Gone]
      /\ MaxStage \in Nat /\ t \in Tasks
      /\ \A u \in Tasks : desk.listed[u] = Gone \/ desk.listed[u] <= stage[u]
  BY ReviewTyped, DeskTyped DEF DeskInv, DeskType, ListBehind
<1>4. after \in 0..MaxStage /\ stage[t] <= after /\ after \in 0..Gone /\ after # Gone
  BY <1>t, ReviewedGrows DEF Gone
<1>5. stage' \in [Tasks -> 0..MaxStage] /\ \A u \in Tasks : stage[u] <= stage'[u]
  BY <1>t, <1>3, <1>4
<1>6. /\ shown \in Desks /\ shown.open = desk.open /\ shown.detail = desk.detail
      /\ shown.photos = desk.photos /\ shown.completing = desk.completing
      /\ shown.acting = desk.acting
      /\ \/ shown.listed = desk.listed
         \/ desk.listed[t] # Gone /\ shown.listed = [desk.listed EXCEPT ![t] = after]
  BY <1>t, <1>4 DEF Desks
<1>7. /\ d \in Desks /\ d.open = desk.open /\ d.detail = desk.detail
      /\ d.photos = desk.photos /\ d.completing = desk.completing /\ d.acting = desk.acting
      /\ d.listed = shown.listed
  BY <1>6, AskPendingIs
<1>8. Turn(d)
  BY <1>3
<1>9. /\ \A u \in Tasks : d.listed[u] = Gone \/ d.listed[u] <= stage'[u]
      /\ \A u \in Tasks : desk.listed[u] = Gone => d.listed[u] = Gone
  <2>1. stage'[t] = after
    BY <1>t, <1>3
  <2> HIDE DEF d, shown, Shown1
  <2>2. CASE shown.listed = desk.listed
    BY <1>t, <1>5, <1>7, <2>2, DeskTyped
  <2>3. CASE desk.listed[t] # Gone /\ shown.listed = [desk.listed EXCEPT ![t] = after]
    BY <1>t, <1>4, <1>5, <1>7, <2>1, <2>3, DeskTyped
  <2>4. QED
    BY <1>6, <2>2, <2>3
<1> HIDE DEF d, shown, Shown1
<1>10. ListBehind' /\ ReadsCurrent' /\ DetailCurrent'
  BY <1>5, <1>7, <1>8, <1>9, TurnKeeps
<1>11. /\ desk' \in Desks /\ reads' \subseteq ReadsT /\ desk'.photos = desk.photos
       /\ desk'.open = desk.open /\ desk'.listed = d.listed
       /\ desk'.completing = desk.completing /\ desk'.acting = desk.acting
  BY <1>t, <1>7, <1>8, TurnIs
<1>12. sends' = sends
  BY DEF ReviewAnswered
<1>13. CASE r.item
  <2> DEFINE q == [reviews[i] EXCEPT !.phase = "refreshing"]
  <2>1. reviews' = [reviews EXCEPT ![i] = q]
    BY <1>3, <1>13
  <2>2. q \in ReviewsT /\ q.task = reviews[i].task /\ q.item = reviews[i].item
    BY ReviewTyped
  <2> HIDE DEF q
  <2>3. /\ DOMAIN reviews' = DOMAIN reviews
        /\ \A j \in DOMAIN reviews : reviews'[j] = IF j = i THEN q ELSE reviews[j]
    BY <2>1
  <2>4. QED
    BY <1>t, <1>5, <1>9, <1>10, <1>11, <1>12, <2>2, <2>3, EvidenceSame, SendsSame
       DEF DeskInv, DeskType, ActingReviewed
<1>14. CASE ~r.item
  <2>1. reviews' = [j \in DOMAIN reviews \ {i} |-> reviews[j]]
    BY <1>3, <1>14 DEF Restrict
  <2>2. ActingReviewed'
    BY <1>11, <1>14, <2>1 DEF DeskInv, ActingReviewed
  <2>3. QED
    BY <1>t, <1>5, <1>9, <1>10, <1>11, <1>12, <2>1, <2>2, EvidenceSame, SendsSame
       DEF DeskInv, DeskType
<1>15. QED
  BY <1>13, <1>14

LEMMA DeskStepKeeps == DeskInv /\ DeskStep => DeskInv'
BY ElsewhereKeeps, TurningKeeps, ReadingKeeps, PhotosKeep, CompleteKeeps,
   ServeSubmissionKeeps, SubmittedKeeps, FailureKeeps, ReviewOpenKeeps, PendingKeeps,
   AnswerKeeps DEF DeskStep

\* A desk that is mounted is well formed.
LEMMA DeskMounts ==
  ASSUME NEW role \in DeskRoles, desk' = EmptyDesk(role),
         stage' = [t \in Tasks |-> 0], reads' = {}, sends' = <<>>, reviews' = <<>>
  PROVE  DeskInv'
<1>1. NoDetail \in [task : Tasks \cup {NoTask}, stage : 0..MaxStage]
  BY DEF NoDetail
<1>2. Gone \in Nat /\ 0 \in 0..MaxStage /\ 0 \in 0..Gone /\ Gone # 0
  BY DEF Gone
<1>3. /\ desk' \in Desks /\ desk'.open = NoTask /\ desk'.detail = NoDetail
      /\ desk'.photos = {} /\ desk'.completing = FALSE /\ desk'.acting = NoTask
      /\ \A t \in Tasks : desk'.listed[t] = 0
  BY <1>1, <1>2 DEF EmptyDesk, Desks
<1>4. sends' \in Seq(Sends) /\ Len(sends') = 0 /\ DOMAIN sends' = {}
  BY EmptySeq
<1>5. DOMAIN reviews' = {}
  OBVIOUS
<1>6. DeskType'
  BY <1>2, <1>3, <1>4, <1>5 DEF DeskType
<1>7. QED
  BY <1>2, <1>3, <1>4, <1>5, <1>6
     DEF DeskInv, ListBehind, ReadsCurrent, DetailCurrent, DetailIsOfOpenTask,
         EvidenceIsOfItsTask, SendsLocked, ActingReviewed

-----------------------------------------------------------------------------
(* The page: what is mounted, and what is not.                             *)

LEMMA FormKept == FormInv /\ UNCHANGED formVars => FormInv'
BY DEF FormInv, formVars, F, Shape, Counted, Modals, Written, WritesOnce

LEMMA BoardKept == BoardInv /\ UNCHANGED boardVars => BoardInv'
BY DEF BoardInv, boardVars, BoardAsksOnce, CardCommands, PicksExist

LEMMA DeskKept == DeskInv /\ UNCHANGED deskVars => DeskInv'
BY DEF DeskInv, deskVars, DeskType, ListBehind, ReadsCurrent, DetailCurrent, Showing,
       DetailIsOfOpenTask, EvidenceIsOfItsTask, SendsLocked, ActingReviewed

LEMMA KindsAre == "rooms" \in Kinds /\ "manager" \in DeskRoles
BY DEF Kinds, DeskRoles

LEMMA PageFormsNamed == PageForms \subseteq Names
BY DEF PageForms, PropertyForms, Names, Catalogue

LEMMA PageDesksKnown == PageDesks \subseteq DeskRoles
BY DEF PageDesks, DeskRoles

\* Nothing on the page: everything is as it is mounted.
LEMMA UnmountClears ==
  ASSUME Unmount
  PROVE  FormInv' /\ BoardInv' /\ DeskInv' /\ Blank'
<1>1. FormInv'
  <2>1. "Login" \in Names
    BY DEF Names, Catalogue
  <2>2. QED
    BY <2>1, FormMounts DEF Unmount
<1>2. BoardInv' /\ DeskInv'
  BY KindsAre, BoardMounts, DeskMounts DEF Unmount
<1>3. Blank'
  BY DEF Unmount, Blank
<1>4. QED
  BY <1>1, <1>2, <1>3

\* What is not on the page stays as it was mounted.
LEMMA BlankKept ==
  ASSUME Blank, UNCHANGED mounted,
         mounted # "form" => UNCHANGED formVars,
         mounted # "board" => UNCHANGED boardVars,
         mounted # "desk" => UNCHANGED deskVars
  PROVE  Blank'
BY DEF Blank, formVars, boardVars, deskVars

LEMMA MountKeeps ==
  ASSUME IInv, Mount
  PROVE  FormInv' /\ BoardInv' /\ DeskInv' /\ Blank'
<1>t. /\ mounted = "none" /\ FormInv /\ BoardInv /\ DeskInv
      /\ form = "Login" /\ modal = NoModal /\ calls = <<>>
      /\ board = EmptyBoard("rooms") /\ commands = <<>>
      /\ stage = [t \in Tasks |-> 0] /\ desk = EmptyDesk("manager")
      /\ reads = {} /\ sends = <<>> /\ reviews = <<>>
  BY DEF IInv, Blank, Mount
<1>1. ASSUME NEW name \in PageForms, mounted' = "form", form' = name,
             modal' = Mounted(name), UNCHANGED <<calls, boardVars, deskVars>>
      PROVE  FormInv' /\ BoardInv' /\ DeskInv' /\ Blank'
  <2>1. FormInv'
    BY <1>t, <1>1, PageFormsNamed, FormMounts
  <2>2. BoardInv' /\ DeskInv'
    BY <1>t, <1>1, BoardKept, DeskKept
  <2>3. Blank'
    BY <1>t, <1>1 DEF Blank, boardVars, deskVars
  <2>4. QED
    BY <2>1, <2>2, <2>3
<1>2. ASSUME NEW kind \in PageBoards, mounted' = "board", board' = EmptyBoard(kind),
             UNCHANGED <<formVars, commands, deskVars>>
      PROVE  FormInv' /\ BoardInv' /\ DeskInv' /\ Blank'
  <2>1. kind \in Kinds
    BY <1>2 DEF PageBoards
  <2>2. BoardInv' /\ FormInv' /\ DeskInv'
    BY <1>t, <1>2, <2>1, BoardMounts, FormKept, DeskKept
  <2>3. Blank'
    BY <1>t, <1>2 DEF Blank, formVars, deskVars
  <2>4. QED
    BY <2>2, <2>3
<1>3. ASSUME NEW role \in PageDesks, mounted' = "desk", desk' = EmptyDesk(role),
             UNCHANGED <<formVars, boardVars, stage, reads, sends, reviews>>
      PROVE  FormInv' /\ BoardInv' /\ DeskInv' /\ Blank'
  <2>1. DeskInv'
    BY <1>t, <1>3, PageDesksKnown, DeskMounts
  <2>2. FormInv' /\ BoardInv'
    BY <1>t, <1>3, FormKept, BoardKept
  <2>3. Blank'
    BY <1>t, <1>3 DEF Blank, formVars, boardVars
  <2>4. QED
    BY <2>1, <2>2, <2>3
<1>4. QED
  BY <1>1, <1>2, <1>3 DEF Mount

LEMMA ScreensInit == Init => IInv
<1> SUFFICES ASSUME Init PROVE IInv
  OBVIOUS
<1>1. RouteInv
  BY RouteInit
<1>2. FormInv
  <2>1. "Login" \in Names
    BY DEF Names, Catalogue
  <2>2. Sensible(F) /\ NoModal \in Modals
    BY <2>1, CatalogueSensible DEF Init, F, NoModal, Modals
  <2>3. calls \in Seq(Calls) /\ DOMAIN calls = {}
    BY EmptySeq DEF Init
  <2>4. QED
    BY <2>1, <2>2, <2>3 DEF Init, FormInv, Shape, Counted, NoModal
<1>3. BoardInv
  <2>1. CardCommands = {}
    BY DEF CardCommands, Init
  <2>2. commands \in Seq(Commands)
    BY EmptySeq DEF Init
  <2>3. QED
    BY <2>1, <2>2, KindsAre, BoardEmpty DEF Init, BoardInv, BoardAsksOnce, PicksExist
<1>4. DeskInv
  <2>1. NoDetail \in [task : Tasks \cup {NoTask}, stage : 0..MaxStage]
    BY MaxStageAssumption DEF NoDetail
  <2>2. Gone \in Nat /\ 0 \in 0..MaxStage /\ 0 \in 0..Gone /\ Gone # 0
    BY MaxStageAssumption DEF Gone
  <2>3. /\ desk \in Desks /\ desk.open = NoTask /\ desk.detail = NoDetail
        /\ desk.photos = {} /\ desk.completing = FALSE /\ desk.acting = NoTask
        /\ \A t \in Tasks : desk.listed[t] = 0
    BY <2>1, <2>2, KindsAre DEF Init, EmptyDesk, Desks
  <2>4. sends \in Seq(Sends) /\ Len(sends) = 0 /\ DOMAIN sends = {}
    BY EmptySeq DEF Init
  <2>5. DOMAIN reviews = {}
    BY DEF Init
  <2>6. DeskType
    BY <2>2, <2>3, <2>4, <2>5 DEF Init, DeskType
  <2>7. QED
    BY <2>2, <2>3, <2>4, <2>5, <2>6
       DEF Init, DeskInv, ListBehind, ReadsCurrent, DetailCurrent, DetailIsOfOpenTask,
           EvidenceIsOfItsTask, SendsLocked, ActingReviewed
<1>5. Blank
  BY DEF Init, Blank
<1>6. QED
  BY <1>1, <1>2, <1>3, <1>4, <1>5 DEF IInv

LEMMA ScreensStep == IInv /\ [Next]_vars => IInv'
<1> SUFFICES ASSUME IInv, [Next]_vars PROVE IInv'
  OBVIOUS
<1>r. RouteInv'
  BY RouteStep DEF IInv
<1>t. FormInv /\ BoardInv /\ DeskInv /\ Blank
  BY DEF IInv
<1>1. CASE Mount
  BY <1>r, <1>1, MountKeeps DEF IInv
<1>2. CASE Leave \/ SignIn \/ SignOut
  <2>1. Unmount
    BY <1>2 DEF Leave, SignIn, SignOut
  <2>2. QED
    BY <1>r, <2>1, UnmountClears DEF IInv
<1>3. CASE Follow \/ SyncActive \/ LoadWorkspace \/ Navigate \/ UNCHANGED vars
  <2>1. UNCHANGED <<mounted, formVars, boardVars, deskVars>>
    BY <1>3 DEF Follow, SyncActive, LoadWorkspace, Navigate, vars
  <2>2. QED
    BY <1>r, <1>t, <2>1, FormKept, BoardKept, DeskKept, BlankKept DEF IInv
<1>4. CASE FormPart
  <2>1. mounted = "form" /\ FormStep /\ UNCHANGED <<mounted, boardVars, deskVars>>
    BY <1>4 DEF FormPart
  <2>2. QED
    BY <1>r, <1>t, <2>1, FormStepKeeps, BoardKept, DeskKept, BlankKept DEF IInv
<1>5. CASE BoardPart
  <2>1. mounted = "board" /\ BoardStep /\ UNCHANGED <<mounted, formVars, deskVars>>
    BY <1>5 DEF BoardPart
  <2>2. QED
    BY <1>r, <1>t, <2>1, BoardStepKeeps, FormKept, DeskKept, BlankKept DEF IInv
<1>6. CASE DeskPart
  <2>1. mounted = "desk" /\ DeskStep /\ UNCHANGED <<mounted, formVars, boardVars>>
    BY <1>6 DEF DeskPart
  <2>2. QED
    BY <1>r, <1>t, <2>1, DeskStepKeeps, FormKept, BoardKept, BlankKept DEF IInv
<1>7. QED
  BY <1>1, <1>2, <1>3, <1>4, <1>5, <1>6 DEF Next

LEMMA ScreensInvariant == Spec => []IInv
BY ScreensInit, ScreensStep, PTL DEF Spec

-----------------------------------------------------------------------------
(* Theorems about the screens.                                             *)

\* Every path, form, board and desk stays what it is typed to be.
THEOREM TypeCorrect == Spec => []TypeOK
<1>1. IInv => TypeOK
  <2> SUFFICES ASSUME IInv PROVE TypeOK
    OBVIOUS
  <2>1. modal.filled \subseteq F.asks \cup F.takes /\ calls \in Seq(Calls)
    BY FormIs, ModalParts DEF IInv
  <2>2. QED
    BY <2>1 DEF IInv, RouteInv, ViewerInv, Blank, FormInv, BoardInv, DeskInv, DeskType, TypeOK
<1>2. QED
  BY <1>1, ScreensInvariant, PTL

\* For every form of the catalogue and any number of submissions in flight: the
\* same content is written once unless an answer was lost, and a bulk dialog is
\* never blanked or closed under the user.
THEOREM FormsAreHonest == Spec => []FormsHonest
<1>1. IInv => FormsHonest
  <2> SUFFICES ASSUME IInv PROVE FormsAskOnce /\ AnswersFindTheirForm
    BY DEF FormsHonest
  <2>1. WritesOnce => modal.writes <= 1 + modal.lost
    BY DEF IInv, FormInv, Counted
  <2>2. ASSUME F.locks PROVE Cardinality({i \in DOMAIN calls : calls[i].mine}) <= 1
    <3> DEFINE own == {i \in DOMAIN calls : calls[i].mine}
    <3>1. \A i, j \in own : i = j
      BY <2>2 DEF IInv, FormInv, Shape
    <3> HIDE DEF own
    <3>2. CASE own = {}
      BY <3>2, FS_EmptySet DEF own
    <3>3. CASE own # {}
      <4>1. PICK i \in own : own = {i}
        BY <3>1, <3>3
      <4>2. Cardinality(own) = 1
        BY <4>1, FS_Singleton
      <4>3. QED
        BY <4>2 DEF own
    <3>4. QED
      BY <3>2, <3>3
  <2>3. AnswersFindTheirForm
    BY DEF IInv, FormInv, Shape, AnswersFindTheirForm
  <2>4. QED
    BY <2>1, <2>2, <2>3 DEF FormsAskOnce
<1>2. QED
  BY <1>1, ScreensInvariant, PTL

\* For any tasks and any number of reads, submissions and reviews in flight: the
\* drawer shows its own task, no older than the list, with its own photos.
THEOREM DrawerIsHonest == Spec => []DrawerHonest
<1>1. IInv => DrawerHonest
  BY DEF IInv, DeskInv, DetailCurrent, SendsLocked, ActingReviewed, DeskAsksOnce, DrawerHonest
<1>2. QED
  BY <1>1, ScreensInvariant, PTL

\* For any units and any number of commands in flight: a card is locked exactly
\* while its command runs, and no answer takes back a pick it was not sent for.
THEOREM PicksAreHonest == Spec => PicksHonest
<1> DEFINE Honest ==
      mounted = "board" /\ mounted' = "board" =>
        BoardAsksOnce' /\ PicksExist' /\ DormPicksKept
<1>1. IInv /\ [Next]_vars => [Honest]_boardVars
  <2> SUFFICES ASSUME IInv, [Next]_vars, mounted = "board", mounted' = "board",
                      ~UNCHANGED boardVars
               PROVE  BoardAsksOnce' /\ PicksExist' /\ DormPicksKept
    OBVIOUS
  <2>1. BoardPart
    BY DEF Next, vars, Mount, Leave, Follow, SyncActive, LoadWorkspace, Navigate, SignIn,
           SignOut, Unmount, FormPart, DeskPart
  <2>2. BoardInv' /\ DormPicksKept
    BY <2>1, BoardStepKeeps DEF IInv, BoardPart
  <2>3. QED
    BY <2>2 DEF BoardInv
<1>2. QED
  BY <1>1, ScreensInvariant, PTL DEF Spec, PicksHonest

\* Whoever is signed in and wherever he goes, three redirects bring him to a page.
THEOREM RedirectsAreFew == Spec => []RedirectsEnd
<1>1. RouteInv => RedirectsEnd
  <2>1. Left(viewer, path) \in 0..3
    BY LeftBounds
  <2>2. QED
    BY <2>1 DEF RouteInv, RedirectsEnd
<1>2. QED
  BY <1>1, RouteInit, RouteStep, PTL DEF Spec

-----------------------------------------------------------------------------
(* The template wizard.                                                    *)
(* Every use of it: the saved condition resolves to the units its summary  *)
(* names, and no step is left unchecked.                                   *)

USE FormAssumptions DEF Placed

\* What every reachable location satisfies: a scope has its place, and no
\* washroom an occupancy.  One that says nothing is as it was stored.
Sound(l) ==
  /\ l \in Locations
  /\ l.scope = "zone" => l.zone # Nowhere
  /\ l.scope = "area" => l.area # Nowhere
  /\ CondResource(l) \in {"washrooms", "common_area"} => l.occupancy = "all"

Known(l) == Sound(l) /\ (Stated(l) \/ l \in FirstLocations)

WizardInv == WizardTypeOK /\ Known(loc) /\ StepsChecked

LEMMA StepNames ==
  /\ DOMAIN Steps = 1..7
  /\ Steps[1] = "basics" /\ Steps[2] = "assign" /\ Steps[3] = "location"
  /\ Steps[4] = "schedule" /\ Steps[5] = "instructions" /\ Steps[6] = "verify"
  /\ Steps[7] = "review"
BY DEF Steps

-----------------------------------------------------------------------------
(* The condition and the pickers keep a location sound.                     *)

LEMMA ResourceKnown ==
  ASSUME NEW l, Sound(l)
  PROVE  CondResource(l) \in Resources
BY DEF Sound, Locations, CondResource, IsSpecific, Resources, SpecificKinds

LEMMA ConditionSound ==
  ASSUME Sound(loc), NEW r \in Resources, NEW o \in Occupancies,
         NEW s \in {"specific", "property", CondScope(loc)}
  PROVE  Sound(Condition(r, s, o)) /\ Stated(Condition(r, s, o))
<1> DEFINE chosen == IF r = "common_area" /\ s = "specific" THEN "property" ELSE s
           l == Condition(r, s, o)
<1>1. s \in {"specific", "property", "area", "zone"}
  BY DEF Sound, Locations, CondScope, IsSpecific, SpecificKinds
<1>2. chosen \in {"specific", "property", "area", "zone"} /\ (chosen = "specific" => r # "common_area")
  BY <1>1
<1>3. chosen \notin {"specific", "property"} => loc.scope = chosen
  BY <1>1 DEF CondScope, IsSpecific
<1>4. /\ l.scope = (IF chosen = "specific" THEN SpecificScope(r) ELSE chosen)
      /\ l.target = (IF chosen = "specific" /\ r # "beds" THEN "undefined" ELSE r)
      /\ l.occupancy = OccupancyFor(r, o)
      /\ l.zone = loc.zone /\ l.area = loc.area
  BY DEF Condition, Sound, Locations
<1>5. r # "common_area" => SpecificScope(r) \in SpecificKinds
  BY DEF SpecificScope, SpecificKinds, Resources
<1>6. l \in Locations
  <2>1. l.scope \in {"property", "area", "zone"} \cup SpecificKinds
    BY <1>2, <1>4, <1>5
  <2>2. l.target \in Resources \cup {"undefined"} /\ l.occupancy \in Occupancies
    BY <1>4 DEF OccupancyFor, Occupancies
  <2> QED
    BY <2>1, <2>2 DEF Condition, Sound, Locations
<1>7. Stated(l)
  <2>1. CASE chosen = "specific"
    BY <1>2, <1>4, <1>5, <2>1 DEF Stated, IsSpecific
  <2>2. CASE chosen # "specific"
    BY <1>4, <2>2 DEF Stated
  <2> QED
    BY <2>1, <2>2
<1>8. CondResource(l) \in {"washrooms", "common_area"} => l.occupancy = "all"
  <2>1. CASE chosen = "specific"
    BY <1>2, <1>4, <2>1 DEF CondResource, OccupancyFor, SpecificScope, Resources
  <2>2. CASE chosen # "specific"
    BY <1>2, <1>4, <2>2 DEF CondResource, OccupancyFor, Resources
  <2> QED
    BY <2>1, <2>2
<1>9. (l.scope = "zone" => l.zone # Nowhere) /\ (l.scope = "area" => l.area # Nowhere)
  BY <1>2, <1>3, <1>4, <1>5 DEF Sound, SpecificKinds
<1> QED
  BY <1>6, <1>7, <1>8, <1>9 DEF Sound

LEMMA PlacedIs ==
  ASSUME loc \in Locations, NEW scope \in {"property", "area", "zone"}, NEW r \in Resources,
         NEW a \in Areas \cup {Nowhere}, NEW z \in Zones \cup {Nowhere}, NEW o \in Occupancies
  PROVE  [loc EXCEPT !.scope = scope, !.target = r, !.area = a, !.zone = z, !.occupancy = o]
           \in Locations
BY DEF Locations

LEMMA ScopePickSound ==
  ASSUME Sound(loc), ~IsSpecific(loc),
         NEW a \in Areas \cup {Nowhere}, NEW z \in Zones \cup {Nowhere}
  PROVE  Sound(ScopePick(a, z)) /\ Stated(ScopePick(a, z))
<1> DEFINE foreign == a # Nowhere /\ z # Nowhere /\ AreaOf[z] \notin {Nowhere, a}
           kept == IF foreign THEN Nowhere ELSE z
           l == ScopePick(a, z)
<1>1. CondResource(loc) \in Resources
  BY ResourceKnown
<1>2. /\ l.scope = (IF kept # Nowhere THEN "zone" ELSE IF a # Nowhere THEN "area" ELSE "property")
      /\ l.target = CondResource(loc) /\ l.area = a /\ l.zone = kept
      /\ l.occupancy = OccupancyFor(CondResource(loc), loc.occupancy)
  BY DEF ScopePick, Sound, Locations
<1>3. kept \in Zones \cup {Nowhere} /\ l.occupancy \in Occupancies
  BY <1>2 DEF OccupancyFor, Occupancies, Sound, Locations
<1>4. l \in Locations
  <2> DEFINE scope == l.scope
             r == CondResource(loc)
             o == OccupancyFor(CondResource(loc), loc.occupancy)
  <2>1. /\ scope \in {"property", "area", "zone"} /\ r \in Resources /\ o \in Occupancies
        /\ scope = (IF kept # Nowhere THEN "zone" ELSE IF a # Nowhere THEN "area" ELSE "property")
    BY <1>1, <1>2, <1>3
  <2>2. l = [loc EXCEPT !.scope = scope, !.target = r, !.area = a, !.zone = kept, !.occupancy = o]
    BY <2>1 DEF ScopePick
  <2> HIDE DEF scope, r, o, kept, l
  <2>3. QED
    BY <1>3, <2>1, <2>2, PlacedIs DEF Sound
<1>5. CondResource(l) = CondResource(loc) /\ Stated(l)
  <2> DEFINE r == CondResource(loc)
  <2>1. r \in Resources /\ l.target = r /\ l.scope \in {"zone", "area", "property"}
    BY <1>1, <1>2
  <2> HIDE DEF r, l
  <2>2. CondResource(l) = r /\ Stated(l)
    BY <2>1 DEF CondResource, Stated, Resources
  <2> QED
    BY <2>2 DEF r
<1> QED
  BY <1>2, <1>4, <1>5 DEF Sound, OccupancyFor

LEMMA PicksSound ==
  ASSUME Sound(loc), IsSpecific(loc)
  PROVE  /\ \A rs \in SUBSET Rooms : LET l == [loc EXCEPT !.rooms = rs] IN Sound(l) /\ Stated(l)
         /\ \A ds \in SUBSET Dorms : LET l == [loc EXCEPT !.dorms = ds] IN Sound(l) /\ Stated(l)
         /\ \A bs \in SUBSET Beds : LET l == [loc EXCEPT !.beds = bs] IN Sound(l) /\ Stated(l)
         /\ \A ws \in SUBSET Washrooms :
              LET l == [loc EXCEPT !.washrooms = ws] IN Sound(l) /\ Stated(l)
BY DEF Sound, Stated, Locations, CondResource, IsSpecific

\* A sound location has its place already.
LEMMA SoundIsNormal ==
  ASSUME NEW l, Sound(l)
  PROVE  Normalized(l) = l
<1>1. /\ ~(l.scope = "zone" /\ l.zone = Nowhere) /\ ~(l.scope = "area" /\ l.area = Nowhere)
  BY DEF Sound
<1>2. Normalized(l) = [l EXCEPT !.scope = l.scope]
  BY <1>1 DEF Normalized
<1> QED
  BY <1>2 DEF Sound, Locations

LEMMA FirstSound ==
  ASSUME NEW l \in FirstLocations
  PROVE  Sound(l)
<1>1. CASE l = Normalized(NewLocation)
  <2>1. NewLocation \in Locations /\ Normalized(NewLocation) = NewLocation
    BY DEF Locations, Normalized, NewLocation, Resources, Occupancies
  <2> QED
    BY <1>1, <2>1 DEF Sound, NewLocation, CondResource, IsSpecific, SpecificKinds
<1>2. ASSUME NEW bs \in SUBSET Beds, l = Normalized(PickedBeds(bs))
      PROVE  Sound(l)
  <2> DEFINE k == PickedBeds(bs)
  <2>1. /\ k.scope = "beds" /\ k.target = "undefined" /\ k.occupancy = "all"
        /\ k.zone = Nowhere /\ k.area = Nowhere
    BY DEF PickedBeds, NewLocation
  <2>2. k \in Locations
    BY DEF PickedBeds, NewLocation, Locations, SpecificKinds, Occupancies
  <2>3. Sound(k)
    BY <2>1, <2>2 DEF Sound, CondResource, IsSpecific, SpecificKinds
  <2> QED
    BY <1>2, <2>3, SoundIsNormal
<1>3. ASSUME NEW k \in Unnamed, l = Normalized(k)
      PROVE  Sound(l)
  <2>1. /\ k \in Locations /\ k.scope \in {"property", "area", "zone"}
        /\ k.target \in {"undefined", "units"}
    BY DEF Unnamed
  <2>2. /\ l.scope \in {"property", "area", "zone"}
        /\ l.scope = "zone" => k.zone # Nowhere
        /\ l.scope = "area" => k.area # Nowhere
    BY <1>3, <2>1 DEF Normalized, Locations
  <2>3. l = [k EXCEPT !.scope = l.scope]
    BY <1>3, <2>1 DEF Normalized, Locations
  <2>4. l \in Locations /\ l.target = k.target /\ l.zone = k.zone /\ l.area = k.area
    BY <2>1, <2>2, <2>3 DEF Locations
  <2>5. CondResource(l) = "rooms"
    BY <2>1, <2>2, <2>4 DEF CondResource
  <2> QED
    BY <2>2, <2>4, <2>5 DEF Sound
<1> QED
  BY <1>1, <1>2, <1>3 DEF FirstLocations

\* What is stored of it, too.
LEMMA SentKnown ==
  ASSUME Known(loc)
  PROVE  Known(Sent(loc))
<1>1. CASE operations
  <2> DEFINE l == [NewLocation EXCEPT !.target = "undefined"]
  <2>1. l \in Unnamed /\ Normalized(l) = l
    BY DEF Unnamed, Locations, NewLocation, Normalized, Occupancies
  <2>2. l \in FirstLocations
    BY <2>1 DEF FirstLocations
  <2> QED
    BY <1>1, <2>2, FirstSound DEF Known, Sent
<1>2. CASE ~operations
  BY <1>2, SoundIsNormal DEF Known, Sent
<1> QED
  BY <1>1, <1>2

-----------------------------------------------------------------------------
(* What the server resolves is what the summary says.                       *)

LEMMA KeepsWhatItSays ==
  ASSUME NEW l, Sound(l), NEW occupied \in SUBSET (Rooms \cup Beds),
         NEW u \in Rooms \cup Dorms \cup Beds
  PROVE  Keeps(l, u, occupied) <=> Says(l, u, occupied)
<1>1. l.occupancy \in {"all", "occupied", "unoccupied"}
  BY DEF Sound, Locations, Occupancies
<1>2. CASE u \in Dorms
  <2>1. (\E b \in occupied \cap Beds : DormOf[b] = u)
          <=> ({u} \cup {b \in Beds : DormOf[b] = u}) \cap occupied # {}
    BY <1>2
  <2> QED
    BY <1>1, <1>2, <2>1 DEF Keeps, Says
<1>3. CASE u \notin Dorms
  <2>1. (u \in occupied) <=> ({u} \cup {}) \cap occupied # {}
    OBVIOUS
  <2> QED
    BY <1>1, <1>3, <2>1 DEF Keeps, Says
<1> QED
  BY <1>2, <1>3

LEMMA SaysAll ==
  ASSUME NEW l, l.occupancy = "all", NEW u, NEW occupied
  PROVE  Says(l, u, occupied)
BY DEF Says

LEMMA CoversWhatItSays ==
  ASSUME NEW l, Sound(l), ~IsSpecific(l)
  PROVE  /\ \A u \in Placed : Covers(l, u) <=> Where(l, u)
         /\ \A b \in Beds : Covers(l, DormOf[b]) <=> Where(l, b)
<1>1. l.scope \in {"property", "area", "zone"} /\ CondScope(l) = l.scope
  BY DEF Sound, Locations, IsSpecific, CondScope
<1>2. ASSUME NEW u \in Placed
      PROVE  Covers(l, u) <=> Where(l, u)
  <2>1. u \notin Beds /\ u \notin Zones
    OBVIOUS
  <2> QED
    BY <1>1, <2>1 DEF Covers, Where, InZone, InArea, Sound
<1>3. ASSUME NEW b \in Beds
      PROVE  Covers(l, DormOf[b]) <=> Where(l, b)
  <2>1. b \notin Zones /\ DormOf[b] \in Placed
    OBVIOUS
  <2> QED
    BY <1>1, <2>1 DEF Covers, Where, InZone, InArea, Sound
<1> QED
  BY <1>2, <1>3

LEMMA ZonesSaid ==
  ASSUME NEW l, Sound(l), ~IsSpecific(l)
  PROVE  ZonesCovered(l) = {z \in Zones : Where(l, z)}
<1>1. l.scope \in {"property", "area", "zone"} /\ CondScope(l) = l.scope
  BY DEF Sound, Locations, IsSpecific, CondScope
<1>2. CASE l.scope = "zone"
  <2>1. l.zone \in Zones
    BY <1>2 DEF Sound, Locations
  <2> QED
    BY <1>1, <1>2, <2>1 DEF ZonesCovered, Where
<1>3. CASE l.scope = "area"
  <2>1. l.area # Nowhere
    BY <1>3 DEF Sound
  <2> QED
    BY <1>1, <1>3, <2>1 DEF ZonesCovered, Where
<1>4. CASE l.scope = "property"
  BY <1>1, <1>4 DEF ZonesCovered, Where
<1> QED
  BY <1>1, <1>2, <1>3, <1>4

LEMMA ExpandedIsMeant ==
  ASSUME NEW l, Sound(l), ~IsSpecific(l), l.target \in Resources, l.target # "common_area",
         NEW occupied \in SUBSET (Rooms \cup Beds)
  PROVE  Expanded(l, occupied) = Meant(l, occupied)
<1>1. CondResource(l) = l.target /\ Target(l) = l.target
  BY DEF Sound, Locations, CondResource, IsSpecific, SpecificKinds, Target, Resources
<1>2. CASE l.target = "washrooms"
  <2>1. Meant(l, occupied) = {w \in Washrooms : Where(l, w)}
    BY <1>1, <1>2, SaysAll DEF Meant, UnitsOf, Sound
  <2>2. Expanded(l, occupied) = {w \in Washrooms : Covers(l, w)}
    BY <1>1, <1>2 DEF Expanded
  <2> QED
    BY <2>1, <2>2, CoversWhatItSays
<1>3. \A u \in Rooms \cup Dorms : Covers(l, u) /\ Keeps(l, u, occupied)
                                <=> Where(l, u) /\ Says(l, u, occupied)
  BY KeepsWhatItSays, CoversWhatItSays
<1>4. \A b \in Beds : Covers(l, DormOf[b]) /\ Keeps(l, b, occupied)
                    <=> Where(l, b) /\ Says(l, b, occupied)
  BY KeepsWhatItSays, CoversWhatItSays
<1>5. Meant(l, occupied) = {u \in UnitsOf(l.target) : Where(l, u) /\ Says(l, u, occupied)}
  BY <1>1 DEF Meant
<1>6. CASE l.target = "rooms"
  BY <1>1, <1>3, <1>5, <1>6 DEF Expanded, UnitsOf
<1>7. CASE l.target = "dorms"
  BY <1>1, <1>3, <1>5, <1>7 DEF Expanded, UnitsOf
<1>8. CASE l.target = "beds"
  BY <1>1, <1>4, <1>5, <1>8 DEF Expanded, UnitsOf
<1>9. CASE l.target = "rooms_beds"
  BY <1>1, <1>3, <1>4, <1>5, <1>9 DEF Expanded, UnitsOf
<1> QED
  BY <1>2, <1>6, <1>7, <1>8, <1>9 DEF Resources

\* Work at large is only for a place the summary names.
LEMMA LargeIsNamed ==
  ASSUME NEW l, Sound(l), ~IsSpecific(l),
         l.scope \in {"zone", "area"} \/ l.target = "common_area",
         l.target = "common_area" => ZonesCovered(l) = {}
  PROVE  AtLarge(l) \subseteq Places(l)
<1>1. l.scope \in {"property", "area", "zone"}
  BY DEF Sound, Locations, IsSpecific
<1>2. CASE l.scope = "zone"
  BY <1>2 DEF AtLarge, OrElse, ZonesCovered, Places
<1>3. CASE l.scope = "area"
  BY <1>3 DEF AtLarge, OrElse, Places
<1>4. CASE l.scope = "property"
  BY <1>4 DEF AtLarge, OrElse, Places
<1> QED
  BY <1>1, <1>2, <1>3, <1>4

LEMMA UnspecificMeans ==
  ASSUME NEW l, Sound(l), ~IsSpecific(l), Stated(l), NEW occupied \in SUBSET (Rooms \cup Beds)
  PROVE  \/ Resolved(l, occupied) = Meant(l, occupied)
         \/ Meant(l, occupied) = {} /\ Resolved(l, occupied) \subseteq Places(l)
<1>1. /\ l.target \in Resources /\ CondResource(l) = l.target /\ Target(l) # "undefined"
      /\ l.scope \in {"property", "area", "zone"}
  BY DEF Stated, Sound, Locations, CondResource, IsSpecific, SpecificKinds, Target, Resources
<1>2. CASE l.target = "common_area"
  <2>1. Meant(l, occupied) = {z \in Zones : Where(l, z)}
    BY <1>1, <1>2, SaysAll DEF Meant, UnitsOf, Sound
  <2>2. Meant(l, occupied) = ZonesCovered(l)
    BY <2>1, ZonesSaid
  <2>3. Resolved(l, occupied) = AtLarge(l)
    BY <1>2 DEF Resolved
  <2>4. CASE ZonesCovered(l) = {}
    BY <1>2, <2>2, <2>3, <2>4, LargeIsNamed
  <2>5. CASE ZonesCovered(l) # {}
    BY <2>2, <2>3, <2>5 DEF AtLarge, OrElse
  <2> QED
    BY <2>4, <2>5
<1>3. CASE l.target # "common_area"
  <2>1. Expanded(l, occupied) = Meant(l, occupied)
    BY <1>1, <1>3, ExpandedIsMeant
  <2>2. CASE l.scope = "property"
    BY <1>1, <1>3, <2>1, <2>2 DEF Resolved
  <2>3. CASE l.scope \in {"zone", "area"}
    <3>1. Resolved(l, occupied) = OrElse(Expanded(l, occupied), AtLarge(l))
      BY <1>3, <2>3 DEF Resolved
    <3>2. AtLarge(l) \subseteq Places(l)
      BY <1>3, <2>3, LargeIsNamed
    <3> QED
      BY <2>1, <3>1, <3>2 DEF OrElse
  <2> QED
    BY <1>1, <2>2, <2>3
<1> QED
  BY <1>2, <1>3

LEMMA SpecificMeans ==
  ASSUME NEW l, Sound(l), IsSpecific(l), NEW occupied \in SUBSET (Rooms \cup Beds)
  PROVE  Resolved(l, occupied) = Meant(l, occupied)
<1>1. Resolved(l, occupied) = ExplicitUnits(l, occupied) /\ CondScope(l) = "specific"
  BY DEF Resolved, CondScope, IsSpecific, SpecificKinds
<1>2. /\ l.rooms \subseteq Rooms /\ l.dorms \subseteq Dorms
      /\ l.beds \subseteq Beds /\ l.washrooms \subseteq Washrooms
  BY DEF Sound, Locations
<1>3. \A u \in Rooms \cup Dorms \cup Beds : Keeps(l, u, occupied) <=> Says(l, u, occupied)
  BY KeepsWhatItSays
<1>4. \A u \in Placed : Where(l, u) <=> u \in Picks(l)
  BY <1>1 DEF Where
<1>5. \A b \in Beds : Where(l, b) <=> b \in Picks(l) \/ DormOf[b] \in Picks(l)
  BY <1>1 DEF Where
<1>6. CASE l.scope = "rooms"
  <2>1. Picks(l) = l.rooms /\ CondResource(l) = "rooms"
    BY <1>6 DEF Picks, CondResource
  <2> QED
    BY <1>1, <1>2, <1>3, <1>4, <1>6, <2>1 DEF ExplicitUnits, Meant, UnitsOf
<1>7. CASE l.scope = "dorms" /\ l.target # "beds"
  <2>1. Picks(l) = l.dorms /\ CondResource(l) = "dorms"
    BY <1>7 DEF Picks, CondResource
  <2> QED
    BY <1>1, <1>2, <1>3, <1>4, <1>7, <2>1 DEF ExplicitUnits, Meant, UnitsOf
<1>8. CASE l.scope = "dorms" /\ l.target = "beds"
  <2>1. Picks(l) = l.dorms /\ CondResource(l) = "beds"
    BY <1>8 DEF Picks, CondResource
  <2>2. \A b \in Beds : Where(l, b) <=> DormOf[b] \in l.dorms
    BY <1>2, <1>5, <2>1
  <2> QED
    BY <1>1, <1>3, <1>8, <2>1, <2>2 DEF ExplicitUnits, Meant, UnitsOf
<1>9. CASE l.scope = "beds"
  <2>1. Picks(l) = l.beds /\ CondResource(l) = "beds"
    BY <1>9 DEF Picks, CondResource
  <2>2. \A b \in Beds : Where(l, b) <=> b \in l.beds
    BY <1>2, <1>5, <2>1
  <2> QED
    BY <1>1, <1>2, <1>3, <1>9, <2>1, <2>2 DEF ExplicitUnits, Meant, UnitsOf
<1>10. CASE l.scope = "units"
  <2>1. Picks(l) = l.rooms \cup l.beds /\ CondResource(l) = "rooms_beds"
    BY <1>10 DEF Picks, CondResource
  <2>2. \A b \in Beds : Where(l, b) <=> b \in Picks(l)
    BY <1>2, <1>5, <2>1
  <2> QED
    BY <1>1, <1>2, <1>3, <1>4, <1>10, <2>1, <2>2 DEF ExplicitUnits, Meant, UnitsOf
<1>11. CASE l.scope = "washrooms"
  <2>1. Picks(l) = l.washrooms /\ CondResource(l) = "washrooms"
    BY <1>11 DEF Picks, CondResource
  <2>2. \A w \in Washrooms : Says(l, w, occupied)
    BY <2>1, SaysAll DEF Sound
  <2> QED
    BY <1>1, <1>2, <1>4, <1>11, <2>1, <2>2 DEF ExplicitUnits, Meant, UnitsOf
<1> QED
  BY <1>6, <1>7, <1>8, <1>9, <1>10, <1>11 DEF IsSpecific, SpecificKinds

LEMMA Means ==
  ASSUME Known(loc)
  PROVE  MeansWhatItSays
<1>1. ASSUME NEW occupied \in SUBSET (Rooms \cup Beds), operations
      PROVE  Resolved(Sent(loc), occupied) = {Nowhere}
  <2> DEFINE l == [NewLocation EXCEPT !.target = "undefined"]
  <2>1. Sent(loc) = l
    BY <1>1 DEF Sent
  <2>2. l.scope = "property" /\ l.target = "undefined" /\ l.occupancy = "all"
    BY DEF NewLocation
  <2> QED
    BY <2>1, <2>2 DEF Resolved, Target, IsSpecific, SpecificKinds
<1>2. ASSUME NEW occupied \in SUBSET (Rooms \cup Beds), ~operations, Stated(loc)
      PROVE  \/ Resolved(Sent(loc), occupied) = Meant(loc, occupied)
             \/ Meant(loc, occupied) = {} /\ Resolved(Sent(loc), occupied) \subseteq Places(loc)
  <2>1. Sent(loc) = loc
    BY <1>2, SoundIsNormal DEF Sent, Known
  <2> QED
    BY <1>2, <2>1, SpecificMeans, UnspecificMeans DEF Known
<1> QED
  BY <1>1, <1>2 DEF MeansWhatItSays, Known

-----------------------------------------------------------------------------
(* The steps.                                                               *)

LEMMA InitInv == WizardInit => WizardInv
<1> SUFFICES ASSUME WizardInit PROVE WizardInv
  OBVIOUS
<1>1. Sound(loc)
  BY FirstSound DEF WizardInit
<1>2. step = 1 /\ StepsChecked
  BY DEF WizardInit, StepsChecked
<1>3. PICK k \in ScheduleKinds, f \in Frequencies :
        sched = [kind |-> k, frequency |-> f, given |-> Needs([kind |-> k, frequency |-> f])]
  BY DEF WizardInit, FirstSchedules
<1>4. sched \in [kind : ScheduleKinds, frequency : Frequencies, given : SUBSET {"date", "weekdays", "day"}]
  <2>1. Needs([kind |-> k, frequency |-> f]) \in SUBSET {"date", "weekdays", "day"}
    BY DEF Needs
  <2> QED
    BY <1>3, <2>1
<1>5. WizardTypeOK
  <2>1. step \in DOMAIN Steps
    BY <1>2, StepNames
  <2>2. loc \in Locations
    BY <1>1 DEF Sound
  <2>3. mode \in Modes /\ picked \subseteq Modes
    BY DEF WizardInit
  <2>4. operations \in BOOLEAN /\ named \in BOOLEAN
    BY Zenon DEF WizardInit
  <2>5. submitting \in BOOLEAN
    BY Zenon DEF WizardInit
  <2> QED
    BY <1>4, <2>1, <2>2, <2>3, <2>4, <2>5 DEF WizardTypeOK
<1> QED
  BY <1>1, <1>2, <1>5 DEF WizardInv, WizardInit, Known

\* What is checked of the steps before one does not hang on its own fields.
LEMMA EarlierSteps ==
  ASSUME WizardInv, step' = step,
         \A i \in 1..(step - 1) : Complete(Steps[i])' <=> Complete(Steps[i])
  PROVE  StepsChecked'
BY DEF WizardInv, StepsChecked, Steps

\* Being known is a matter of the location only.
LEMMA KnownAgain ==
  ASSUME loc' = loc, Known(loc)
  PROVE  Known(loc)'
BY DEF Known, Sound, Stated, IsSpecific, CondResource

LEMMA PlaceInv ==
  ASSUME WizardInv, NEW l, Sound(l), Stated(l), Place(l)
  PROVE  WizardInv'
<1>1. step = 3 /\ step' = 3
  BY StepNames DEF WizardInv, WizardTypeOK, Place, On
<1>2. \A i \in 1..2 : Complete(Steps[i])' <=> Complete(Steps[i])
  <2>1. Complete(Steps[1])' <=> Complete(Steps[1])
    BY StepNames DEF Place, Complete, Steps
  <2>2. Complete(Steps[2])' <=> Complete(Steps[2])
    BY StepNames DEF Place, Complete, Steps
  <2> QED
    BY <2>1, <2>2
<1>3. StepsChecked'
  BY <1>1, <1>2, EarlierSteps
<1>4. WizardTypeOK' /\ loc' = l
  BY DEF WizardInv, WizardTypeOK, Place, Sound
<1>5. Known(loc)'
  BY <1>4 DEF Known, Sound, Stated, IsSpecific, CondResource
<1> QED
  BY <1>3, <1>4, <1>5 DEF WizardInv

LEMMA LocationStepInv ==
  ASSUME WizardInv,
         \/ \E r \in Resources : PickResource(r)
         \/ \E o \in Occupancies : PickOccupancy(o)
         \/ \E a \in Areas \cup {Nowhere} : PickArea(a)
         \/ \E z \in Zones \cup {Nowhere} : PickZone(z)
         \/ PickSpecific \/ PickRooms
         \/ \E d \in Dorms : PickDorm(d)
         \/ \E w \in Washrooms : PickWashroom(w)
         \/ \E b \in Beds : PickBed(b)
  PROVE  WizardInv'
<1>1. Sound(loc)
  BY DEF WizardInv, Known
<1>2. /\ CondResource(loc) \in Resources /\ loc.occupancy \in Occupancies
      /\ loc.area \in Areas \cup {Nowhere} /\ loc.zone \in Zones \cup {Nowhere}
      /\ loc.rooms \in SUBSET Rooms /\ loc.dorms \in SUBSET Dorms
      /\ loc.beds \in SUBSET Beds /\ loc.washrooms \in SUBSET Washrooms
  BY <1>1, ResourceKnown DEF Sound, Locations
<1>3. ASSUME NEW r \in Resources, PickResource(r) PROVE WizardInv'
  BY <1>1, <1>2, <1>3, ConditionSound, PlaceInv DEF PickResource
<1>4. ASSUME NEW o \in Occupancies, PickOccupancy(o) PROVE WizardInv'
  BY <1>1, <1>2, <1>4, ConditionSound, PlaceInv DEF PickOccupancy
<1>5. ASSUME NEW a \in Areas \cup {Nowhere}, PickArea(a) PROVE WizardInv'
  BY <1>1, <1>2, <1>5, ScopePickSound, PlaceInv DEF PickArea
<1>6. ASSUME NEW z \in Zones \cup {Nowhere}, PickZone(z) PROVE WizardInv'
  BY <1>1, <1>2, <1>6, ScopePickSound, PlaceInv DEF PickZone
<1>7. ASSUME PickSpecific PROVE WizardInv'
  BY <1>1, <1>2, <1>7, ConditionSound, PlaceInv DEF PickSpecific
<1>8. ASSUME PickRooms PROVE WizardInv'
  <2>1. PICK rs \in {Toggled(loc.rooms, r) : r \in ZoneRooms} \cup {ZoneRooms, {}} :
          Place([loc EXCEPT !.rooms = rs])
    BY <1>8 DEF PickRooms
  <2>2. rs \in SUBSET Rooms
    BY <1>2 DEF Toggled, ZoneRooms
  <2>3. IsSpecific(loc)
    BY <1>8 DEF PickRooms, IsSpecific, SpecificKinds
  <2> QED
    BY <1>1, <2>1, <2>2, <2>3, PicksSound, PlaceInv
<1>9. ASSUME NEW d \in Dorms, PickDorm(d) PROVE WizardInv'
  <2>1. Toggled(loc.dorms, d) \in SUBSET Dorms
    BY <1>2 DEF Toggled
  <2> QED
    BY <1>1, <1>9, <2>1, PicksSound, PlaceInv DEF PickDorm, IsSpecific, SpecificKinds
<1>10. ASSUME NEW w \in Washrooms, PickWashroom(w) PROVE WizardInv'
  <2>1. Toggled(loc.washrooms, w) \in SUBSET Washrooms
    BY <1>2 DEF Toggled
  <2> QED
    BY <1>1, <1>10, <2>1, PicksSound, PlaceInv DEF PickWashroom, IsSpecific, SpecificKinds
<1>11. ASSUME NEW b \in Beds, PickBed(b) PROVE WizardInv'
  <2>1. Toggled(loc.beds, b) \in SUBSET Beds
    BY <1>2 DEF Toggled
  <2> QED
    BY <1>1, <1>11, <2>1, PicksSound, PlaceInv DEF PickBed, IsSpecific, SpecificKinds
<1> QED
  BY <1>3, <1>4, <1>5, <1>6, <1>7, <1>8, <1>9, <1>10, <1>11

LEMMA ScheduleInv ==
  ASSUME WizardInv,
         NEW k \in ScheduleKinds, NEW f \in Frequencies, NEW g \in SUBSET {"date", "weekdays", "day"},
         Schedule([kind |-> k, frequency |-> f, given |-> g])
  PROVE  WizardInv'
<1>1. step = 4 /\ step' = 4
  BY StepNames DEF WizardInv, WizardTypeOK, Schedule, On
<1>2. \A i \in 1..3 : Complete(Steps[i])' <=> Complete(Steps[i])
  <2>1. \A i \in 1..3 : Steps[i] \in {"basics", "assign", "location"} /\ Steps'[i] = Steps[i]
    BY StepNames DEF Steps
  <2> QED
    BY <2>1 DEF Schedule, Complete
<1>3. StepsChecked'
  BY <1>1, <1>2, EarlierSteps
<1>4. WizardTypeOK' /\ Known(loc)'
  BY KnownAgain DEF WizardInv, WizardTypeOK, Schedule
<1> QED
  BY <1>3, <1>4 DEF WizardInv

LEMMA ScheduleStepInv ==
  ASSUME WizardInv,
         \/ \E k \in ScheduleKinds : PickKind(k)
         \/ \E f \in Frequencies : PickFrequency(f)
         \/ PickWhen
  PROVE  WizardInv'
<1>1. sched \in [kind : ScheduleKinds, frequency : Frequencies, given : SUBSET {"date", "weekdays", "day"}]
  BY DEF WizardInv, WizardTypeOK
<1>2. ASSUME NEW k \in ScheduleKinds, PickKind(k) PROVE WizardInv'
  <2>1. [sched EXCEPT !.kind = k]
          = [kind |-> k, frequency |-> sched.frequency, given |-> sched.given]
    BY <1>1
  <2> QED
    BY <1>1, <1>2, <2>1, ScheduleInv DEF PickKind
<1>3. ASSUME NEW f \in Frequencies, PickFrequency(f) PROVE WizardInv'
  <2>1. [sched EXCEPT !.frequency = f]
          = [kind |-> sched.kind, frequency |-> f, given |-> sched.given]
    BY <1>1
  <2> QED
    BY <1>1, <1>3, <2>1, ScheduleInv DEF PickFrequency
<1>4. ASSUME PickWhen PROVE WizardInv'
  <2>1. PICK x \in Needs(sched) : Schedule([sched EXCEPT !.given = Toggled(@, x)])
    BY <1>4 DEF PickWhen
  <2>2. Toggled(sched.given, x) \in SUBSET {"date", "weekdays", "day"}
    BY <1>1 DEF Toggled, Needs
  <2>3. [sched EXCEPT !.given = Toggled(@, x)]
          = [kind |-> sched.kind, frequency |-> sched.frequency,
             given |-> Toggled(sched.given, x)]
    BY <1>1
  <2> QED
    BY <1>1, <2>1, <2>2, <2>3, ScheduleInv
<1> QED
  BY <1>2, <1>3, <1>4

\* The fields of the first two steps.
LEMMA FieldInv ==
  ASSUME WizardInv, PickType \/ Rename \/ PickWhom \/ \E m \in Modes : PickMode(m)
  PROVE  WizardInv'
<1>1. CASE PickType \/ Rename
  <2>1. step = 1 /\ step' = 1 /\ loc' = loc
    BY <1>1, StepNames DEF WizardInv, WizardTypeOK, PickType, Rename, On
  <2>2. StepsChecked'
    BY <2>1 DEF StepsChecked
  <2>3. WizardTypeOK'
    BY <1>1 DEF WizardInv, WizardTypeOK, PickType, Rename
  <2>4. Known(loc)'
    BY <2>1, KnownAgain DEF WizardInv
  <2> QED
    BY <2>2, <2>3, <2>4 DEF WizardInv
<1>2. CASE PickWhom \/ \E m \in Modes : PickMode(m)
  <2>1. step = 2 /\ step' = 2 /\ named' = named /\ loc' = loc
    BY <1>2, StepNames DEF WizardInv, WizardTypeOK, PickWhom, PickMode, On
  <2>2. Complete(Steps[1])' <=> Complete(Steps[1])
    BY <2>1, StepNames DEF Complete, Steps
  <2>3. StepsChecked'
    BY <2>1, <2>2, EarlierSteps
  <2>4. WizardTypeOK'
    BY <1>2 DEF WizardInv, WizardTypeOK, PickWhom, PickMode
  <2>5. Known(loc)'
    BY <2>1, KnownAgain DEF WizardInv
  <2> QED
    BY <2>3, <2>4, <2>5 DEF WizardInv
<1> QED
  BY <1>1, <1>2

LEMMA Before ==
  ASSUME NEW n \in 1..7
  PROVE  \A i \in 1..(n - 1) : i \in 1..7 /\ i < n
OBVIOUS

\* Steps that leave the form alone: forward past a checked step, or back.
LEMMA WalkInv ==
  ASSUME WizardInv, NextStep \/ Save \/ SaveFails \/ \E i \in DOMAIN Steps : GoBack(i)
  PROVE  WizardInv'
<1>1. UNCHANGED fields /\ step \in 1..7 /\ step' \in 1..7
  BY StepNames DEF WizardInv, WizardTypeOK, NextStep, Save, SaveFails, GoBack
<1>2. \A i \in 1..7 : Complete(Steps[i])' <=> Complete(Steps[i])
  BY <1>1 DEF fields, Complete, Needs, LocationComplete, IsSpecific, Picks, Steps
<1>3. step' <= step \/ (step' = step + 1 /\ Complete(Steps[step]))
  BY <1>1, StepNames DEF NextStep, Save, SaveFails, GoBack
<1>4. StepsChecked'
  <2>1. \A i \in 1..(step - 1) : Complete(Steps[i])
    BY DEF WizardInv, StepsChecked
  <2>2. ASSUME NEW i \in 1..7, i < step'
        PROVE  Complete(Steps[i])
    <3>0. step \in 1..7 /\ step' \in 1..7
      BY <1>1
    <3>1. step \in Int /\ i < step'
      BY <2>2, <3>0
    <3>2. step' <= step \/ step' = step + 1
      BY <1>3
    <3>4. CASE i < step
      BY <2>1, <3>1, <3>4
    <3>5. CASE ~(i < step)
      <4>1. i = step /\ step' = step + 1
        BY <3>0, <3>1, <3>2, <3>5
      <4>2. ~(step' <= step)
        BY <3>0, <4>1
      <4> QED
        BY <1>3, <4>1, <4>2
    <3> QED
      BY <3>4, <3>5
  <2>3. \A i \in 1..(step' - 1) : i \in 1..7 /\ i < step'
    <3>1. step' \in 1..7
      BY <1>1
    <3> QED
      BY <3>1, Before
  <2> QED
    BY <1>2, <2>2, <2>3 DEF StepsChecked
<1>5. WizardTypeOK'
  <2>1. submitting' \in BOOLEAN
    BY DEF WizardInv, WizardTypeOK, NextStep, Save, SaveFails, GoBack
  <2> QED
    BY <1>1, <2>1, StepNames DEF fields, WizardInv, WizardTypeOK, Steps
<1>6. Known(loc)'
  BY <1>1, KnownAgain DEF WizardInv, fields
<1> QED
  BY <1>4, <1>5, <1>6 DEF WizardInv

\* A saved template is opened as it was stored.
LEMMA SaveInv ==
  ASSUME WizardInv, SaveEnds
  PROVE  WizardInv'
<1>1. StepsChecked'
  BY DEF SaveEnds, StepsChecked
<1>2. Known(Sent(loc)) /\ loc' = Sent(loc)
  BY SentKnown DEF WizardInv, SaveEnds
<1>3. Known(loc)'
  BY <1>2 DEF Known, Sound, Stated, IsSpecific, CondResource
<1>4. WizardTypeOK'
  <2>1. loc' \in Locations
    BY <1>2, Zenon DEF Known, Sound
  <2>2. step' \in DOMAIN Steps'
    BY StepNames DEF SaveEnds, Steps
  <2>3. UNCHANGED <<operations, named, mode, picked, sched>>
    BY DEF SaveEnds
  <2>4. operations' \in BOOLEAN /\ named' \in BOOLEAN
    BY <2>3, Zenon DEF WizardInv, WizardTypeOK
  <2>5. /\ mode' \in Modes /\ picked' \subseteq Modes
        /\ sched' \in [kind : ScheduleKinds, frequency : Frequencies,
                       given : SUBSET {"date", "weekdays", "day"}]
    BY <2>3 DEF WizardInv, WizardTypeOK
  <2>6. submitting' \in BOOLEAN
    BY Zenon DEF SaveEnds
  <2> QED
    BY <2>1, <2>2, <2>4, <2>5, <2>6, Zenon DEF WizardTypeOK
<1> QED
  BY <1>1, <1>3, <1>4 DEF WizardInv

LEMMA NextInv ==
  ASSUME WizardInv, [WizardNext]_wizardVars
  PROVE  WizardInv'
<1>1. CASE UNCHANGED wizardVars
  <2>1. StepsChecked'
    BY <1>1 DEF wizardVars, WizardInv, StepsChecked, Complete, Needs, LocationComplete, IsSpecific, Picks, Steps
  <2> QED
    BY <1>1, <2>1, KnownAgain DEF wizardVars, WizardInv, WizardTypeOK, Steps
<1>2. CASE WizardNext
  BY <1>2, LocationStepInv, ScheduleStepInv, FieldInv, WalkInv, SaveInv DEF WizardNext
<1> QED
  BY <1>1, <1>2

LEMMA Invariance == WizardSpec => []WizardInv
<1>1. WizardInit => WizardInv
  BY InitInv
<1>2. WizardInv /\ [WizardNext]_wizardVars => WizardInv'
  BY NextInv
<1> QED
  BY <1>1, <1>2, PTL DEF WizardSpec

-----------------------------------------------------------------------------
(* Theorems.                                                                *)

\* The form is well formed, for any structure of the property.
THEOREM WizardTypeCorrect == WizardSpec => []WizardTypeOK
<1>1. WizardInv => WizardTypeOK
  BY DEF WizardInv
<1> QED
  BY <1>1, Invariance, PTL

\* The server makes the work for the units the summary names, or where there
\* is none for the place at large, for any structure, any occupancy and any
\* use of the wizard.
THEOREM SummaryIsTrue == WizardSpec => []MeansWhatItSays
<1>1. WizardInv => MeansWhatItSays
  BY Means DEF WizardInv
<1> QED
  BY <1>1, Invariance, PTL

\* No step is left behind unchecked.
THEOREM EveryStepChecked == WizardSpec => []StepsChecked
<1>1. WizardInv => StepsChecked
  BY DEF WizardInv
<1> QED
  BY <1>1, Invariance, PTL

=============================================================================
