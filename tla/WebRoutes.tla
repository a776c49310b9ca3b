----------------------------- MODULE WebRoutes ------------------------------
(* The routes of the web client and the guards that redirect from them.    *)
(* A guard renders either the screen or a Navigate to another path: one    *)
(* redirect is one application of Redirect below.  Screens whose guards    *)
(* are the same stand for each other: "zones" for every ordinary screen of *)
(* a property, "history" for the two day analyses, "adminProperties" for   *)
(* the three company screens, "employeeTasks" and "hrEmployees" for theirs.*)
EXTENDS Naturals, FiniteSets

CONSTANTS
  Properties,   \* the property_uid values a path may name
  NoProperty    \* no property: the empty activePropertyUid

ASSUME NoPropertyAssumption == NoProperty \notin Properties

Roles == {"super_admin", "property_manager", "human_resource", "employee"}

PublicPages == {"landing", "login", "signup"}

PropertyPages == {"zones", "history", "profile", "property"}

OtherPages ==
  {"adminProperties", "employeeTasks", "employeeLegacy", "hrEmployees", "unknown"}

Paths ==
  [page : PublicPages \cup PropertyPages \cup OtherPages,
   uid : Properties \cup {NoProperty}]

Page(p) == [page |-> p, uid |-> NoProperty]

PropertyPage(p, uid) == [page |-> p, uid |-> uid]

\* What the guards look at: whether somebody is signed in, the role, the
\* property of the user, activePropertyUid and the loaded properties.
Viewers ==
  [signedIn : BOOLEAN, role : Roles, own : Properties \cup {NoProperty},
   active : Properties \cup {NoProperty}, known : SUBSET Properties]

\* Where signIn sends a user.
HomePath(v) ==
  CASE v.role = "super_admin"      -> Page("adminProperties")
    [] v.role = "property_manager" -> PropertyPage("zones", v.own)
    [] v.role = "human_resource"   -> Page("hrEmployees")
    [] OTHER                       -> Page("employeeTasks")

\* As it would be if a guard sent a wrong role to sign in.
RoleHomeLogin(v) ==
  IF v.role = "property_manager" THEN PropertyPage("zones", v.active) ELSE Page("login")

\* Where a guard sends a role that has no business on the screen; a manager
\* goes to the active property.
RoleHome(v) ==
  IF v.role = "property_manager" THEN PropertyPage("zones", v.active) ELSE HomePath(v)

\* RequireAuth around a target.
RequireAuth(v, target) == IF v.signedIn THEN target ELSE Page("login")

\* RequireRole around a target.
RequireRole(v, roles, target) == IF v.role \in roles THEN target ELSE RoleHome(v)

\* PropertyScopedView: employees and human resources have screens of their
\* own, a manager has one property, and a super admin the company's (once
\* they are loaded).
PropertyScoped(v, path) ==
  CASE v.role = "employee"       -> Page("employeeTasks")
    [] v.role = "human_resource" -> Page("hrEmployees")
    [] v.role = "property_manager" /\ v.own # NoProperty /\ path.uid # v.own
         -> PropertyPage("zones", v.own)
    [] v.role = "super_admin" /\ v.known # {} /\ path.uid \notin v.known
         -> Page("adminProperties")
    [] OTHER -> path

\* Login and signup send a signed-in user on; they know two roles by name.
LoginPage(v, path) ==
  CASE ~v.signedIn -> path
    [] v.signedIn /\ v.role = "human_resource" -> Page("employeeTasks")
    [] OTHER -> HomePath(v)

\* The catch-all route.
RootRedirect(v) == IF v.signedIn THEN RoleHome(v) ELSE Page("landing")

\* One rendering of the route of a path: the path itself when its screen is
\* shown, and the path of the Navigate element otherwise.
Redirect(v, path) ==
  CASE path.page = "landing" -> path
    [] path.page \in {"login", "signup"} -> LoginPage(v, path)
    [] path.page = "adminProperties" ->
         RequireAuth(v, RequireRole(v, {"super_admin"}, path))
    [] path.page = "zones" -> RequireAuth(v, PropertyScoped(v, path))
    [] path.page = "history" ->
         RequireAuth(v, RequireRole(v, {"super_admin"}, PropertyScoped(v, path)))
    [] path.page = "profile" -> RequireAuth(v, path)
    [] path.page = "property" -> RequireAuth(v, PropertyPage("zones", path.uid))
    [] path.page = "employeeTasks" ->
         RequireAuth(v, RequireRole(v, {"employee"}, path))
    [] path.page = "employeeLegacy" -> Page("employeeTasks")
    [] path.page = "hrEmployees" ->
         RequireAuth(v, RequireRole(v, {"human_resource"}, path))
    [] OTHER -> RootRedirect(v)

Shown(v, path) == Redirect(v, path) = path

=============================================================================
