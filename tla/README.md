# AiROS / Airco-PMS: a TLA+ model of its state machines

The repository is a property-management system: a FastAPI backend on PostgreSQL
(`src/backend`), a React client for managers (`src/frontend`) and an Expo app
for the employees (`src/Mobile_frontend`). The core of the backend is a set of
services that keep a few materialised statuses in step with the records they
summarise, called concurrently by the desk, by housekeeping, by engineers and by
a scheduler that ticks every minute. The core of the clients is what they do
while requests are under way: sharing one token refresh, following the server's
lists, and leaving what the user did meanwhile alone. This directory models
both, checks them with TLC on small instances and proves a large part of what
is checked with TLAPS.

Numbers in parentheses are lines of the file under discussion. Paths are
relative to `src/backend/app/` for the backend, `src/frontend/src/` for the web
client and `src/Mobile_frontend/` for the app.

## 1. Inventory

| Component | State | Operations | Interacts with |
|---|---|---|---|
| Room state engine (`services/resource_state.py`, `domain/`) | `rooms.status` (and dorm, bed, washroom, fixture) | `transition` (explicit, gated by `LEGAL_TRANSITIONS` and `SOURCE_GATES`), `derive` (recompute from the blocking records), `repair` | called at the end of nearly every handler below |
| Occupancy (`services/occupancy.py`) | open `occupancies` rows | check-in, check-out, one checkout pipeline `checkout_units` | spawns checkout-cleaning tasks, transitions the room |
| Task lifecycle (`services/task.py`) | `tasks`, their submissions, evidence, history | create, edit, retarget, delete, start, submit, complete, approve, reject, reopen, redo; repetitive series | flags and derives the room, allocates people |
| Maintenance (`services/maintenance.py`) | `maintenance_tickets` | create (also batch), assign, start, hold, resolve, disapprove, close, cancel, delete | flags the room `maintenance`, derives it on closure |
| Unit board (`services/structure.py`) | none of its own | `bulk_unit_status`: checkout, cleaning, release, maintenance; structure editing; automation rules | occupancy, tasks, tickets, rooms, all at once |
| Rollover and expiry (`services/rollover.py`) | none of its own | `run` (daily), `expire_due` (occurrence windows) | abandons tasks with conditional updates |
| Templates and the tick (`services/template.py`, `workers/jobs.py`, `main.py`) | templates' `next_run_at`, the `template_generations` ledger | `run_due`, activation, editing, the manual trigger | expires predecessors, allocates people, creates tasks |
| Work allocation (`services/work_allocation.py`) | one rotation pointer per zone, batches | `allocate`, `allocate_units`, `allocate_people` | locked by every handler that creates work |
| Reconciliation (`services/reconciliation.py`) | none | reports contradictions | read-only |
| Infrastructure (`core/`) | DB sessions, Redis, rate counters, tokens | sessions roll back on error; limiter; refresh tokens | everything |
| Web session (`api/client.ts`, `api/auth.ts`, part of `context/AppContext.tsx`) | tokens in localStorage, the signed-in user, the loaded lists | sign-in, logout, restore after a reload, `apiFetch` with one retry after a 401, the shared `refreshOnce` | every request of the tab |
| Web workspace store (`AppContext.tsx`, `hooks/usePolling.ts`) | the lists of the property, `refreshUnitsInFlight` and its pending scope | its operations: request, optimistic move and rollback, rows of the answer, follow-up reads; the poll | boards, dialogs, drawer |
| Web routes (`App.tsx`, effects of the store) | the path, the active property | guards by session, role and property; redirects | session, store |
| Web dialogs and forms (`components/*/Create*Modal.tsx` and others) | local fields, `isSubmitting` | open, type, submit (one or several requests), close, late answer | store |
| Web boards (`RoomsDormsView`, `ZoneWorkspace`, `WashroomDetailModal`) | picks, `busyUnits`, the checkout dialog | pick, filter, bulk toolbar, card commands | store |
| Web task drawer and pending check (`TaskDetailDrawer`, `PendingCheckView`) | the open task, its detail, photos, `acting` | read, add photos, submit, approve, disapprove | store |
| Template wizard (`components/templates/TemplateWizard.tsx`) | one stored location, schedule, the step | condition, place and unit pickers, next and back, save | template service, which expands the location when it is due |
| Mobile session (`stores/session.tsx`, `services/api.ts`) | tokens in SecureStore | boot, sign-in, sign-out, shared refresh | every request of the app |
| Mobile work screens (`app/`, `hooks/useFetch.ts`, `components/media/EvidencePicker.tsx`) | the shown item, spinners, checklist, photos and their uploads | load on focus, act and reload, upload, raise a ticket | mobile session |

What is hard here: the handlers are multi-statement transactions under READ
COMMITTED, with an ORM session that does not refresh what it has loaded; a
status is a projection of three other tables that a dozen handlers change; the
sweeps act on tasks people are working on; several workers may tick at once,
crash, or fail half way. In the clients every `await` is a point where the user,
another answer or a refresh may have changed what the code read before it:
answers overtake each other, arrive for a screen that is gone or a dialog that
was opened again, are lost although the server acted, or find the session over.

What makes each part correct is stated in the properties below; the full list
of the hazards, each with its line and the properties aimed at it, is in
`PROJECT.json`.

## 2. Modules

```
ResourceDomain ── statuses, transition table, gates          (domain/)
   ├── RoomState ── handlers as single steps ──implements──> RoomStay
   │      └── RoomStateProofs
   ├── ResourceTxn ── the same handlers as transactions
   │      └── ResourceTxnProofs
   └── TaskReview ── one task, its submissions and concurrent calls
          └── TaskReviewProofs
Scheduler ── templates, ticks, expiry, rollover
   └── SchedulerProofs

SingleFlight ── what a shared request promises
   ├──implemented by── WebSession ── tokens and requests of a browser tab
   │      └── WebSessionProofs
   ├──implemented by── UnitStore ── the lists of the web client and the poll
   │      └── UnitStoreProofs           (WebCommands: the operations, as data)
   └──implemented by── MobileApp ── the employees' app
          └── MobileAppProofs
TemplateForm ── the template wizard and what the server makes of it
Screens ── composes WebRoutes, Forms, UnitBoard and ReviewDesk
   └── ScreensProofs ── about Screens, and about TemplateForm
MCRoomState, MCResourceTxn, MCTaskReview, MCScheduler, MCWebSession,
MCUnitStore, MCMobileApp, MCTemplateForm, MCScreens: instances for TLC
```

### The backend

**ResourceDomain** transcribes `domain/resource_states.py` and
`domain/transitions.py`: the room's statuses, which task and ticket statuses
block, the legal transitions and which source may ask for them.

**RoomState** is the serial view. Its state is `status` (rooms.status), `guest`
(is there an open occupancy?), `task` (rows: status, work, the room it targets)
and `ticket` (rows: status, room). Every handler of
occupancy, task, maintenance and the unit board, both sweeps, the override and
`repair` is one action that makes all the writes of its transaction. `Derive`
and `Flag` are the two ways a status is written. A task's `work` is what the
handlers of a room tell apart: its title (the unit board's two for a room, or a
name of the user's), whether its work type is cleaning, whether it repeats. It
can be edited at any time (`UpdateTask`): the target only while no work was
started on it, title, type and repetition in every status, and only a change of
the target derives a room. A type that is not stored is inferred from the task's
template or title (`_task_work_type`), so that the edit of either can change it;
`UpdateTask` stands for that as well. Expiry checks (an expired instance refuses a call) and role checks
are left out: they only remove behaviours.

**RoomStay** is the abstract contract for the front desk, tasks and tickets
hidden: arrive only in an available room, leave into a withheld one, return to
whoever is recorded. RoomState implements it with the identity mapping on
`status` and `guest`.

**ResourceTxn** opens the transactions up. `Program` gives each handler's
statements in order: an unlocked read of the room, the lock of the occupancy,
of the zone's allocation row, an insert with its foreign-key share lock, the
update of the row the call is about, the lock of the work to close, `FOR
UPDATE` of the room, the last writes and the commit. `seen` is the room as the
ORM session loaded it first; a later `FOR UPDATE` locks the row and does not
refresh it (`_lock`, resource_state.py 78-96, without `populate_existing`), and
a status equal to the loaded one is not written. Deadlocks are cycles of
`Blockers`, and the database rolls one transaction back.

**TaskReview** is one task under concurrent calls. `task` is the row (status,
whether `completed_at` is set, whether the `abandoned_*` columns are), `window`
its validity, `sub` the verdicts on its submissions by attempt number, `call`
what each call has read and how far it is, `holder` the row's lock. A handler
reads the task and judges it (`ReadTask`); a reviewer's submissions come from a
later statement (`ReadSubmissions`); its UPDATE takes the lock without looking
at the row again (`Update`), while a sweep's repeats its condition and may miss
(`SweepMisses`); a delivery then takes its number (`Number`), and `Commit`
writes the columns that differ from what the call read. Any call may fail and
roll back (`Abort`). Left out: deleting the task, approving a task that is
already completed (it writes no column of the task), reassignment, and the day
of the rollover, which may be past or not. MaxAttempts bounds the submissions.

**Scheduler** models templates (target: a room or a zone; schedule: recurring
or one-time), their cursor, the task of each occurrence, the ledger, and
workers that run a tick in the code's order: expire, load the due templates,
then per template supersede, check, commit; then roll the day over. Time is
counted in occurrences of the schedule. The Redis lock of the tick is not
modelled: its TTL (55 s) is below the job's time limit (120 s), it is skipped
without Redis and by the manual trigger, so it excludes nothing, as the code's
comments say. A failed generation rolls the shared session back, which expires
every loaded template: the next one of the batch cannot be read and the tick
fails. A worker may die at any step and loses what it has not committed.

### The clients

JavaScript runs to completion, so in all of these modules a step is what runs
between two awaits, and a request is sent, answered by the server (or lost) and
settled in the client in three steps.

**SingleFlight** is the abstract contract of every shared request of the
clients: whoever asks while one is under way joins it, nobody starts a second,
and all who joined go on together when it lands.

**WebSession** is one browser tab. `access` and `refresh` are localStorage,
`user` and `data` what the tab shows, `call` the requests, `exchange` the token
exchange in flight; `granted`, `live` and `issued` are the server's side, known
by what it answers. A 401 makes a request ask for the exchange or join it
(`refreshOnce`), once; then it is retried or the session expires. Logout revokes
first and clears the tokens after the answer, as the code does. A reload loses
the tab and keeps the tokens. One "read" stands for the nine lists of
`loadWorkspace` and any request of the poll or a screen. `quiet` is history: no
request was in flight at any sign-in so far.

**UnitStore** follows each list of the store through one of its rows: its
version at the server and the version shown. `WebCommands` transcribes every
operation of AppContext as data: the lists it writes, the rows its answer
replaces, the list its answer is appended to (twice, if a refresh brought the
row first: `doubled`), the optimistic guess and its rollback, the lists it reads
again, the scope it asks of `refreshUnitsScoped`. The refresh has its pass, its
pending scope, the wait for a paint (`requestAnimationFrame`) and the follow-up
pass; the poll waits for it and pauses in a hidden tab. Reads answer per list,
so older answers may come last. Left out: toasts, the permission tables and the
collections derived by filters.

**MobileApp** has SecureStore, which survives a kill, the shared refresh, and
one work screen at a time: a task, a ticket or the form that raises one. `call`
are the requests that carry the token; `current` says whether its screen and its
generation (`useFetch`) are still those it was sent for. Evidence is modelled
with what each callback closed over (`upload[p].seen`, `picker.seen`), because
that is what `EvidencePicker` writes back. Lists, history and profile are reads
and left out.

**TemplateForm** is the wizard over a property's structure. `loc` is the one
stored location that the resource, occupancy, scope and unit pickers share;
`Meant` is what the summary says of it, `Resolved` what `_expand_targets` makes
of the saved form for any occupancy at the time it is due, down to the one task
for the zones, the area or the property where no unit matches. The wizard opens
on a new template or on one that is stored, also by an earlier version: with
single beds picked, without a target or with the target "units"
(`FirstLocations`), or of the type "operations", whose location `Sent` drops.
The steps are checked forwards and left backwards unchecked. Its initial states, steps and type
invariant are named `WizardInit`, `WizardNext`, `WizardSpec` and `WizardTypeOK`,
because one module of proofs extends it and Screens.

**WebRoutes**, **Forms**, **UnitBoard** and **ReviewDesk** are the parts of the
web client on the screen, **Screens** composes them. WebRoutes has every route,
guard and redirect; a guard is a function from viewer and path to the next path.
Forms has the one pattern 22 dialogs and forms are written to, and a catalogue
with one entry per form for what differs: required fields, unique names, what
opening, success and closing reset, whether closing waits for a submission, its
requests in order. The check for names that exist follows the lists the page
shows (`NameTaken`, `NameFreed`), open or closed, because the bulk dialogs stay
mounted with their fields. UnitBoard has the picks, the bulk toolbars, the card commands
and the checkout dialog over units that change behind the user's back.
ReviewDesk has the drawer, with detail reads that arrive late, photos and
submissions, and the pending check's snapshot and reviews. A list's row of a task
says to do, submitted or completed; pending, started and returned are one stage.
The effect that reads the detail compares status and times (200-203), which the
return of a task clears: between two stages to do the key may repeat or differ
(`Alike`), and the drawer may read again or keep what it has. In Screens a user
signs in and out, goes to paths and is redirected, and mounts one of these on
the page; leaving unmounts it and its requests go on for nobody.

## 3. Runs

| Run | Instance | Shows |
|---|---|---|
| RoomWork | 1 room, 2 tasks, 2 tickets, 1 title of the user's own | types; `OccupancyProjection`, `TicketAuthority`, `WorkAuthority`, `CleanRelease` |
| RoomMoves | 2 rooms, 2 tasks, 1 title of the user's own | `NoStranding` with tasks that move between rooms and are edited; `StayContract` (refinement) |
| TxnAll | 2 requests, every handler | types and locks; `NeverSoldTwice` under every interleaving |
| TxnLocked | 3 requests, the handlers that lock first | `OccupiedHasGuest`, `DeadlockFree`, the desk's explicit transition included |
| TxnRaise | 3 requests, tickets raised and never closed | `TicketFlagged` |
| Review | 2 calls at a time, 4 submissions | `ReviewableWork`, `AttemptsDistinct`, `EndMarked`, `SweepYields` |
| Ticks | 1 template of any shape, scheduler and manual trigger, 1 crash | `GeneratedOnce`, `NoLostOccurrence`, `DeadOccurrencesClose`, `CatchUp` |
| WebSession | 2 sign-ins, 2 requests, 2 access tokens each, 1 reload | `OwnTokens`, `ExchangeIsSingleFlight` (refinement), `KeptWhileGranted`, `CallsEnd` |
| Units | rooms and tasks, their operations two at a time, 2 changes, 1 loss | `Converges`, `RefreshIsSingleFlight` (refinement), `PollEnds` |
| Mobile | task screen and ticket form, 2 requests, 1 photo, 1 kill | `SpinnersHonest`, `ShownNeverOlder`, `RefreshIsSingleFlight` (refinement), `RequestsEnd` |
| Wizard | 2 areas, 2 zones, 2 rooms, a dorm with a bed, a washroom; every stored location | `MeansWhatItSays`, `StepsChecked` |
| Screens | 2 properties, every form, 2 units, 2 tasks | types; `FormsHonest`, `DrawerHonest`, `PicksHonest`, `RedirectsEnd` |

**What the code does not promise.** Some runs leave a case out on purpose, and
some hazards in `PROJECT.json` have a note in place of a property. The models
contain the behaviour; these show it:

- With `"close_ticket"` added to `Handlers` in TxnRaise.cfg, TLC violates
  `TicketFlagged`: `create_ticket` waits for the room's lock and goes on with the
  status its session loaded before, so a close of the room's other ticket leaves
  an available room with an open ticket. `TxnAll` includes these handlers for
  `NeverSoldTwice`.
- With `"bulk_checkout"` added to `Handlers` in TxnLocked.cfg, TLC violates
  `OccupiedHasGuest`: the unit board reads the room, waits, closes the occupancy
  and does not write a status equal to the one it read, so a check-in that
  committed meanwhile leaves the room occupied without a guest. It is the only
  handler that does: `OccupiedIsKept` proves the invariant for all the others.
- `update_task` changes the work type of a task in any status (task.py 636-644,
  755-756) and looks at no room, although "A STARTED cleaning task commits the
  resource to CLEANING" (start_task, 799-800): an inspection under way in an
  available room becomes cleaning and the room stays on sale. `WorkAuthority`
  names this edit (`BecomesCleaning`) beside the administrative transitions.
- With a second template and one of the two in `Faulty`, Ticks.cfg violates
  `CatchUp`: the rollback of the failing template expires the other (template.py
  650). `Faulty` is empty in the run, so `RolledBack` is exercised by the proofs
  and not by TLC.
- The sweeps abandon a room's cleaning and never derive the room; `NoStranding`
  names them as the exception. A task under review blocks its successor's title,
  and `NoLostOccurrence` counts that occurrence as skipped for a reason. Saving
  a one-time template again abandons its live task and the ledger forbids
  another (template.py 628).
- A sign-in that starts while requests of the session before are in flight can
  lose its tokens to them (auth.ts 33, client.ts 240-262); `OwnTokens` and
  `KeptWhileGranted` are about sign-ins that start in quiet.
- In the app, `EvidencePicker` writes back the list a callback closed over, and
  that is the list from before the photo was added (33-60): the first progress
  of its upload, or its end, drops the photo again. "photos upload eagerly so
  submit never waits" says its line 13; in the model, as in the code, no photo
  is ever shown as uploaded, the Retry button never appears, and a task that
  wants photos cannot be submitted. Mobile.cfg therefore has `MinPhotos = 0`;
  with 1, no delivery happens.
- A condition for a zone or an area that holds no matching unit makes one task for
  the place (template.py 1282-1284, 1299-1305, 1348-1361), though the comment at
  its end has "an explicit target that expands to nothing ... means no work"
  (1501-1503), which the code keeps for the property only. `MeansWhatItSays`
  allows such a task for a place that the summary names.
- Of a stored location without a target, or with the target "units", the wizard
  says "rooms" (TemplateWizard 171-173); the server makes rooms, beds and
  washrooms of a place, and for the property one task or, with "units", every
  unit. `MeansWhatItSays` says nothing of these, but that no order of the pickers
  produces one; `Resolved` has them. A target stored as "none" (template.py 1451)
  is left out: no version of the wizard in the repository writes it.
- A bulk dialog offers the same names again once one of them has left the shown
  lists, because the unit was deleted (AppContext 1218) or the answer of an earlier
  list came late (484): `FormsHonest` counts writes from there on. The server
  skips or refuses names that still exist.
- Behind a list that says there is work to do, the drawer may show the detail of an
  earlier attempt: its key is the same when a task was returned a second time,
  `submitted_at` being cleared (TaskDetailDrawer 200-203, task.py 1237).
  `DrawerHonest` asks for a detail as new as a submission or completion only.
- The pending check's snapshot survives a logout in the code and does not in
  Screens, where whatever leaves the page is blank.
- In the web drawer a late reset clears photos of the task opened since.
  `DrawerHonest` excepts photos whose task has left the list.
- `FormsHonest` asks that content is written once only of forms with one request
  and of submissions whose answer was not lost; a form of several requests
  (`AssignWashroomTask`, `ScheduleWashroomMaintenance`) repeats the first ones
  after a failure in the middle.
- The rooms' bulk toolbar clears all picks when its answer comes, later ones
  included; `PicksHonest` is about the dorm cards, which take back only what
  they sent.

**Bounds of the backend runs.** RoomState: two tasks and two tickets on one room
are enough for every property to see the row it is about and one that
interferes; the moves need two rooms. `Written` has cleaning and other work, once
and repeated, under a title of the unit board's and one of the user's, which is
where titles meet and where an edit changes what a room sees; the proofs have
any set of `Works`. ResourceTxn: a stale read needs two
transactions, a cycle of three different resources three. TaskReview: one stale
call against any sequence of others, with enough submissions for a task to be
delivered, judged, delivered again and delivered twice at once. It may stop: an
ended task whose window is over accepts no call, so deadlock is not checked
there. Scheduler: `Horizon` 2 has a first occurrence with a window and a last one
without, and `DayLength` 2 with every day start puts them on the same or on
different days; two workers meet at every step. `MaxCrashes` bounds the crashes,
and the liveness properties hold for what follows the last one. The proofs
remove the bounds where they reach.

**Bounds of the client runs.** WebSession: a race needs one request that is
refused and one that joins or settles late; `MaxTokens` 2 has the token that
expired and the one the exchange brings, a second session has somebody else's
tokens, `MaxReloads` 1 a restore. With all tokens used and nobody signed in
nothing can happen, hence no deadlock check. UnitStore: `MaxChanges` 2 has the
change a guess or an answer overtakes and one by another tab; `MaxLosses` 1 fails
one request of any kind; two lists, one with units and one without, are what the
scopes tell apart. When the changes are used and the tab is hidden it may stop.
MobileApp: `MaxVersions` 2 has an older answer that arrives after a newer one,
`MaxKills` 1 a boot with stored tokens in any state; a ticket's screen differs
from a task's by its actions only and is left to the proofs, like more photos.
TemplateForm is finite; the structure has a zone in an area and one in none, and
a dorm with an area and no zone, which is where the pickers disagree; one
schedule kind with two frequencies reaches every check of the schedule step, and
the proofs cover the others. Screens: `MaxCalls`, `MaxCommands` and `MaxRequests`
2 are the late answer and the one it meets, `MaxWrites` 3 counts one write more
than a form of two makes, `MaxStage` 3 is a task submitted, returned, submitted
and completed, two `Reviews` are two verdicts under way at once, and `MaxHops` 5
lies above the 3 redirects that are claimed. The
bounds are limits on what the user starts, with one exception: an answer or a
list that would make the drawer start another read waits while `MaxRequests` are
in flight (`Turn`). `MaxStage` 3 is enough for a list to jump between two stages
to do and meet a detail of the earlier one: without the exception for work to
do in `AsFar`, TLC finds it. Properties, units
and tasks are symmetric, and no property of that run is a liveness property.

**Fairness.** Backend: weak fairness of each scheduler worker's steps, because
cron starts a tick every minute (and the embedded loop sleeps a minute and goes
on after an exception), and a job that is not killed runs to its end; the manual
trigger, people, crashes and time have none. Web: every request is answered or
lost and then handled, since the client aborts after 20 s and the network ends
an exchange that has no timeout of its own; in UnitStore also the browser's
paint of a visible tab and its interval timer. App: every request is answered or
times out (`REQUEST_TIMEOUT_MS`, `xhr.timeout`) and what waits for it goes on.
Nothing is expected of the user, not even to come back to a hidden tab:
`Converges` and `PollEnds` are conditional on a tab that stays visible.

## 4. Proofs

All for any number of rows, requests, templates, workers, tokens, lists and photos.

*RoomStateProofs.* The first lemmas say what `Target`, `Derive`, `Flag` and the
row updates return. `TypeCorrect`: type invariant, inductive as it stands.
`ProjectionAgrees`: `OccupancyProjection`; inductive with `TypeOK`, since every
write of a status is a derive (which reads the occupancy), a flag (which cannot
write `occupied`) or an explicit pair of status and occupancy. The four action
properties are proved with one step per handler, from lemmas about what a
handler may do to a room's status and to the rows that speak for it.
`TicketsHold` (`TicketAuthority`): a derive under a blocking ticket returns
`maintenance`, a ticket row stays blocking unless the step is one of the three
that end it, and these derive. `NobodyStranded` (`NoStranding`): a derive that
withholds has a row to name (`DerivedHasReason`), a flag is raised with the row
it is for, and a row that was the reason stays one unless the step derives the
room (`KeptReason`, `RowsKeepWork`); what is left are the sweeps, the bulk move
to maintenance and the override, which the property excepts.
`WorkersUndisturbed` (`WorkAuthority`): a derive while a task is in progress
never answers `available` (`UnderWayDerived`) and no flag does
(`FlagWithholds`); a task that gets under way is flagged by its start, unless it
was under way before and only its work was edited. `ReleasedClean` (`CleanRelease`): only a derive or an
administrative write ends `cleaning` and `maintenance`, and `DeriveCases` says
when it answers what. `StayImplemented`: each handler maps to a step of RoomStay
or a stutter.

*ResourceTxnProofs.* `NeverOnSale`: `NeverSoldTwice` is inductive as it stands,
for any handlers and any number of requests. Nothing is assumed of what a
request has seen: `available` is written only with a closed occupancy or by a
derivation that finds none at that moment (`DerivedForGuest`), and a status
equal to the one seen is not written (`CommitKeeps`). The other theorems need to
know where a request stands. `Inv` says it: the statements it still has to run
are a rest of its handler's program (`Standing`), what it holds is what the
statements before took, the room has one holder, and nobody holds it while
another shares its key (`LockType`). `TypeCorrect` follows, and three theorems
with a hypothesis each on `Handlers`, because the code keeps no more:
`OccupiedIsKept` (`OccupiedHasGuest`) for every handler but `bulk_checkout`. A
handler that locks the room before it reads it has seen what is committed
(`Fresh`), so its commit writes what it decided; one that read early can fail to
write only a status it saw, and none of these but the checkout closes an
occupancy. `TicketsShow` (`TicketFlagged`) for handlers that raise tickets or
touch none (`Raisers`): `Raised` adds that a request that saw `maintenance` saw
a ticket which nobody closes. `RoomFirstNeverDeadlocks` (`DeadlockFree`) for the
handlers that lock the room before anything but a row of their own
(`RoomFirst`): who holds the room waits for nobody, and everyone else waits for
it (`Ordered`), so that no cycle closes.

*TaskReviewProofs.* `TypeCorrect`, `AlwaysReviewable` (`ReviewableWork`),
`NumbersNeverCollide` (`AttemptsDistinct`), `EndsAreMarked` (`EndMarked`) and
`DeliveredWorkStays` (`SweepYields`) share one invariant. `ReviewableWork` alone
is not inductive: a review may only judge the newest submission because its
status write always leaves `submitted`, which needs that it read `submitted`
(`Guarded`). The number of a submission and the match of a sweep are known at
the update and used at the commit; they survive because only the holder of the
row is past its update (`Locked`), so nobody commits in between. `InnerStep`
proves all steps but the commit at once, `CommitStep` the commit.

*SchedulerProofs.* The inductive invariant `TypeOK /\ RunInv` says what a worker
still knows at each step although others have acted since it loaded the
templates: what it is about to generate had come due when it looked
(`BatchDue`, `RunningDue`), an insert it decided against was already in the
ledger (`SkippedIsLogged`), a one-time template has no occurrence but the first
(`OnceIsFirst`). `OthersKnow` carries it over the steps of everyone else,
because the ledger and the clock only grow. From it `TypeCorrect` (an
occurrence is in range when it is written), `AtMostOnce` (`GeneratedOnce`: only
a commit creates a task) and `NothingLost` (`NoLostOccurrence`: the cursor that
a possibly stale worker writes is past every due occurrence only if the one it
generated is the latest).

*WebSessionProofs.* `TypeCorrect`. `ExchangeImplementsSingleFlight` maps the
exchange to SingleFlight; its invariant `WaitInv` says that a request waits
exactly while an exchange is in flight, and for somebody's grant.
`OwnTokensOnly` (`OwnTokens`) needs to know who owns everything that could still
write a token: `OwnInv` says that, as long as sign-ins began in quiet, the
stored tokens, the exchange and all requests belong to one session (`Own`), and
that a login is alone. From the same invariant `SessionKept`
(`KeptWhileGranted`): the only steps that clear a user with tokens are those
after a refused or lost exchange or a second 401, and an exchange is refused
only when its grant has ended (`RefusedSound`).

*UnitStoreProofs.* `TypeCorrect` for any catalogue of operations, and
`RefreshImplementsSingleFlight` from `PollInv`: a tick waits only for a run.

*MobileAppProofs.* `TypeCorrect`; `RefreshImplementsSingleFlight` from
`WaitInv`. `SpinnersAreHonest` and `NeverOlder` share `ScreenInv`: at most one
load and one action drive the screen (`OneEach`), the spinners are on exactly
when one does, and an answer that is still current is no older than what is
shown and no newer than the server. `FormStays` is needed beside it: the screen
of a new ticket does not change under its own create request.

*ScreensProofs.* One invariant, `IInv`, with a part for the routes, for each kind
of component, and `Blank`: what is not on the page is as it was mounted. Only
the component on the page moves, and its steps keep its part whatever the others
hold. The lemmas before it say what the sequence and form operators return
(`RemoveAtIs`, `ModalWith`, `MarkedIs`) and that the catalogue has only sensible
forms (`CatalogueSensible`).
`RedirectsAreFew` (`RedirectsEnd`): `Left` is how many redirects may still follow
on a path; each one takes at least one off it (`RedirectsShrink`), and the
effects that change the active property or load the list leave it alone.
`FormsAreHonest` (`FormsHonest`): that content is written once is not inductive.
`Shape` says which calls still belong to the form and that the lock stands for
exactly one of them; a name that is lost starts the count again, at one if a
write is still unanswered (`Unanswered`, `LastWrites`). `Counted` says that a form that has written once more than
answers were lost still has that answer coming, or cannot submit the same
content: the name is taken, the fields are blank, or the result is shown.
`PicksAreHonest` (`PicksHonest`): `BoardAsksOnce` and `PicksExist` are inductive
with the types, and the action's third part is a fact about each answer.
`DrawerIsHonest` (`DrawerHonest`) needs four facts about what is under way: the
list is never ahead of the server (`ListBehind`), a read that is still wanted is
of the open task and as far as the list asks (`ReadsCurrent`, `AsFar`), which
survives a key that repeats because only work to do has one (`TurnKeeps`); the
drawer is
locked for the one submission (`SendsLocked`), and the task being acted on has
its review under way (`ActingReviewed`).

The same module has the wizard. `SummaryIsTrue` (`MeansWhatItSays`) for any
structure of the property and any occupancy. The invariant `Sound` says what
every order of the pickers leaves in the stored location: a scope has its place,
and washrooms and common areas no occupancy; `Known` adds that it states what it
is for or is still as it was stored. `Means` then compares the summary with the server's expansion, specific units and
conditions apart. `EveryStepChecked` (`StepsChecked`): an edit disturbs only the
step it is on (`EarlierSteps`, `FieldInv`).

The type invariants of WebSession, UnitStore, MobileApp and TemplateForm are
theorems and not repeated in the runs. The theorems rest on the named ASSUMEs of
the modules' constants, which TLC evaluates in the runs, and three of
ResourceTxnProofs on a hypothesis about `Handlers`, which the instances TxnLocked
and TxnRaise meet.

Model-checked only: what holds under fairness, `DeadOccurrencesClose`, `CatchUp`,
`CallsEnd`, `Converges`, `PollEnds` and `RequestsEnd`, because liveness is beyond
the prover. Every invariant, action property and refinement of the runs has a
theorem.

## 5. Not modelled, and the plan

Not modelled:

- Analyses, reports and reconciliation, on the server and in the clients: they
  read and present. The contradictions reconciliation looks for are the
  invariants of RoomState.
- Beds, dorms, washrooms and fixtures on the server: a dorm's status is derived
  from its beds, the others follow fewer rules of the room's.
- The rotation of work allocation, the clock's side of repetitive series, the
  preview and manual generation of `task_ops.py`, the rate limiter.
- Structure, property and employee management: single-row writes with
  authorisation checks. Authorisation only removes behaviours; the server's side
  of authentication appears by what it answers. The web client's types know a
  role `department_manager` that no code gives to anybody; WebRoutes does not.
- Evidence storage, uploads' content and the media pipeline (I/O).
- In the clients: presentation, toasts, permission tables, small prompts
  (delete, reject, redo), settings, lists, history and profile screens, the
  wizard's checklist and notes. In Screens "zones" stands for every ordinary
  screen of a property.

Plan, in order:

1. `DormState`: beds, the dorm's derived status, whole-dorm work, the unlocked
   read of the beds; washrooms and fixtures.
2. `WorkAllocation`: the rotation pointer and the least-loaded pick under
   concurrent allocations in zones that share an area's staff; batches that
   stay together.
3. `Series`: repetitive tasks, completion against the clock, one open title.
4. `RateLimiter`: the counter without an expiry.
5. A run over two tabs: WebSession's localStorage is shared between them.
6. Proofs of what these modules add; and SingleFlight's own promises, from
   which the clients that implement it would take theirs.
