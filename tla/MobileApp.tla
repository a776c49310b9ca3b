----------------------------- MODULE MobileApp ------------------------------
(* The employees' app: the session in SecureStore with its shared token     *)
(* refresh, and one work screen (a task, a ticket, or the form that raises  *)
(* a ticket) with its reads, its actions and its photo evidence.  Requests  *)
(* are sent, answered or lost, and settled in steps of their own; the app   *)
(* may be killed between any two.                                           *)
EXTENDS Naturals, FiniteSets

CONSTANTS
  Kinds,        \* the screens to look at, of "task", "ticket", "new"
  Calls,        \* requests that may be under way at once
  Photos,       \* photos that may be taken
  MinPhotos,    \* min_photos of the task's verification, if photo_required
  MaxPhotos,    \* how many the picker takes
  MaxVersions,  \* bound: changes of the item at the server
  MaxKills,     \* bound: how often the app is killed
  None          \* no token

ASSUME MobileAssumptions ==
  /\ Kinds \subseteq {"task", "ticket", "new"}
  /\ MinPhotos \in Nat /\ MaxPhotos \in Nat /\ MaxVersions \in Nat /\ MaxKills \in Nat
  /\ None \notin {"good", "stale"}
  /\ IsFiniteSet(Photos)

VARIABLES
  status,   \* of the session store
  access,   \* the access token in SecureStore, as the server would judge it
  grant,    \* the refresh token in SecureStore, likewise
  refresh,  \* refreshInFlight and what it carries
  login,    \* the login form's request
  logout,   \* signOut's request; "other" when a later sign-in replaced its session
  call,     \* the requests that carry the access token
  kind,     \* which screen
  open,     \* it is mounted
  shown,    \* the item as useFetch's data has it
  loading,  \* loading or refreshing
  busy,     \* an action of the screen is under way
  filled,   \* checklist ticked, note written, target picked
  item,     \* the item at the server
  list,     \* the photos state
  upload,   \* the uploads, each with the photos its callbacks closed over
  picker,   \* the camera is open, with the photos it was opened over
  kills     \* how often the app was killed

tokens == <<access, grant>>
auth == <<status, access, grant, refresh, login, logout>>
form == <<busy, filled>>
evidence == <<list, upload, picker>>
screen == <<kind, open, shown, loading, busy, filled>>
vars == <<status, access, grant, refresh, login, logout, call, kind, open, shown,
          loading, busy, filled, item, list, upload, picker, kills>>

-----------------------------------------------------------------------------
Statuses == {"none", "assigned", "in_progress", "delivered", "returned", "closed"}
Items == [status : Statuses, version : 0..MaxVersions]
NoItem == [status |-> "none", version |-> 0]

TokenStates == {None, "good", "stale"}
Acts == {"start", "deliver", "create"}

CallRecords ==
  [does : {"nothing", "me", "load"} \cup Acts,
   phase : {"idle", "first", "sent", "ok", "joined"},
   token : TokenStates, retried : BOOLEAN, current : BOOLEAN, item : Items]

NoCall ==
  [does |-> "nothing", phase |-> "idle", token |-> None, retried |-> FALSE,
   current |-> FALSE, item |-> NoItem]

Lists == [Photos -> {"absent", "uploading", "done", "error"}]
NoPhotos == [p \in Photos |-> "absent"]
Uploads == [phase : {"none", "sent", "ended"}, seen : Lists]
NoUpload == [phase |-> "none", seen |-> NoPhotos]
Closed == [on |-> FALSE, seen |-> NoPhotos]

TypeOK ==
  /\ status \in {"booting", "signedOut", "signedIn"}
  /\ access \in TokenStates /\ grant \in TokenStates
  /\ refresh \in {"none", "good", "stale", "renewed"}
  /\ login \in {"none", "sent", "granted"}
  /\ logout \in {"none", "sent", "other"}
  /\ call \in [Calls -> CallRecords]
  /\ kind \in {"task", "ticket", "new"}
  /\ open \in BOOLEAN /\ loading \in BOOLEAN /\ busy \in BOOLEAN /\ filled \in BOOLEAN
  /\ shown \in Items /\ item \in Items
  /\ list \in Lists
  /\ upload \in [Photos -> Uploads]
  /\ picker \in [on : BOOLEAN, seen : Lists]
  /\ kills \in 0..MaxKills

Idle(c) == call[c].phase = "idle"

\* What a screen holds when it is mounted.
Blank ==
  /\ shown' = NoItem /\ loading' = FALSE
  /\ busy' = FALSE /\ filled' = FALSE
  /\ list' = NoPhotos /\ upload' = [p \in Photos |-> NoUpload] /\ picker' = Closed

Init ==
  /\ status = "booting" /\ access = None /\ grant = None
  /\ refresh = "none" /\ login = "none" /\ logout = "none"
  /\ call = [c \in Calls |-> NoCall]
  /\ kind \in Kinds /\ open = FALSE
  /\ shown = NoItem /\ loading = FALSE /\ busy = FALSE /\ filled = FALSE
  /\ item = [NoItem EXCEPT !.status = IF kind = "new" THEN "none" ELSE "assigned"]
  /\ list = NoPhotos /\ upload = [p \in Photos |-> NoUpload] /\ picker = Closed
  /\ kills = 0

-----------------------------------------------------------------------------
(* apiFetch and the token refresh.                                          *)

\* A request as it leaves: with the token stored at that moment.
Sent(does, token, retried) ==
  [NoCall EXCEPT !.does = does, !.phase = "sent", !.token = token,
                 !.retried = retried, !.current = TRUE]

\* What is left to know of a request once it is answered.
Ended(r, phase) == [r EXCEPT !.phase = phase, !.token = None, !.retried = FALSE]

\* singleFlightRefresh: start the refresh, or join the one under way.  Without
\* a refresh token it fails like one that carries a revoked token, but at once.
Joined == IF refresh # "none" THEN refresh ELSE IF grant = "good" THEN "good" ELSE "stale"

\* The server refuses the token, and will refuse it whenever it is asked.
Unauthorized(c) == call[c].phase = "sent" /\ call[c].token # "good"

\* A first 401 asks for the refresh.
Join(c) ==
  /\ Unauthorized(c) /\ ~call[c].retried
  /\ refresh' = Joined
  /\ call' = [call EXCEPT ![c] = Ended(@, "joined")]
  /\ UNCHANGED <<status, tokens, login, logout, screen, item, evidence, kills>>

AnswerRefresh ==
  /\ refresh = "good"
  /\ refresh' = "renewed"
  /\ UNCHANGED <<status, tokens, login, logout, call, screen, item, evidence, kills>>

\* Mutant: only one of those who waited goes on.
RefreshSucceedsOne ==
  /\ refresh = "renewed"
  /\ refresh' = "none" /\ access' = "good"
  /\ \E d \in Calls :
       call' = [call EXCEPT ![d] = IF @.phase \in {"joined", "first"}
                                   THEN [@ EXCEPT !.phase = "sent", !.token = "good"]
                                   ELSE @]
  /\ UNCHANGED <<status, grant, login, logout, screen, item, evidence, kills>>

\* The new token is stored, whatever has become of the session since, and all
\* who waited go on with it: the boot to its first request, the others to
\* their retry.
RefreshSucceeds ==
  /\ refresh = "renewed"
  /\ refresh' = "none" /\ access' = "good"
  /\ call' = [c \in Calls |->
                CASE call[c].phase = "joined" ->
                       [call[c] EXCEPT !.phase = "sent", !.token = "good", !.retried = TRUE]
                  [] call[c].phase = "first" ->
                       [call[c] EXCEPT !.phase = "sent", !.token = "good"]
                  [] OTHER -> call[c]]
  /\ UNCHANGED <<status, grant, login, logout, screen, item, evidence, kills>>

\* A request is lost, its answer is, it times out, the server refuses what it
\* asks, or the retry's token: an error like any other, nobody is signed out.
Failed(c) == call[c].phase \in {"sent", "ok"}

\* The screens behind the guard are gone; what still runs has nobody to tell.
Unmounted(calls) ==
  [c \in Calls |-> IF calls[c].does = "me" THEN calls[c] ELSE [calls[c] EXCEPT !.current = FALSE]]

\* expireSession: the tokens and the user go, and the guard leads to /login.
Expire ==
  /\ access' = None /\ grant' = None /\ status' = "signedOut"
  /\ open' = FALSE /\ Blank

\* Mutant: those who waited are not told.
RefreshFailsSilently ==
  /\ refresh # "none"
  /\ refresh' = "none"
  /\ call' = Unmounted(call)
  /\ Expire
  /\ UNCHANGED <<login, logout, kind, item, kills>>

\* The refresh is refused, lost or late: every request that waited for it fails
\* with a 401 and the session expires.
RefreshFails ==
  /\ refresh # "none"
  /\ refresh' = "none"
  /\ call' = Unmounted([c \in Calls |-> IF call[c].phase \in {"joined", "first"} THEN NoCall
                                        ELSE call[c]])
  /\ Expire
  /\ UNCHANGED <<login, logout, kind, item, kills>>

-----------------------------------------------------------------------------
(* The session store.                                                       *)

\* boot: with no token there is no session, with a refresh token alone one is
\* asked for first, and then the server is asked who this is.
Boot(c) ==
  /\ status = "booting" /\ \A d \in Calls : call[d].does # "me"
  /\ Idle(c)
  /\ IF access = None /\ grant = None
     THEN status' = "signedOut" /\ UNCHANGED <<refresh, call>>
     ELSE /\ UNCHANGED status
          /\ IF access = None
             THEN /\ refresh' = Joined
                  /\ call' = [call EXCEPT ![c] = [Sent("me", None, FALSE) EXCEPT !.phase = "first"]]
             ELSE /\ call' = [call EXCEPT ![c] = Sent("me", access, FALSE)]
                  /\ UNCHANGED refresh
  /\ UNCHANGED <<tokens, login, logout, screen, item, evidence, kills>>

Welcome(c) ==
  /\ call[c].does = "me" /\ call[c].phase = "ok"
  /\ call' = [call EXCEPT ![c] = NoCall]
  /\ status' = "signedIn"
  /\ UNCHANGED <<tokens, refresh, login, logout, screen, item, evidence, kills>>

\* Whatever the failure of the first request, the session is dropped.
TurnAway(c) ==
  /\ call[c].does = "me" /\ Failed(c)
  /\ call' = Unmounted([call EXCEPT ![c] = NoCall])
  /\ Expire
  /\ UNCHANGED <<refresh, login, logout, kind, item, kills>>

\* The login form submits one request at a time.
SubmitLogin ==
  /\ status = "signedOut" /\ login = "none"
  /\ login' = "sent"
  /\ UNCHANGED <<status, tokens, refresh, logout, call, screen, item, evidence, kills>>

AnswerLogin ==
  /\ login = "sent"
  /\ login' = "granted"
  /\ UNCHANGED <<status, tokens, refresh, logout, call, screen, item, evidence, kills>>

\* signIn: both tokens are stored, over whatever is there.
SettleLogin ==
  /\ login = "granted"
  /\ login' = "none" /\ status' = "signedIn"
  /\ access' = "good" /\ grant' = "good"
  /\ logout' = IF logout = "sent" THEN "other" ELSE logout
  /\ UNCHANGED <<refresh, call, screen, item, evidence, kills>>

FailLogin ==
  /\ login = "sent"
  /\ login' = "none"
  /\ UNCHANGED <<status, tokens, refresh, logout, call, screen, item, evidence, kills>>

\* signOut: the refresh token, if there is one, is sent for revocation and the
\* session goes on until the answer, or the lack of one.
Logout ==
  /\ status = "signedIn" /\ logout = "none"
  /\ logout' = "sent"
  /\ UNCHANGED <<status, tokens, refresh, login, call, screen, item, evidence, kills>>

\* What a revocation does to a token.
Revoked(token) == IF token = "good" THEN "stale" ELSE token

\* The request has ended, the token revoked or not; the tokens in store are
\* cleared, whoever's they are by now.
SettleLogout ==
  /\ logout \in {"sent", "other"}
  /\ logout' = "none"
  /\ refresh' \in {refresh, Revoked(refresh)}
  /\ call' = Unmounted(call)
  /\ Expire
  /\ UNCHANGED <<login, kind, item, kills>>

\* The server's clock: access tokens run out, and so does the refresh token,
\* or it is revoked, by a logout whose answer is still to come or elsewhere.
ExpireToken ==
  /\ access = "good" \/ \E c \in Calls : call[c].token = "good"
  /\ access' = Revoked(access)
  /\ call' = [c \in Calls |-> [call[c] EXCEPT !.token = Revoked(@)]]
  /\ UNCHANGED <<status, grant, refresh, login, logout, screen, item, evidence, kills>>

EndGrant ==
  /\ grant = "good" \/ refresh = "good"
  /\ grant' = Revoked(grant) /\ refresh' = Revoked(refresh)
  /\ UNCHANGED <<status, access, login, logout, call, screen, item, evidence, kills>>

\* The app is killed: only the stored tokens survive.  A sign-in caught while
\* it stores its two tokens leaves either behind.
Kill ==
  /\ kills < MaxKills
  /\ kills' = kills + 1
  /\ status' = "booting"
  /\ access' \in IF login = "granted" THEN {access, "good"} ELSE {access}
  /\ grant' \in IF login = "granted" THEN {grant, "good"} ELSE {grant}
  /\ refresh' = "none" /\ login' = "none" /\ logout' = "none"
  /\ call' = [c \in Calls |-> NoCall]
  /\ open' = FALSE /\ Blank
  /\ UNCHANGED <<kind, item>>

-----------------------------------------------------------------------------
(* The screen: useFetch and the actions.                                    *)

\* A run of useFetch in place of this request: the results of earlier runs
\* will not count.
Run(c) ==
  /\ call' = [[d \in Calls |-> IF call[d].does # "load" THEN call[d]
                               ELSE [call[d] EXCEPT !.current = FALSE]]
                EXCEPT ![c] = Sent("load", access, FALSE)]
  /\ loading' = TRUE

\* The layouts let a signed-in employee in; mounting fetches.
Open(c) ==
  /\ status = "signedIn" /\ ~open /\ Idle(c)
  /\ open' = TRUE
  /\ IF kind = "new" THEN UNCHANGED <<call, loading>> ELSE Run(c)
  /\ UNCHANGED <<auth, kind, shown, form, item, evidence, kills>>

Leave ==
  /\ open
  /\ open' = FALSE
  /\ Blank
  /\ call' = Unmounted(call)
  /\ UNCHANGED <<auth, kind, item, kills>>

\* Focus, retry, or a pull.
Fetch(c) ==
  /\ open /\ kind # "new" /\ Idle(c)
  /\ Run(c)
  /\ UNCHANGED <<auth, kind, open, shown, form, item, evidence, kills>>

\* Mutant: whatever arrives is shown.
SettleLoadAny(c) ==
  /\ call[c].does = "load" /\ call[c].phase = "ok"
  /\ IF open THEN shown' = call[c].item /\ loading' = FALSE
     ELSE UNCHANGED <<shown, loading>>
  /\ call' = [call EXCEPT ![c] = NoCall]
  /\ UNCHANGED <<auth, kind, open, form, item, evidence, kills>>

\* Only the latest run's result or error, and its end, count.
SettleLoad(c) ==
  /\ call[c].does = "load" /\ call[c].phase = "ok"
  /\ IF call[c].current THEN shown' = call[c].item /\ loading' = FALSE
     ELSE UNCHANGED <<shown, loading>>
  /\ call' = [call EXCEPT ![c] = NoCall]
  /\ UNCHANGED <<auth, kind, open, form, item, evidence, kills>>

\* Mutant: a superseded run switches the spinner off.
FailLoadAny(c) ==
  /\ call[c].does = "load" /\ Failed(c)
  /\ loading' = FALSE
  /\ call' = [call EXCEPT ![c] = NoCall]
  /\ UNCHANGED <<auth, kind, open, shown, form, item, evidence, kills>>

FailLoad(c) ==
  /\ call[c].does = "load" /\ Failed(c)
  /\ loading' = (loading /\ ~call[c].current)
  /\ call' = [call EXCEPT ![c] = NoCall]
  /\ UNCHANGED <<auth, kind, open, shown, form, item, evidence, kills>>

Startable == IF kind = "task" THEN {"assigned", "returned"} ELSE {"assigned"}

\* uploadedUrls: every photo of the list is uploaded.
UploadsReady == \A p \in Photos : list[p] \in {"absent", "done"}
Urls == {p \in Photos : list[p] = "done"}

\* A task wants its photos and its checklist, a ticket a note, a new one a
\* target, a type and the issue.
Ready ==
  /\ filled /\ UploadsReady
  /\ kind = "task" => Cardinality(Urls) \in MinPhotos..MaxPhotos

\* The buttons go by what is shown, and are off while an action is under way.
Act(c, does) ==
  /\ open /\ ~busy /\ Idle(c)
  /\ \/ does = "start" /\ kind # "new" /\ shown.status \in Startable
     \/ does = "deliver" /\ kind # "new" /\ shown.status = "in_progress" /\ Ready
     \/ does = "create" /\ kind = "new" /\ Ready
  /\ busy' = TRUE
  /\ call' = [call EXCEPT ![c] = Sent(does, access, FALSE)]
  /\ UNCHANGED <<auth, kind, open, shown, loading, filled, item, evidence, kills>>

\* act: done, read again.  A new ticket replaces the form by its own screen.
SettleAct(c) ==
  /\ call[c].does \in Acts /\ call[c].phase = "ok"
  /\ IF ~call[c].current
     THEN call' = [call EXCEPT ![c] = NoCall] /\ UNCHANGED <<screen, evidence>>
     ELSE /\ Run(c)
          /\ IF call[c].does # "create"
             THEN busy' = FALSE /\ UNCHANGED <<kind, open, shown, filled, evidence>>
             ELSE /\ kind' = "ticket" /\ shown' = NoItem
                  /\ busy' = FALSE /\ filled' = FALSE
                  /\ list' = NoPhotos /\ upload' = [p \in Photos |-> NoUpload]
                  /\ picker' = Closed
                  /\ UNCHANGED open
  /\ UNCHANGED <<auth, item, kills>>

\* The error is shown and the button is on again.
FailAct(c) ==
  /\ call[c].does \in Acts /\ Failed(c)
  /\ busy' = (busy /\ ~call[c].current)
  /\ call' = [call EXCEPT ![c] = NoCall]
  /\ UNCHANGED <<auth, kind, open, shown, loading, filled, item, evidence, kills>>

\* The checklist is ticked off, the note written; they stay when the work is
\* sent back and started again.
Fill ==
  /\ open /\ ~filled
  /\ kind = "new" \/ shown.status = "in_progress"
  /\ filled' = TRUE
  /\ UNCHANGED <<auth, call, kind, open, shown, loading, busy, item, evidence, kills>>

-----------------------------------------------------------------------------
(* The server.                                                              *)

Permitted(does) ==
  \/ does \in {"me", "load", "create"}
  \/ does = "start" /\ item.status \in Startable
  \/ does = "deliver" /\ item.status = "in_progress"

Effect(does) ==
  CASE does = "start" -> "in_progress"
    [] does = "deliver" -> "delivered"
    [] does = "create" -> "assigned"
    [] OTHER -> item.status

Serve(c) ==
  LET does == call[c].does IN
  /\ call[c].phase = "sent" /\ call[c].token = "good"
  /\ Permitted(does)
  /\ IF does \in Acts
     THEN /\ item.version < MaxVersions
          /\ item' = [status |-> Effect(does), version |-> item.version + 1]
          /\ call' = [call EXCEPT ![c] = Ended(@, "ok")]
     ELSE /\ UNCHANGED item
          /\ call' = [call EXCEPT ![c] = [Ended(@, "ok") EXCEPT
                       !.item = IF does = "load" THEN item ELSE NoItem]]
  /\ UNCHANGED <<auth, screen, evidence, kills>>

\* The office: work is sent back, or closed in any state.
Change(s) ==
  /\ item.status \notin {"none", "closed"} /\ item.version < MaxVersions
  /\ s = "returned" => item.status = "delivered"
  /\ item' = [status |-> s, version |-> item.version + 1]
  /\ UNCHANGED <<auth, call, screen, evidence, kills>>

-----------------------------------------------------------------------------
(* EvidencePicker.  Its callbacks write the list they closed over, changed.  *)

\* The picker is shown while the work is being done, and until it is full.
Picking == open /\ (kind = "new" \/ shown.status = "in_progress")

Taken(l) == {p \in Photos : l[p] # "absent"}

\* The camera opens over the list as it is.
OpenCamera ==
  /\ Picking /\ ~picker.on
  /\ Cardinality(Taken(list)) < MaxPhotos
  /\ picker' = [on |-> TRUE, seen |-> list]
  /\ UNCHANGED <<auth, call, screen, item, list, upload, kills>>

\* addAssets: as many as there was room for are added to that list, and each
\* upload starts with callbacks over it.
Pick(added) ==
  LET before == picker.seen IN
  /\ picker.on
  /\ \A p \in added : upload[p] = NoUpload /\ before[p] = "absent"
  /\ Cardinality(added) + Cardinality(Taken(before)) <= MaxPhotos
  /\ list' = IF added = {} THEN list
             ELSE [p \in Photos |-> IF p \in added THEN "uploading" ELSE before[p]]
  /\ upload' = [p \in Photos |-> IF p \in added THEN [phase |-> "sent", seen |-> before]
                                 ELSE upload[p]]
  /\ picker' = Closed
  /\ UNCHANGED <<auth, call, screen, item, kills>>

\* patch: one photo of a list changed, if it is in it.  The list a photo's
\* callbacks closed over is the one it was added to, in which it is not: no
\* photo ever shows as done or failed, and the Retry button never appears.
Patched(l, p, s) == IF l[p] = "absent" THEN l ELSE [l EXCEPT ![p] = s]

\* An upload reports how far it is.
Progress(p) ==
  /\ upload[p].phase = "sent"
  /\ list' = upload[p].seen
  /\ UNCHANGED <<auth, call, screen, item, upload, picker, kills>>

\* It is stored, or refused, or lost; a 401 is not retried.
SettleUpload(p) ==
  /\ upload[p].phase = "sent"
  /\ \E s \in {"done", "error"} : list' = Patched(upload[p].seen, p, s)
  /\ upload' = [upload EXCEPT ![p] = [NoUpload EXCEPT !.phase = "ended"]]
  /\ UNCHANGED <<auth, call, screen, item, picker, kills>>

RemovePhoto(p) ==
  /\ Picking /\ list[p] # "absent"
  /\ list' = [list EXCEPT ![p] = "absent"]
  /\ UNCHANGED <<auth, call, screen, item, upload, picker, kills>>

-----------------------------------------------------------------------------
Session ==
  \/ SubmitLogin \/ AnswerLogin \/ SettleLogin \/ FailLogin
  \/ Logout \/ SettleLogout
  \/ AnswerRefresh \/ RefreshSucceeds \/ RefreshFails
  \/ ExpireToken \/ EndGrant \/ Kill

Settle(c) ==
  \/ SettleLoad(c) \/ FailLoad(c) \/ SettleAct(c) \/ FailAct(c)
  \/ Welcome(c) \/ TurnAway(c)

Request(c) == Serve(c) \/ Join(c) \/ Settle(c)

Evidence ==
  \/ OpenCamera
  \/ \E added \in SUBSET Photos : Pick(added)
  \/ \E p \in Photos :
       Progress(p) \/ SettleUpload(p) \/ RemovePhoto(p)

Next ==
  \/ Session \/ Leave \/ Fill \/ Evidence
  \/ \E c \in Calls : Boot(c) \/ Request(c) \/ Open(c) \/ Fetch(c)
  \/ \E c \in Calls, does \in Acts : Act(c, does)
  \/ \E s \in {"returned", "closed"} : Change(s)

\* Every request is answered or times out (REQUEST_TIMEOUT_MS, xhr.timeout),
\* and what waits for it goes on.  Nothing is expected of the user.
Fairness ==
  /\ WF_vars(RefreshSucceeds \/ RefreshFails)
  /\ \A c \in Calls : WF_vars(Request(c))

Spec == Init /\ [][Next]_vars /\ Fairness

-----------------------------------------------------------------------------
(* Properties.                                                              *)

\* The refresh is shared: nobody starts a second one, and who joined goes on
\* when it lands (session.tsx singleFlightRefresh).
Shared == INSTANCE SingleFlight
            WITH Callers <- Calls, flight <- refresh # "none",
                 waiting <- {c \in Calls : call[c].phase \in {"joined", "first"}}
RefreshIsSingleFlight == Shared!Spec

\* Answers overtake each other, and still what a screen shows never goes back
\* to an older state of the item while it is mounted (useFetch's generation).
ShownNeverOlder ==
  [][open /\ open' /\ kind' = kind => shown'.version >= shown.version]_vars

\* The spinner and the locked button stand for a request that is under way,
\* whatever was superseded, joined a refresh, or lost its screen (useFetch's
\* finally, act's finally).
SpinnersHonest ==
  /\ loading <=> \E c \in Calls : call[c].does = "load" /\ call[c].current
  /\ busy <=> \E c \in Calls : call[c].does \in Acts /\ call[c].current

\* Every request ends, whatever it waits for: a token, a refresh another one
\* has started, or a retry (api.ts apiFetch, session.tsx).
RequestsEnd == \A c \in Calls : []<>Idle(c)

=============================================================================
