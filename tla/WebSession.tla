----------------------------- MODULE WebSession -----------------------------
(* The session of the web client in one browser tab: the stored tokens,    *)
(* the requests in flight, the shared token refresh after a 401, sign-in,  *)
(* logout, expiry and the restore after a reload.  JavaScript runs to        *)
(* completion: a step is what runs between two awaits.  A request is sent, *)
(* answered by the server (or lost) and settled in the tab, in three       *)
(* steps, so answers overtake one another.  One "read" stands for the nine *)
(* lists of loadWorkspace and for any request of the screens and the poll: *)
(* it is answered for the owner of its token.  Where the user is sent is   *)
(* the part of WebRoutes.                                                  *)
EXTENDS Naturals, FiniteSets

CONSTANTS
  Sessions,     \* the sign-ins that may happen; each is a session of the server
  Nobody,       \* no session
  Calls,        \* the requests that may be in flight at once
  MaxTokens,    \* bound: access tokens the server issues per session
  MaxReloads    \* bound: how often the page is loaded again

ASSUME SessionAssumptions ==
  /\ Nobody \notin Sessions
  /\ MaxTokens \in Nat \ {0}
  /\ MaxReloads \in Nat

VARIABLES
  access,    \* the access token in localStorage
  refresh,   \* the refresh token in localStorage: one per session
  user,      \* currentUser
  data,      \* whose rows the collections show
  call,      \* the requests of this tab
  exchange,  \* refreshInFlight
  granted,   \* at the server: sessions whose refresh token is good
  live,      \* at the server: access tokens that are accepted
  issued,    \* at the server: how many access tokens a session was given
  quiet,     \* history: nothing was in flight when any sign-in began
  reloads    \* how often the page was loaded again

tab == <<user, data>>
stored == <<access, refresh>>
server == <<granted, live, issued>>
history == <<quiet, reloads>>
vars == <<access, refresh, user, data, call, exchange,
          granted, live, issued, quiet, reloads>>

-----------------------------------------------------------------------------
(* Tokens, requests and the token exchange.                                *)

Tokens == [of : Sessions, n : 1..MaxTokens]
NoToken == [of |-> Nobody, n |-> 0]
TokenOrNone == Tokens \cup {NoToken}
SessionOrNone == Sessions \cup {Nobody}

Kinds == {"none", "me", "read", "login", "logout"}
Phases == {"idle", "sent", "ok", "refused", "lost", "waiting"}

\* A login names its session until it has failed, and only a request that
\* carries a token waits for a new one.
CallRecords ==
  {r \in [kind : Kinds, phase : Phases, token : TokenOrNone,
          session : SessionOrNone, retried : BOOLEAN] :
     /\ r.kind = "login" /\ r.phase \in {"sent", "ok"} => r.session \in Sessions
     /\ r.phase = "waiting" => r.kind \in {"me", "read"}}

NoCall ==
  [kind |-> "none", phase |-> "idle", token |-> NoToken, session |-> Nobody,
   retried |-> FALSE]

\* A request as apiFetch sends it: with the access token stored at that
\* moment, which login and logout do without.  "session" is what a login asks
\* for and what a logout revokes.
Sent(kind, token, session, retried) ==
  [kind |-> kind, phase |-> "sent", token |-> token, session |-> session,
   retried |-> retried]

Exchanges ==
  [grant : SessionOrNone, phase : {"none", "sent", "granted", "refused", "lost"},
   token : TokenOrNone]

NoExchange == [grant |-> Nobody, phase |-> "none", token |-> NoToken]

Idle(c) == call[c].phase = "idle"
Waiting(c) == call[c].phase = "waiting"

NothingInFlight == (\A c \in Calls : Idle(c)) /\ exchange = NoExchange

TypeOK ==
  /\ access \in TokenOrNone
  /\ refresh \in SessionOrNone
  /\ user \in SessionOrNone
  /\ data \in SessionOrNone
  /\ call \in [Calls -> CallRecords]
  /\ exchange \in Exchanges
  /\ granted \subseteq Sessions
  /\ live \subseteq Tokens
  /\ issued \in [Sessions -> 0..MaxTokens]
  /\ quiet \in BOOLEAN
  /\ reloads \in 0..MaxReloads

Init ==
  /\ access = NoToken /\ refresh = Nobody
  /\ user = Nobody /\ data = Nobody
  /\ call = [c \in Calls |-> NoCall]
  /\ exchange = NoExchange
  /\ granted = {} /\ live = {} /\ issued = [s \in Sessions |-> 0]
  /\ quiet = TRUE /\ reloads = 0

-----------------------------------------------------------------------------
(* What the user does.                                                     *)

\* A page load: everything of the tab is gone, the tokens are not.  With an
\* access token stored, bootstrap asks who it belongs to.
Reload(c) ==
  /\ reloads < MaxReloads
  /\ reloads' = reloads + 1
  /\ user' = Nobody /\ data' = Nobody
  /\ call' = [[d \in Calls |-> NoCall] EXCEPT
                ![c] = IF access = NoToken THEN NoCall
                       ELSE Sent("me", access, Nobody, FALSE)]
  /\ exchange' = NoExchange
  /\ UNCHANGED <<stored, server, quiet>>

\* The login form, or the signup form, which creates the account it signs in.
\* A form submits one request at a time while it is mounted; leaving and
\* reopening it allows another.
SubmitLogin(c, s) ==
  /\ user = Nobody
  /\ Idle(c)
  /\ issued[s] = 0
  /\ \A d \in Calls : call[d].kind = "login" => call[d].session # s
  /\ call' = [call EXCEPT ![c] = Sent("login", NoToken, s, FALSE)]
  /\ quiet' = (quiet /\ NothingInFlight)
  /\ UNCHANGED <<stored, user, data, exchange, server, reloads>>

\* Any request of a screen or of the poll.
StartRead(c) ==
  /\ user # Nobody
  /\ Idle(c)
  /\ call' = [call EXCEPT ![c] = Sent("read", access, Nobody, FALSE)]
  /\ UNCHANGED <<stored, tab, exchange, server, history>>

\* logout: the revocation is sent, the state is wiped at once, and the
\* tokens go only when the request has ended.
Logout(c) ==
  /\ user # Nobody
  /\ Idle(c)
  /\ call' = [call EXCEPT ![c] = Sent("logout", NoToken, refresh, FALSE)]
  /\ user' = Nobody /\ data' = Nobody
  /\ UNCHANGED <<stored, exchange, server, history>>

-----------------------------------------------------------------------------
(* The server.                                                             *)

\* The next access token of a session.
NextToken(s) == [of |-> s, n |-> issued[s] + 1]

Issue(s) ==
  /\ issued' = [issued EXCEPT ![s] = @ + 1]
  /\ live' = live \cup {NextToken(s)}

\* Credentials are accepted or not.
AnswerLogin(c) ==
  /\ call[c].kind = "login"
  /\ call[c].phase = "sent"
  /\ \/ /\ issued[call[c].session] = 0
        /\ Issue(call[c].session)
        /\ granted' = granted \cup {call[c].session}
        /\ call' = [call EXCEPT ![c].phase = "ok", ![c].token = NextToken(call[c].session)]
     \/ /\ call' = [call EXCEPT ![c].phase = "refused", ![c].session = Nobody]
        /\ UNCHANGED server
  /\ UNCHANGED <<stored, tab, exchange, history>>

\* Logout needs no access token and revokes the refresh token it is given;
\* access tokens are stateless and go on until they expire.
AnswerLogout(c) ==
  /\ call[c].kind = "logout"
  /\ call[c].phase = "sent"
  /\ granted' = granted \ {call[c].session}
  /\ call' = [call EXCEPT ![c].phase = "ok", ![c].session = Nobody]
  /\ UNCHANGED <<stored, tab, exchange, live, issued, history>>

\* Every other request is judged by its token.
AnswerCall(c) ==
  /\ call[c].kind \in {"me", "read"}
  /\ call[c].phase = "sent"
  /\ call' = [call EXCEPT ![c] = IF call[c].token \in live THEN [@ EXCEPT !.phase = "ok"]
                                 ELSE [@ EXCEPT !.phase = "refused", !.token = NoToken]]
  /\ UNCHANGED <<stored, tab, exchange, server, history>>

\* The request is lost or times out.  (To this tab an answer that is lost is
\* the same: what the server did on it, nobody holds.)
LoseCall(c) ==
  /\ call[c].phase = "sent"
  /\ call' = [call EXCEPT ![c] = [@ EXCEPT !.phase = "lost", !.token = NoToken,
                                          !.session = Nobody]]
  /\ UNCHANGED <<stored, tab, exchange, server, history>>

\* The refresh token is exchanged for a new access token and stays the same;
\* once MaxTokens are issued an exchange can only be lost.
AnswerExchange ==
  /\ exchange.phase = "sent"
  /\ \/ /\ exchange.grant \in granted
        /\ issued[exchange.grant] < MaxTokens
        /\ Issue(exchange.grant)
        /\ exchange' = [exchange EXCEPT !.phase = "granted", !.token = NextToken(exchange.grant)]
     \/ /\ exchange.grant \notin granted
        /\ exchange' = [exchange EXCEPT !.phase = "refused"]
        /\ UNCHANGED <<live, issued>>
  /\ UNCHANGED <<stored, tab, call, granted, history>>

LoseExchange ==
  /\ exchange.phase = "sent"
  /\ exchange' = [exchange EXCEPT !.phase = "lost"]
  /\ UNCHANGED <<stored, tab, call, server, history>>

ExpireToken(t) ==
  /\ t \in live
  /\ live' = live \ {t}
  /\ UNCHANGED <<stored, tab, call, exchange, granted, issued, history>>

\* The refresh token ends, or the account is deactivated.
EndGrant(s) ==
  /\ s \in granted
  /\ granted' = granted \ {s}
  /\ UNCHANGED <<stored, tab, call, exchange, live, issued, history>>

-----------------------------------------------------------------------------
(* How the tab goes on when a request ends.                                *)

\* The workspace load that signIn and bootstrap start, in place of the
\* request that has ended.
StartLoad(c, token) == [call EXCEPT ![c] = Sent("read", token, Nobody, FALSE)]

EndCall(c) == [call EXCEPT ![c] = NoCall]

\* Mutant: the refresh token of an earlier session is kept.
SettleLoginKeeping(c) ==
  /\ call[c].kind = "login"
  /\ call[c].phase = "ok"
  /\ access' = call[c].token
  /\ refresh' = IF refresh = Nobody THEN call[c].session ELSE refresh
  /\ user' = call[c].session
  /\ call' = StartLoad(c, call[c].token)
  /\ UNCHANGED <<data, exchange, server, history>>

\* storeSession and signIn.
SettleLogin(c) ==
  LET s == call[c].session IN
  /\ call[c].kind = "login"
  /\ call[c].phase = "ok"
  /\ access' = call[c].token
  /\ refresh' = s
  /\ user' = s
  /\ call' = StartLoad(c, call[c].token)
  /\ UNCHANGED <<data, exchange, server, history>>

\* Refused credentials or no answer: the form shows the error.
FailLogin(c) ==
  /\ call[c].kind = "login"
  /\ call[c].phase \in {"refused", "lost"}
  /\ call' = EndCall(c)
  /\ UNCHANGED <<stored, user, data, exchange, server, history>>

\* The finally of logout: the tokens go, whoever they belong to by now.
SettleLogout(c) ==
  /\ call[c].kind = "logout"
  /\ call[c].phase \in {"ok", "lost"}
  /\ access' = NoToken
  /\ refresh' = Nobody
  /\ call' = EndCall(c)
  /\ UNCHANGED <<tab, exchange, server, history>>

\* bootstrap goes on: the owner of the token is signed in again.
SettleMe(c) ==
  LET s == call[c].token.of IN
  /\ call[c].kind = "me"
  /\ call[c].phase = "ok"
  /\ user' = s
  /\ call' = StartLoad(c, access)
  /\ UNCHANGED <<stored, data, exchange, server, history>>

\* Rows arrive and are shown, whoever is signed in by now.
SettleRows(c) ==
  /\ call[c].kind = "read"
  /\ call[c].phase = "ok"
  /\ data' = call[c].token.of
  /\ call' = EndCall(c)
  /\ UNCHANGED <<stored, user, exchange, server, history>>

SettleLost(c) ==
  /\ call[c].kind \in {"me", "read"}
  /\ call[c].phase = "lost"
  /\ call' = EndCall(c)
  /\ UNCHANGED <<stored, tab, exchange, server, history>>

\* A 401 that may still be repaired: join the exchange in flight or start it.
JoinRefresh(c) ==
  /\ call[c].kind \in {"me", "read"}
  /\ call[c].phase = "refused"
  /\ ~call[c].retried
  /\ refresh # Nobody
  /\ call' = [call EXCEPT ![c].phase = "waiting"]
  /\ exchange' = IF exchange = NoExchange
                 THEN [grant |-> refresh, phase |-> "sent", token |-> NoToken]
                 ELSE exchange
  /\ UNCHANGED <<stored, tab, server, history>>

\* clearAuthToken, and the unauthorized handler: clearSessionState, /login.
EndSession ==
  /\ access' = NoToken /\ refresh' = Nobody
  /\ user' = Nobody /\ data' = Nobody

\* Mutant: whoever finds an exchange in flight gives up.
GiveUpImpatient(c) ==
  /\ call[c].kind \in {"me", "read"}
  /\ call[c].phase = "refused"
  /\ call[c].retried \/ refresh = Nobody \/ exchange # NoExchange
  /\ EndSession
  /\ call' = EndCall(c)
  /\ UNCHANGED <<exchange, server, history>>

\* A 401 that cannot be repaired.
GiveUp(c) ==
  /\ call[c].kind \in {"me", "read"}
  /\ call[c].phase = "refused"
  /\ call[c].retried \/ refresh = Nobody
  /\ EndSession
  /\ call' = EndCall(c)
  /\ UNCHANGED <<exchange, server, history>>

\* Mutant: only the request that started the exchange is tried again.
RefreshSucceedsOne ==
  /\ exchange.phase = "granted"
  /\ access' = exchange.token
  /\ exchange' = NoExchange
  /\ \E c \in Calls :
       /\ Waiting(c)
       /\ call' = [call EXCEPT ![c] = Sent(call[c].kind, exchange.token, Nobody, TRUE)]
  /\ UNCHANGED <<refresh, tab, server, history>>

\* The exchange ends with a token: it is stored, and everybody who waited
\* tries once more with it.
RefreshSucceeds ==
  /\ exchange.phase = "granted"
  /\ access' = exchange.token
  /\ exchange' = NoExchange
  /\ call' = [c \in Calls |->
                IF Waiting(c) THEN Sent(call[c].kind, exchange.token, Nobody, TRUE)
                ELSE call[c]]
  /\ UNCHANGED <<refresh, tab, server, history>>

\* Mutant: those who wait are not told.
RefreshFailsSilently ==
  /\ exchange.phase \in {"refused", "lost"}
  /\ exchange' = NoExchange
  /\ EndSession
  /\ UNCHANGED <<call, server, history>>

\* The exchange fails: everybody who waited gives up.
RefreshFails ==
  /\ exchange.phase \in {"refused", "lost"}
  /\ exchange' = NoExchange
  /\ call' = [c \in Calls |-> IF Waiting(c) THEN NoCall ELSE call[c]]
  /\ EndSession
  /\ UNCHANGED <<server, history>>

-----------------------------------------------------------------------------
Answer(c) == AnswerLogin(c) \/ AnswerLogout(c) \/ AnswerCall(c) \/ LoseCall(c)

Settle(c) ==
  \/ SettleLogin(c) \/ FailLogin(c) \/ SettleLogout(c) \/ SettleMe(c)
  \/ SettleRows(c) \/ SettleLost(c) \/ JoinRefresh(c) \/ GiveUp(c)

Exchange == AnswerExchange \/ LoseExchange \/ RefreshSucceeds \/ RefreshFails

Next ==
  \/ \E c \in Calls :
       \/ Reload(c) \/ StartRead(c) \/ Logout(c) \/ Answer(c) \/ Settle(c)
       \/ \E s \in Sessions : SubmitLogin(c, s)
  \/ Exchange
  \/ \E t \in Tokens : ExpireToken(t)
  \/ \E s \in Sessions : EndGrant(s)

\* Requests end (the client aborts them after 20 s, and the network ends the
\* exchange), and the tab handles what has ended.
Fairness ==
  /\ \A c \in Calls : WF_vars(Answer(c)) /\ WF_vars(Settle(c))
  /\ WF_vars(Exchange)

Spec == Init /\ [][Next]_vars /\ Fairness

-----------------------------------------------------------------------------
(* Properties.                                                             *)

\* As long as nothing was in flight whenever a user began to sign in, the
\* stored tokens are never those of another session: requests act for the
\* user on the screen (auth.ts storeSession, logout; client.ts
\* clearAuthToken).
OwnTokens ==
  user # Nobody /\ quiet => access.of \in {Nobody, user} /\ refresh \in {Nobody, user}

\* Requests wait for a token exchange exactly while one is in flight.
WaitersServed == (\E c \in Calls : Waiting(c)) <=> exchange # NoExchange

\* The token exchange is a single flight: 401s that meet one in flight join
\* it, and whatever comes of it all of them go on (client.ts refreshOnce).
Single == INSTANCE SingleFlight
            WITH Callers <- Calls, flight <- exchange # NoExchange,
                 waiting <- {c \in Calls : Waiting(c)}
ExchangeIsSingleFlight == Single!Spec

\* However requests and refreshes interleave, a user with a good refresh
\* token is thrown out only if the exchange is lost or the fresh token dies
\* before the retry arrives (client.ts apiFetch, 240-262).
KeptWhileGranted ==
  [][(quiet /\ user # Nobody /\ user' = Nobody /\ refresh # Nobody /\ refresh' = Nobody)
       => \/ user \notin granted
          \/ exchange.phase = "lost"
          \/ \E c \in Calls : call[c].retried /\ call[c].phase = "refused"]_vars

\* Every request ends: a 401 is retried once and no refresh is awaited for
\* ever (client.ts _retried, refreshOnce).
CallsEnd == \A c \in Calls : []<>Idle(c)

=============================================================================
