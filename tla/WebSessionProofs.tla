-------------------------- MODULE WebSessionProofs --------------------------
(* Proofs about WebSession for any number of sessions, requests, tokens and *)
(* reloads.                                                                 *)
EXTENDS WebSession, TLAPS

USE SessionAssumptions

LEMMA NoneTyped ==
  /\ NoToken \in TokenOrNone
  /\ NoToken.of = Nobody
  /\ NoCall \in CallRecords
  /\ NoExchange \in Exchanges
  /\ \A t \in Tokens : t.of \in Sessions /\ t # NoToken
BY DEF NoToken, NoCall, NoExchange, TokenOrNone, Tokens, CallRecords, Exchanges,
       Kinds, Phases, SessionOrNone

\* A request that is sent is a request record.
LEMMA SentTyped ==
  ASSUME NEW kind \in Kinds, NEW token \in TokenOrNone, NEW s \in SessionOrNone,
         NEW retried \in BOOLEAN, kind = "login" => s \in Sessions
  PROVE  Sent(kind, token, s, retried) \in CallRecords
BY DEF Sent, CallRecords, Phases

LEMMA NextTokenTyped ==
  ASSUME TypeOK, NEW s \in Sessions, issued[s] < MaxTokens
  PROVE  /\ NextToken(s) \in Tokens
         /\ NextToken(s).of = s
         /\ NextToken(s) \in TokenOrNone
<1>1. issued[s] \in 0..MaxTokens
  BY DEF TypeOK
<1>2. issued[s] + 1 \in 1..MaxTokens
  BY <1>1
<1>3. QED
  BY <1>2 DEF NextToken, Tokens, TokenOrNone

-----------------------------------------------------------------------------
(* Type correctness and waiting.                                            *)

\* What a well-typed request is made of.
LEMMA CallTyped ==
  ASSUME TypeOK, NEW c \in Calls
  PROVE  /\ call[c] \in CallRecords
         /\ call[c].kind \in Kinds /\ call[c].phase \in Phases
         /\ call[c].token \in TokenOrNone /\ call[c].session \in SessionOrNone
         /\ call[c].retried \in BOOLEAN
BY DEF TypeOK, CallRecords

\* Replacing one request by a request keeps the table well-typed.
LEMMA CallsTyped ==
  ASSUME TypeOK, NEW c \in Calls, NEW r \in CallRecords
  PROVE  [call EXCEPT ![c] = r] \in [Calls -> CallRecords]
BY DEF TypeOK

LEMMA TypeInit == Init => TypeOK
BY NoneTyped DEF Init, TypeOK, SessionOrNone

LEMMA TypeStep == TypeOK /\ [Next]_vars => TypeOK'
<1> SUFFICES ASSUME TypeOK, [Next]_vars PROVE TypeOK'
  OBVIOUS
<1> USE NoneTyped
<1>1. ASSUME NEW c \in Calls, Reload(c) PROVE TypeOK'
  <2>1. access \in TokenOrNone
    BY DEF TypeOK
  <2>2. Sent("me", access, Nobody, FALSE) \in CallRecords
    BY <2>1, SentTyped DEF Kinds, SessionOrNone
  <2>3. call' \in [Calls -> CallRecords]
    BY <1>1, <2>2 DEF Reload
  <2>4. reloads' \in 0..MaxReloads
    BY <1>1 DEF Reload, TypeOK
  <2>5. QED
    BY <1>1, <2>3, <2>4 DEF Reload, TypeOK, SessionOrNone, stored, server
<1>2. ASSUME NEW c \in Calls, NEW s \in Sessions, SubmitLogin(c, s) PROVE TypeOK'
  <2>1. Sent("login", NoToken, s, FALSE) \in CallRecords
    BY SentTyped DEF Kinds, SessionOrNone
  <2>2. call' \in [Calls -> CallRecords]
    BY <1>2, <2>1, CallsTyped DEF SubmitLogin
  <2>3. quiet' \in BOOLEAN
    BY <1>2 DEF SubmitLogin, NothingInFlight
  <2>4. QED
    BY <1>2, <2>2, <2>3 DEF SubmitLogin, TypeOK, stored, server
<1>3. ASSUME NEW c \in Calls, StartRead(c) PROVE TypeOK'
  <2>1. Sent("read", access, Nobody, FALSE) \in CallRecords
    BY SentTyped DEF Kinds, SessionOrNone, TypeOK
  <2>2. call' \in [Calls -> CallRecords]
    BY <1>3, <2>1, CallsTyped DEF StartRead
  <2>3. QED
    BY <1>3, <2>2 DEF StartRead, TypeOK, stored, tab, server, history
<1>4. ASSUME NEW c \in Calls, Logout(c) PROVE TypeOK'
  <2>1. Sent("logout", NoToken, refresh, FALSE) \in CallRecords
    BY SentTyped DEF Kinds, TypeOK
  <2>2. call' \in [Calls -> CallRecords]
    BY <1>4, <2>1, CallsTyped DEF Logout
  <2>3. QED
    BY <1>4, <2>2 DEF Logout, TypeOK, stored, server, history, SessionOrNone
<1>5. ASSUME NEW c \in Calls, Answer(c) PROVE TypeOK'
  <2>0. call[c] \in CallRecords /\ call[c].session \in SessionOrNone
    BY CallTyped
  <2>1. CASE AnswerLogin(c)
    <3>1. CASE call' = [call EXCEPT ![c].phase = "refused", ![c].session = Nobody]
               /\ UNCHANGED server
      <4>1. call' \in [Calls -> CallRecords]
        BY <2>0, <3>1 DEF TypeOK, CallRecords, Phases, SessionOrNone
      <4>2. QED
        BY <2>1, <3>1, <4>1 DEF AnswerLogin, TypeOK, stored, tab, server, history
    <3>2. CASE /\ issued[call[c].session] = 0
               /\ Issue(call[c].session)
               /\ granted' = granted \cup {call[c].session}
               /\ call' = [call EXCEPT ![c].phase = "ok", ![c].token = NextToken(call[c].session)]
      <4>1. call[c].session \in Sessions
        BY <2>1 DEF AnswerLogin, TypeOK, CallRecords
      <4>2. QED
        <5>1. NextToken(call[c].session) \in TokenOrNone /\ NextToken(call[c].session) \in Tokens
          BY <4>1, <3>2, NextTokenTyped
        <5>2. call' \in [Calls -> CallRecords]
          <6> DEFINE r == [call[c] EXCEPT !.phase = "ok", !.token = NextToken(call[c].session)]
          <6>1. r \in CallRecords
            BY <2>0, <4>1, <5>1 DEF CallRecords, Phases
          <6>2. call' = [call EXCEPT ![c] = r]
            BY <3>2 DEF TypeOK
          <6> HIDE DEF r
          <6>3. QED
            BY <6>1, <6>2, CallsTyped
        <5>3. issued' \in [Sessions -> 0..MaxTokens] /\ live' \subseteq Tokens
          BY <3>2, <4>1, <5>1 DEF Issue, TypeOK
        <5>4. QED
          BY <2>1, <3>2, <4>1, <5>2, <5>3 DEF AnswerLogin, TypeOK, stored, tab, history
    <3>3. QED
      BY <2>1, <3>1, <3>2 DEF AnswerLogin
  <2>2. CASE AnswerLogout(c)
    <3>1. call' \in [Calls -> CallRecords]
      BY <2>0, <2>2 DEF AnswerLogout, TypeOK, CallRecords, Phases, SessionOrNone
    <3>2. QED
      BY <2>2, <3>1 DEF AnswerLogout, TypeOK, stored, tab, history
  <2>3. CASE AnswerCall(c)
    <3>1. call' \in [Calls -> CallRecords]
      BY <2>0, <2>3 DEF AnswerCall, TypeOK, CallRecords, Phases
    <3>2. QED
      BY <2>3, <3>1 DEF AnswerCall, TypeOK, stored, tab, server, history
  <2>4. CASE LoseCall(c)
    <3>1. call' \in [Calls -> CallRecords]
      BY <2>0, <2>4 DEF LoseCall, TypeOK, CallRecords, Phases, SessionOrNone
    <3>2. QED
      BY <2>4, <3>1 DEF LoseCall, TypeOK, stored, tab, server, history
  <2>5. QED
    BY <1>5, <2>1, <2>2, <2>3, <2>4 DEF Answer
<1>6. ASSUME NEW c \in Calls, Settle(c) PROVE TypeOK'
  <2>0. /\ call[c] \in CallRecords /\ call[c].session \in SessionOrNone
        /\ call[c].token \in TokenOrNone /\ call[c].token.of \in SessionOrNone
    BY CallTyped, NoneTyped DEF TokenOrNone, SessionOrNone
  <2>1. EndCall(c) \in [Calls -> CallRecords]
    BY CallsTyped DEF EndCall
  <2>2. \A t \in TokenOrNone : StartLoad(c, t) \in [Calls -> CallRecords]
    BY SentTyped, CallsTyped DEF StartLoad, Kinds, SessionOrNone
  <2>3. CASE SettleLogin(c)
    BY <2>0, <2>2, <2>3 DEF SettleLogin, StartLoad, Sent, TypeOK, server, history
  <2>4. CASE FailLogin(c) \/ SettleLost(c)
    BY <2>1, <2>4 DEF FailLogin, SettleLost, EndCall, NoCall, TypeOK, stored, tab, server, history
  <2>5. CASE SettleLogout(c)
    BY <2>1, <2>5 DEF SettleLogout, EndCall, NoCall, TypeOK, tab, server, history, SessionOrNone
  <2>6. CASE SettleMe(c)
    BY <2>0, <2>2, <2>6 DEF SettleMe, StartLoad, Sent, TypeOK, stored, server, history
  <2>7. CASE SettleRows(c)
    BY <2>0, <2>1, <2>7 DEF SettleRows, EndCall, NoCall, TypeOK, stored, server, history
  <2>8. CASE JoinRefresh(c)
    <3>1. call' \in [Calls -> CallRecords]
      BY <2>0, <2>8 DEF JoinRefresh, TypeOK, CallRecords, Phases
    <3>2. exchange' \in Exchanges
      BY <2>8 DEF JoinRefresh, TypeOK, Exchanges
    <3>3. QED
      BY <2>8, <3>1, <3>2 DEF JoinRefresh, TypeOK, stored, tab, server, history
  <2>9. CASE GiveUp(c)
    BY <2>1, <2>9 DEF GiveUp, EndSession, EndCall, NoCall, TypeOK, server, history, SessionOrNone
  <2>10. QED
    BY <1>6, <2>3, <2>4, <2>5, <2>6, <2>7, <2>8, <2>9 DEF Settle
<1>7. ASSUME Exchange PROVE TypeOK'
  <2>1. CASE AnswerExchange
    <3>1. CASE /\ exchange.grant \in granted
               /\ issued[exchange.grant] < MaxTokens
               /\ Issue(exchange.grant)
               /\ exchange' = [exchange EXCEPT !.phase = "granted",
                                               !.token = NextToken(exchange.grant)]
      <4>1. exchange.grant \in Sessions
        BY <3>1 DEF TypeOK
      <4>2. NextToken(exchange.grant) \in Tokens /\ NextToken(exchange.grant) \in TokenOrNone
        BY <3>1, <4>1, NextTokenTyped
      <4>3. exchange' \in Exchanges
        BY <3>1, <4>2 DEF TypeOK, Exchanges
      <4>4. issued' \in [Sessions -> 0..MaxTokens] /\ live' \subseteq Tokens
        BY <3>1, <4>1, <4>2 DEF Issue, TypeOK
      <4>5. QED
        BY <2>1, <4>3, <4>4 DEF AnswerExchange, TypeOK, stored, tab, history
    <3>2. CASE /\ exchange' = [exchange EXCEPT !.phase = "refused"]
               /\ UNCHANGED <<live, issued>>
      BY <2>1, <3>2 DEF AnswerExchange, TypeOK, Exchanges, stored, tab, history
    <3>3. QED
      BY <2>1, <3>1, <3>2 DEF AnswerExchange
  <2>2. CASE LoseExchange
    BY <2>2 DEF LoseExchange, TypeOK, Exchanges, stored, tab, server, history
  <2>3. CASE RefreshSucceeds
    <3>1. exchange.token \in TokenOrNone
      BY DEF TypeOK, Exchanges
    <3>2. \A c \in Calls : Waiting(c) => call[c].kind # "login"
      BY CallTyped DEF Waiting, CallRecords
    <3>3. \A c \in Calls :
            Waiting(c) => Sent(call[c].kind, exchange.token, Nobody, TRUE) \in CallRecords
      BY <3>1, <3>2, SentTyped, CallTyped DEF SessionOrNone
    <3>4. call' \in [Calls -> CallRecords]
      BY <2>3, <3>3, CallTyped DEF RefreshSucceeds
    <3>5. QED
      BY <2>3, <3>1, <3>4
      DEF RefreshSucceeds, TypeOK, Sent, tab, server, history
  <2>4. CASE RefreshFails
    <3>1. call' \in [Calls -> CallRecords]
      BY <2>4, CallTyped DEF RefreshFails
    <3>2. QED
      BY <2>4, <3>1 DEF RefreshFails, EndSession, NoCall, TypeOK, server, history, SessionOrNone
  <2>5. QED
    BY <1>7, <2>1, <2>2, <2>3, <2>4 DEF Exchange
<1>8. ASSUME NEW t \in Tokens, ExpireToken(t) PROVE TypeOK'
  BY <1>8 DEF ExpireToken, TypeOK, stored, tab, history
<1>9. ASSUME NEW s \in Sessions, EndGrant(s) PROVE TypeOK'
  BY <1>9 DEF EndGrant, TypeOK, stored, tab, history
<1>10. CASE UNCHANGED vars
  BY <1>10 DEF vars, TypeOK
<1>11. QED
  BY <1>1, <1>2, <1>3, <1>4, <1>5, <1>6, <1>7, <1>8, <1>9, <1>10 DEF Next

\* Type correctness: what the tab and the server hold is always well formed
\* (client.ts, auth.ts, AppContext.tsx).
THEOREM TypeCorrect == Spec => []TypeOK
BY TypeInit, TypeStep, PTL DEF Spec

-----------------------------------------------------------------------------
(* Waiting for a token.  The exchange belongs to a session, and a request   *)
(* waits exactly while it is in flight.                                     *)

\* Inductive: who waits is served, and an exchange has somebody's grant.
WaitInv ==
  /\ TypeOK
  /\ WaitersServed
  /\ exchange # NoExchange => exchange.grant \in Sessions /\ exchange.phase # "none"

LEMMA WaitInit == Init => WaitInv
BY TypeInit DEF Init, WaitInv, WaitersServed, Waiting, NoCall

LEMMA WaitStep == WaitInv /\ [Next]_vars => WaitInv'
<1> SUFFICES ASSUME WaitInv, [Next]_vars PROVE WaitInv'
  OBVIOUS
<1> USE NoneTyped
<1>0. TypeOK /\ TypeOK' /\ \A c \in Calls : call[c] \in CallRecords
  BY TypeStep DEF WaitInv, TypeOK
<1>1. ASSUME NEW c \in Calls, Reload(c) PROVE WaitInv'
  BY <1>0, <1>1 DEF Reload, WaitInv, WaitersServed, Waiting, NoCall, Sent
<1>2. ASSUME NEW c \in Calls,
             \/ StartRead(c) \/ Logout(c) \/ \E s \in Sessions : SubmitLogin(c, s)
             \/ Answer(c)
             \/ SettleLogin(c) \/ FailLogin(c) \/ SettleLogout(c) \/ SettleMe(c)
             \/ SettleRows(c) \/ SettleLost(c) \/ GiveUp(c)
      PROVE  WaitInv'
  <2>1. ~Waiting(c) /\ UNCHANGED exchange
    BY <1>2
    DEF StartRead, Logout, SubmitLogin, Answer, AnswerLogin, AnswerLogout, AnswerCall,
        LoseCall, SettleLogin, FailLogin, SettleLogout, SettleMe, SettleRows, SettleLost,
        GiveUp, Idle, Waiting
  <2>2. ~Waiting(c)'
    <3>1. CASE \/ StartRead(c) \/ Logout(c) \/ \E s \in Sessions : SubmitLogin(c, s)
               \/ SettleLogin(c) \/ SettleMe(c)
      BY <1>0, <3>1
      DEF StartRead, Logout, SubmitLogin, SettleLogin, SettleMe, StartLoad, Sent, Waiting, TypeOK
    <3>2. CASE FailLogin(c) \/ SettleLogout(c) \/ SettleRows(c) \/ SettleLost(c) \/ GiveUp(c)
      BY <1>0, <3>2
      DEF FailLogin, SettleLogout, SettleRows, SettleLost, GiveUp, EndCall, NoCall, Waiting, TypeOK
    <3>3. CASE Answer(c)
      <4>1. CASE AnswerLogin(c)
        BY <1>0, <4>1 DEF AnswerLogin, Waiting, TypeOK, CallRecords
      <4>2. CASE AnswerLogout(c)
        BY <1>0, <4>2 DEF AnswerLogout, Waiting, TypeOK, CallRecords
      <4>3. CASE AnswerCall(c)
        BY <1>0, <4>3 DEF AnswerCall, Waiting, TypeOK, CallRecords
      <4>4. CASE LoseCall(c)
        BY <1>0, <4>4 DEF LoseCall, Waiting, TypeOK, CallRecords
      <4>5. QED
        BY <3>3, <4>1, <4>2, <4>3, <4>4 DEF Answer
    <3>4. QED
      BY <1>2, <3>1, <3>2, <3>3
  <2>3. \A d \in Calls \ {c} : call'[d] = call[d]
    BY <1>0, <1>2
    DEF StartRead, Logout, SubmitLogin, Answer, AnswerLogin, AnswerLogout, AnswerCall,
        LoseCall, SettleLogin, FailLogin, SettleLogout, SettleMe, SettleRows, SettleLost,
        GiveUp, StartLoad, EndCall, TypeOK
  <2>4. QED
    BY <1>0, <2>1, <2>2, <2>3 DEF WaitInv, WaitersServed, Waiting
<1>3. ASSUME NEW c \in Calls, JoinRefresh(c) PROVE WaitInv'
  <2>1. Waiting(c)'
    BY <1>0, <1>3 DEF JoinRefresh, Waiting, TypeOK, CallRecords
  <2>2. /\ exchange' # NoExchange
        /\ exchange'.grant \in Sessions /\ exchange'.phase # "none"
    BY <1>3 DEF JoinRefresh, WaitInv, NoExchange, TypeOK, SessionOrNone
  <2>3. QED
    BY <1>0, <2>1, <2>2 DEF WaitInv, WaitersServed
<1>4. CASE AnswerExchange \/ LoseExchange
  BY <1>0, <1>4
  DEF AnswerExchange, LoseExchange, WaitInv, WaitersServed, Waiting, NoExchange, TypeOK, Exchanges
<1>5. CASE RefreshSucceeds \/ RefreshFails
  <2>1. \A c \in Calls : ~Waiting(c)'
    BY <1>0, <1>5 DEF RefreshSucceeds, RefreshFails, Waiting, Sent, NoCall
  <2>2. QED
    BY <1>0, <1>5, <2>1 DEF RefreshSucceeds, RefreshFails, WaitInv, WaitersServed
<1>6. CASE \/ \E t \in Tokens : ExpireToken(t)
           \/ \E s \in Sessions : EndGrant(s)
           \/ UNCHANGED vars
  BY <1>0, <1>6 DEF ExpireToken, EndGrant, vars, stored, tab, history, WaitInv, WaitersServed, Waiting
<1>7. QED
  BY <1>1, <1>2, <1>3, <1>4, <1>5, <1>6 DEF Next, Settle, Exchange

LEMMA FlightStep == WaitInv /\ WaitInv' /\ [Next]_vars => [Single!Next]_(Single!vars)
<1> SUFFICES ASSUME WaitInv, WaitInv', [Next]_vars PROVE [Single!Next]_(Single!vars)
  OBVIOUS
<1> DEFINE W == {c \in Calls : Waiting(c)}
\* Whoever waits goes on waiting while an exchange is in flight.
<1>1. CASE exchange' # NoExchange
  <2>1. \A c \in Calls : Waiting(c) => Waiting(c)'
    <3>0. TypeOK /\ \A c \in Calls : call[c] \in CallRecords
      BY DEF WaitInv, TypeOK
    <3>1. ASSUME NEW d \in Calls, ~Waiting(d), \A c \in Calls \ {d} : call'[c] = call[c]
          PROVE  \A c \in Calls : Waiting(c) => Waiting(c)'
      BY <3>1 DEF Waiting
    <3>2. ASSUME NEW d \in Calls,
                 \/ StartRead(d) \/ Logout(d) \/ Answer(d) \/ Settle(d)
                 \/ \E s \in Sessions : SubmitLogin(d, s)
          PROVE  ~Waiting(d) /\ \A c \in Calls \ {d} : call'[c] = call[c]
      <4>1. ~Waiting(d)
        BY <3>2
        DEF StartRead, Logout, Answer, AnswerLogin, AnswerLogout, AnswerCall, LoseCall, Settle,
            SettleLogin, FailLogin, SettleLogout, SettleMe, SettleRows, SettleLost, JoinRefresh,
            GiveUp, SubmitLogin, Idle, Waiting
      <4>2. \A c \in Calls \ {d} : call'[c] = call[c]
        BY <3>0, <3>2
        DEF StartRead, Logout, Answer, AnswerLogin, AnswerLogout, AnswerCall, LoseCall, Settle,
            SettleLogin, FailLogin, SettleLogout, SettleMe, SettleRows, SettleLost, JoinRefresh,
            GiveUp, SubmitLogin, StartLoad, EndCall, TypeOK
      <4>3. QED
        BY <4>1, <4>2
    <3>3. CASE \/ AnswerExchange \/ LoseExchange \/ UNCHANGED vars
               \/ \E t \in Tokens : ExpireToken(t)
               \/ \E s \in Sessions : EndGrant(s)
      BY <3>3 DEF AnswerExchange, LoseExchange, ExpireToken, EndGrant, vars, Waiting
    <3>4. ~RefreshSucceeds /\ ~RefreshFails /\ \A c \in Calls : ~Reload(c)
      BY <1>1 DEF RefreshSucceeds, RefreshFails, Reload
    <3>5. QED
      BY <3>1, <3>2, <3>3, <3>4 DEF Next, Exchange
  <2>2. W \subseteq W' /\ W' \in SUBSET Calls
    BY <2>1
  <2>3. QED
    BY <1>1, <2>2 DEF Single!Next, Single!Ask
\* And nobody waits when none is.
<1>2. CASE exchange' = NoExchange
  <2>1. W' = {}
    BY <1>2 DEF WaitInv, WaitersServed
  <2>2. CASE exchange = NoExchange
    <3>1. W = {}
      BY <2>2 DEF WaitInv, WaitersServed
    <3>2. QED
      BY <1>2, <2>1, <2>2, <3>1 DEF Single!vars
  <2>3. CASE exchange # NoExchange
    BY <1>2, <2>1, <2>3 DEF Single!Next, Single!Land
  <2>4. QED
    BY <2>2, <2>3
<1>3. QED
  BY <1>1, <1>2

\* The token exchange implements the abstract single flight, for any number
\* of requests: no 401 starts a second exchange and none is left waiting
\* (client.ts refreshOnce).
THEOREM ExchangeImplementsSingleFlight == Spec => ExchangeIsSingleFlight
<1>1. Init => Single!Init
  BY DEF Init, Single!Init, Waiting, NoCall
<1>2. QED
  BY WaitInit, WaitStep, FlightStep, <1>1, PTL DEF Spec, ExchangeIsSingleFlight, Single!Spec

-----------------------------------------------------------------------------
(* Whose tokens these are.  While sign-ins are quiet, everything that can   *)
(* reach the stored tokens belongs to one session, and a login in flight is *)
(* alone.                                                                   *)

\* Everything of the tab belongs to x.
Own(x) ==
  /\ access.of \in {Nobody, x} /\ refresh \in {Nobody, x} /\ user \in {Nobody, x}
  /\ exchange.grant \in {Nobody, x} /\ exchange.token.of \in {Nobody, x}
  /\ \A c \in Calls : call[c].kind = "me" => call[c].token.of \in {Nobody, x}

\* A login in flight is the only thing in flight.
LoginAlone ==
  \A c \in Calls :
    call[c].kind = "login" =>
      /\ user = Nobody /\ exchange = NoExchange
      /\ \A d \in Calls \ {c} : Idle(d)
      /\ call[c].phase = "ok" => call[c].token.of = call[c].session

\* Nothing is called idle that is not.
IdleSound == \A c \in Calls : Idle(c) => call[c] = NoCall

\* An exchange is refused only when its grant has ended.
RefusedSound == exchange.phase = "refused" => exchange.grant \notin granted

\* Inductive: WaitInv, and while sign-ins are quiet one owner.
OwnInv ==
  /\ WaitInv
  /\ IdleSound
  /\ quiet => RefusedSound /\ LoginAlone /\ \E x \in SessionOrNone : Own(x)

LEMMA OwnInit == Init => OwnInv
<1> SUFFICES ASSUME Init PROVE OwnInv
  OBVIOUS
<1>1. Own(Nobody)
  BY NoneTyped DEF Init, Own, NoCall, NoExchange, NoToken
<1>2. LoginAlone /\ RefusedSound /\ IdleSound
  BY DEF Init, LoginAlone, RefusedSound, IdleSound, NoCall, NoExchange
<1>3. QED
  BY <1>1, <1>2, WaitInit DEF OwnInv, SessionOrNone

LEMMA OwnStep == OwnInv /\ [Next]_vars => OwnInv'
<1> SUFFICES ASSUME OwnInv, [Next]_vars PROVE OwnInv'
  OBVIOUS
<1> USE NoneTyped
<1>0. /\ WaitInv /\ WaitInv' /\ TypeOK /\ TypeOK' /\ IdleSound
      /\ \A c \in Calls : call[c] \in CallRecords
  BY WaitStep DEF OwnInv, WaitInv, TypeOK
<1> DEFINE Good == IdleSound /\ (quiet => RefusedSound /\ LoginAlone /\ \E x \in SessionOrNone : Own(x))
<1>a. Good
  BY DEF OwnInv
<1>b. SUFFICES Good'
  BY <1>0 DEF OwnInv
<1>1. ASSUME NEW c \in Calls, Reload(c) PROVE Good'
  <2>1. IdleSound'
    BY <1>0, <1>1 DEF Reload, IdleSound, Idle, Sent, NoCall
  <2>2. ASSUME NEW x \in SessionOrNone, Own(x) PROVE Own(x)'
    BY <1>0, <1>1, <2>2 DEF Reload, Own, NoCall, Sent, NoExchange, NoToken, stored
  <2>3. LoginAlone' /\ RefusedSound'
    BY <1>0, <1>1 DEF Reload, LoginAlone, RefusedSound, NoCall, Sent, NoExchange
  <2>4. QED
    BY <1>a, <1>1, <2>1, <2>2, <2>3 DEF Reload
<1>2. ASSUME NEW c \in Calls, NEW s \in Sessions, SubmitLogin(c, s) PROVE Good'
  <2>1. IdleSound'
    BY <1>0, <1>2 DEF SubmitLogin, IdleSound, Idle, Sent, NoCall, TypeOK
  <2>2. ASSUME NEW x \in SessionOrNone, Own(x) PROVE Own(x)'
    BY <1>0, <1>2, <2>2 DEF SubmitLogin, Own, Sent, stored, TypeOK
  <2>3. ASSUME NothingInFlight PROVE LoginAlone'
    <3>1. \A d \in Calls : call[d] = NoCall
      BY <1>0, <2>3 DEF NothingInFlight, IdleSound
    <3>2. \A d \in Calls \ {c} : call'[d] = NoCall
      BY <1>0, <1>2, <3>1 DEF SubmitLogin, TypeOK
    <3>3. call'[c].phase = "sent" /\ exchange' = NoExchange /\ user' = Nobody
      BY <1>0, <1>2, <2>3 DEF SubmitLogin, NothingInFlight, Sent, TypeOK
    <3>4. QED
      BY <3>2, <3>3 DEF LoginAlone, Idle, NoCall
  <2>4. RefusedSound => RefusedSound'
    BY <1>2 DEF SubmitLogin, RefusedSound, server
  <2>5. QED
    BY <1>a, <1>2, <2>1, <2>2, <2>3, <2>4 DEF SubmitLogin
<1>3. ASSUME NEW c \in Calls, StartRead(c) \/ Logout(c) PROVE Good'
  <2>1. IdleSound'
    BY <1>0, <1>3 DEF StartRead, Logout, IdleSound, Idle, Sent, NoCall, TypeOK
  <2>2. ASSUME NEW x \in SessionOrNone, Own(x) PROVE Own(x)'
    BY <1>0, <1>3, <2>2 DEF StartRead, Logout, Own, Sent, stored, tab, TypeOK
  <2>3. LoginAlone => LoginAlone'
    BY <1>0, <1>3 DEF StartRead, Logout, LoginAlone, Sent, TypeOK
  <2>4. RefusedSound => RefusedSound'
    <3>1. UNCHANGED <<exchange, granted>>
      BY <1>3 DEF StartRead, Logout, server
    <3>2. QED
      BY <3>1 DEF RefusedSound
  <2>5. UNCHANGED quiet
    BY <1>3 DEF StartRead, Logout, history
  <2>6. QED
    BY <1>a, <2>1, <2>2, <2>3, <2>4, <2>5
<1>4. ASSUME NEW c \in Calls, AnswerLogin(c) PROVE Good'
  <2>1. IdleSound'
    BY <1>0, <1>4 DEF AnswerLogin, IdleSound, Idle, NoCall, TypeOK, CallRecords
  <2>2. ASSUME NEW x \in SessionOrNone, Own(x) PROVE Own(x)'
    BY <1>0, <1>4, <2>2 DEF AnswerLogin, Own, stored, tab, TypeOK, CallRecords
  <2>3. LoginAlone => LoginAlone'
    BY <1>0, <1>4, NextTokenTyped
    DEF AnswerLogin, LoginAlone, NextToken, Idle, tab, TypeOK, CallRecords
  <2>4. LoginAlone => RefusedSound'
    BY <1>4 DEF AnswerLogin, LoginAlone, RefusedSound, NoExchange
  <2>5. QED
    BY <1>a, <1>4, <2>1, <2>2, <2>3, <2>4 DEF AnswerLogin, history
<1>5. ASSUME NEW c \in Calls, AnswerLogout(c) \/ AnswerCall(c) \/ LoseCall(c) PROVE Good'
  <2>1. /\ UNCHANGED <<access, refresh, user, exchange, quiet>>
        /\ granted' \subseteq granted
        /\ \A d \in Calls \ {c} : call'[d] = call[d]
        /\ call[c].phase = "sent"
    BY <1>0, <1>5
    DEF AnswerLogout, AnswerCall, LoseCall, stored, tab, server, history, TypeOK
  <2>2. /\ call'[c].kind = call[c].kind
        /\ call'[c].phase \in {"ok", "refused", "lost"}
        /\ call'[c].token.of \in {call[c].token.of, Nobody}
        /\ call[c].kind = "login" => call'[c].phase # "ok"
    <3>1. CASE AnswerLogout(c)
      BY <1>0, <3>1 DEF AnswerLogout, TypeOK, CallRecords
    <3>2. CASE AnswerCall(c)
      BY <1>0, <3>2 DEF AnswerCall, TypeOK, CallRecords
    <3>3. CASE LoseCall(c)
      BY <1>0, <3>3 DEF LoseCall, TypeOK, CallRecords
    <3>4. QED
      BY <1>5, <3>1, <3>2, <3>3
  <2>3. IdleSound'
    BY <1>0, <2>1, <2>2 DEF IdleSound, Idle
  <2>4. ASSUME NEW x \in SessionOrNone, Own(x) PROVE Own(x)'
    BY <2>1, <2>2, <2>4 DEF Own
  <2>5. LoginAlone => LoginAlone'
    BY <2>1, <2>2 DEF LoginAlone, Idle
  <2>6. RefusedSound => RefusedSound'
    BY <2>1 DEF RefusedSound
  <2>7. QED
    BY <1>a, <2>1, <2>3, <2>4, <2>5, <2>6
<1>6. ASSUME NEW c \in Calls, SettleLogin(c) PROVE Good'
  <2>1. IdleSound'
    BY <1>0, <1>6 DEF SettleLogin, StartLoad, Sent, IdleSound, Idle, NoCall, TypeOK
  <2>2. ASSUME quiet, NEW s, s = call[c].session PROVE Own(s)' /\ LoginAlone' /\ RefusedSound'
    <3>1. /\ LoginAlone /\ call[c].token.of = call[c].session /\ exchange = NoExchange
          /\ \A d \in Calls \ {c} : call[d] = NoCall
      BY <1>0, <1>a, <1>6, <2>2 DEF SettleLogin, LoginAlone, IdleSound
    <3>2. Own(s)'
      BY <1>0, <1>6, <2>2, <3>1
      DEF SettleLogin, Own, StartLoad, Sent, NoCall, NoExchange, NoToken, TypeOK
    <3>3. LoginAlone' /\ RefusedSound'
      BY <1>0, <1>6, <3>1
      DEF SettleLogin, LoginAlone, RefusedSound, StartLoad, Sent, NoCall, NoExchange, TypeOK
    <3>4. QED
      BY <3>2, <3>3
  <2>3. call[c].session \in SessionOrNone
    BY <1>0 DEF CallRecords
  <2>4. quiet => LoginAlone' /\ RefusedSound' /\ \E x \in SessionOrNone : Own(x)'
    BY <2>2, <2>3
  <2>5. QED
    BY <1>6, <2>1, <2>2, <2>4 DEF SettleLogin, history
<1>7. ASSUME NEW c \in Calls,
             FailLogin(c) \/ SettleLogout(c) \/ SettleRows(c) \/ SettleLost(c) \/ GiveUp(c)
      PROVE  Good'
  <2>1. IdleSound'
    BY <1>0, <1>7
    DEF FailLogin, SettleLogout, SettleRows, SettleLost, GiveUp, EndCall, IdleSound, Idle, TypeOK
  <2>2. ASSUME NEW x \in SessionOrNone, Own(x) PROVE Own(x)'
    BY <1>0, <1>7, <2>2
    DEF FailLogin, SettleLogout, SettleRows, SettleLost, GiveUp, EndSession, EndCall, NoCall,
        Own, stored, tab, TypeOK
  <2>3. LoginAlone => LoginAlone'
    BY <1>0, <1>7
    DEF FailLogin, SettleLogout, SettleRows, SettleLost, GiveUp, EndSession, EndCall, NoCall,
        LoginAlone, Idle, tab, TypeOK
  <2>4. RefusedSound => RefusedSound'
    BY <1>7
    DEF FailLogin, SettleLogout, SettleRows, SettleLost, GiveUp, RefusedSound, server
  <2>5. QED
    BY <1>a, <1>7, <2>1, <2>2, <2>3, <2>4
    DEF FailLogin, SettleLogout, SettleRows, SettleLost, GiveUp, history
<1>8. ASSUME NEW c \in Calls, SettleMe(c) PROVE Good'
  <2>1. IdleSound'
    BY <1>0, <1>8 DEF SettleMe, StartLoad, Sent, IdleSound, Idle, NoCall, TypeOK
  <2>2. ASSUME NEW x \in SessionOrNone, Own(x) PROVE Own(x)'
    BY <1>0, <1>8, <2>2 DEF SettleMe, StartLoad, Sent, Own, stored, TypeOK
  <2>3. LoginAlone => LoginAlone'
    BY <1>0, <1>8 DEF SettleMe, StartLoad, Sent, LoginAlone, Idle, TypeOK
  <2>4. RefusedSound => RefusedSound'
    BY <1>8 DEF SettleMe, RefusedSound, server
  <2>5. QED
    BY <1>a, <1>8, <2>1, <2>2, <2>3, <2>4 DEF SettleMe, history
<1>9. ASSUME NEW c \in Calls, JoinRefresh(c) PROVE Good'
  <2>1. IdleSound'
    BY <1>0, <1>9 DEF JoinRefresh, IdleSound, Idle, NoCall, TypeOK, CallRecords
  <2>2. ASSUME NEW x \in SessionOrNone, Own(x) PROVE Own(x)'
    BY <1>0, <1>9, <2>2 DEF JoinRefresh, Own, NoToken, stored, tab, TypeOK, CallRecords
  <2>3. LoginAlone => LoginAlone'
    BY <1>0, <1>9 DEF JoinRefresh, LoginAlone, Idle, tab, TypeOK, CallRecords
  <2>4. RefusedSound => RefusedSound'
    BY <1>9 DEF JoinRefresh, RefusedSound, server
  <2>5. QED
    BY <1>a, <1>9, <2>1, <2>2, <2>3, <2>4 DEF JoinRefresh, history
<1>10. CASE AnswerExchange
  <2>1. exchange # NoExchange /\ exchange.grant \in Sessions
    BY <1>0, <1>10 DEF AnswerExchange, NoExchange, WaitInv
  <2>2. ASSUME NEW x \in SessionOrNone, Own(x) PROVE Own(x)'
    <3>1. exchange'.grant = exchange.grant /\ UNCHANGED <<access, refresh, user, call>>
      BY <1>0, <1>10 DEF AnswerExchange, stored, tab, TypeOK, Exchanges
    <3>2. exchange'.token.of \in {exchange.token.of, exchange.grant}
      <4>1. CASE exchange' = [exchange EXCEPT !.phase = "granted",
                                             !.token = NextToken(exchange.grant)]
        BY <1>0, <4>1 DEF NextToken, TypeOK, Exchanges
      <4>2. CASE exchange' = [exchange EXCEPT !.phase = "refused"]
        BY <1>0, <4>2 DEF TypeOK, Exchanges
      <4>3. QED
        BY <1>10, <4>1, <4>2 DEF AnswerExchange
    <3>3. QED
      BY <2>2, <3>1, <3>2 DEF Own
  <2>3. LoginAlone => LoginAlone'
    BY <1>0, <1>10, <2>1 DEF AnswerExchange, LoginAlone, Idle, tab
  <2>4. RefusedSound'
    BY <1>0, <1>10 DEF AnswerExchange, RefusedSound, TypeOK, Exchanges
  <2>5. IdleSound'
    BY <1>0, <1>10 DEF AnswerExchange, IdleSound, Idle
  <2>6. QED
    BY <1>a, <1>10, <2>2, <2>3, <2>4, <2>5 DEF AnswerExchange, history
<1>11. CASE LoseExchange
  <2>1. ASSUME NEW x \in SessionOrNone, Own(x) PROVE Own(x)'
    BY <1>0, <1>11, <2>1 DEF LoseExchange, Own, stored, tab, TypeOK, Exchanges
  <2>2. LoginAlone => LoginAlone'
    BY <1>0, <1>11 DEF LoseExchange, LoginAlone, Idle, tab, NoExchange
  <2>3. RefusedSound' /\ IdleSound'
    BY <1>0, <1>11 DEF LoseExchange, RefusedSound, IdleSound, Idle, TypeOK, Exchanges
  <2>4. QED
    BY <1>a, <1>11, <2>1, <2>2, <2>3 DEF LoseExchange, history
<1>12. CASE RefreshSucceeds
  <2>1. \A c \in Calls : Waiting(c) => call[c].kind \in {"me", "read"}
    BY <1>0 DEF Waiting, CallRecords
  <2>2. ASSUME NEW x \in SessionOrNone, Own(x) PROVE Own(x)'
    BY <1>0, <1>12, <2>2 DEF RefreshSucceeds, Own, Sent, NoExchange, NoToken, tab
  <2>3. LoginAlone => LoginAlone'
    BY <1>0, <1>12, <2>1 DEF RefreshSucceeds, LoginAlone, Idle, Waiting, Sent, tab
  <2>4. RefusedSound' /\ IdleSound'
    BY <1>0, <1>12 DEF RefreshSucceeds, RefusedSound, IdleSound, Idle, Waiting, Sent, NoExchange
  <2>5. QED
    BY <1>a, <1>12, <2>2, <2>3, <2>4 DEF RefreshSucceeds, history
<1>13. CASE RefreshFails
  <2>1. ASSUME NEW x \in SessionOrNone, Own(x) PROVE Own(x)'
    BY <1>0, <1>13, <2>1 DEF RefreshFails, EndSession, Own, NoCall, NoExchange, NoToken
  <2>2. LoginAlone => LoginAlone'
    BY <1>0, <1>13 DEF RefreshFails, EndSession, LoginAlone, Idle, Waiting, NoCall
  <2>3. RefusedSound' /\ IdleSound'
    BY <1>0, <1>13 DEF RefreshFails, RefusedSound, IdleSound, Idle, Waiting, NoExchange
  <2>4. QED
    BY <1>a, <1>13, <2>1, <2>2, <2>3 DEF RefreshFails, history
<1>14. CASE \/ \E t \in Tokens : ExpireToken(t)
            \/ \E s \in Sessions : EndGrant(s)
            \/ UNCHANGED vars
  <2>1. /\ UNCHANGED <<access, refresh, user, call, exchange, quiet>>
        /\ granted' \subseteq granted
    BY <1>14 DEF ExpireToken, EndGrant, vars, stored, tab, history
  <2>2. ASSUME NEW x \in SessionOrNone, Own(x) PROVE Own(x)'
    BY <2>1, <2>2 DEF Own
  <2>3. (LoginAlone => LoginAlone') /\ (RefusedSound => RefusedSound') /\ IdleSound'
    BY <1>0, <2>1 DEF LoginAlone, RefusedSound, IdleSound, Idle
  <2>4. QED
    BY <1>a, <2>1, <2>2, <2>3
<1>15. QED
  BY <1>1, <1>2, <1>3, <1>4, <1>5, <1>6, <1>7, <1>8, <1>9, <1>10, <1>11, <1>12, <1>13, <1>14
  DEF Next, Answer, Settle, Exchange

\* Requests act for the user on the screen, for any number of sign-ins and
\* requests (auth.ts storeSession, logout; client.ts clearAuthToken).
THEOREM OwnTokensOnly == Spec => []OwnTokens
<1>1. OwnInv => OwnTokens
  <2> SUFFICES ASSUME OwnInv, user # Nobody, quiet
               PROVE  access.of \in {Nobody, user} /\ refresh \in {Nobody, user}
    BY DEF OwnTokens
  <2>1. PICK x \in SessionOrNone : Own(x)
    BY DEF OwnInv
  <2>2. QED
    BY <2>1 DEF Own
<1>2. QED
  BY OwnInit, OwnStep, <1>1, PTL DEF Spec

\* What ends a session: a refused or lost exchange, or a retry that is
\* refused again.
LEMMA SessionEnds ==
  ASSUME OwnInv, Next, quiet, user # Nobody, user' = Nobody,
         refresh # Nobody, refresh' = Nobody
  PROVE  \/ user \notin granted
         \/ exchange.phase = "lost"
         \/ \E c \in Calls : call[c].retried /\ call[c].phase = "refused"
<1>1. ASSUME NEW c \in Calls, GiveUp(c)
      PROVE  \E d \in Calls : call[d].retried /\ call[d].phase = "refused"
  BY <1>1 DEF GiveUp
<1>2. ASSUME RefreshFails, exchange.phase = "refused" PROVE user \notin granted
  <2>1. exchange # NoExchange
    BY <1>2 DEF NoExchange
  <2>2. exchange.grant \in Sessions /\ exchange.grant \notin granted
    BY <1>2, <2>1 DEF OwnInv, WaitInv, RefusedSound
  <2>3. PICK x \in SessionOrNone : Own(x)
    BY DEF OwnInv
  <2>4. user = exchange.grant
    BY <2>2, <2>3 DEF Own
  <2>5. QED
    BY <2>2, <2>4
<1>3. CASE \/ AnswerExchange \/ LoseExchange \/ RefreshSucceeds
           \/ \E t \in Tokens : ExpireToken(t)
           \/ \E s \in Sessions : EndGrant(s)
  BY <1>3 DEF AnswerExchange, LoseExchange, RefreshSucceeds, ExpireToken, EndGrant, tab
<1>4. ASSUME NEW c \in Calls,
             \/ Reload(c) \/ StartRead(c) \/ Logout(c) \/ Answer(c)
             \/ \E s \in Sessions : SubmitLogin(c, s)
      PROVE  FALSE
  <2>1. refresh' = refresh
    BY <1>4
    DEF Reload, StartRead, Logout, Answer, AnswerLogin, AnswerLogout, AnswerCall, LoseCall,
        SubmitLogin, stored
  <2>2. QED
    BY <2>1
<1>5. ASSUME NEW c \in Calls,
             \/ FailLogin(c) \/ SettleLogout(c) \/ SettleRows(c) \/ SettleLost(c)
             \/ JoinRefresh(c)
      PROVE  FALSE
  <2>1. user' = user
    BY <1>5 DEF FailLogin, SettleLogout, SettleRows, SettleLost, JoinRefresh, tab
  <2>2. QED
    BY <2>1
<1>6. ASSUME NEW c \in Calls, SettleLogin(c) \/ SettleMe(c) PROVE FALSE
  <2>1. SettleLogin(c) => call[c].session \in Sessions
    BY CallTyped DEF SettleLogin, OwnInv, WaitInv, CallRecords
  <2>2. refresh' # Nobody
    BY <1>6, <2>1 DEF SettleLogin, SettleMe, stored
  <2>3. QED
    BY <2>2
<1>7. CASE RefreshFails
  BY <1>2, <1>7 DEF RefreshFails
<1>8. QED
  BY <1>1, <1>3, <1>4, <1>5, <1>6, <1>7 DEF Next, Settle, Exchange

\* A user with a good refresh token keeps the session unless the exchange is
\* lost or the fresh token dies on the way, for any number of requests that
\* meet a 401 at once (client.ts apiFetch).
THEOREM SessionKept == Spec => KeptWhileGranted
<1>1. OwnInv /\ [Next]_vars =>
        [(quiet /\ user # Nobody /\ user' = Nobody /\ refresh # Nobody /\ refresh' = Nobody)
           => \/ user \notin granted
              \/ exchange.phase = "lost"
              \/ \E c \in Calls : call[c].retried /\ call[c].phase = "refused"]_vars
  BY SessionEnds DEF vars
<1>2. QED
  BY OwnInit, OwnStep, <1>1, PTL DEF Spec, KeptWhileGranted

=============================================================================
