-------------------------- MODULE MobileAppProofs ---------------------------
(* Proofs about MobileApp for any screens, photos and number of requests.   *)
EXTENDS MobileApp, TLAPS

USE MobileAssumptions

LEMMA RecordsTyped ==
  /\ NoItem \in Items
  /\ NoCall \in CallRecords
  /\ NoPhotos \in Lists
  /\ [p \in Photos |-> NoUpload] \in [Photos -> Uploads]
  /\ Closed \in [on : BOOLEAN, seen : Lists]
<1>1. NoItem \in Items
  BY DEF NoItem, Items, Statuses
<1>2. NoCall \in CallRecords
  BY <1>1 DEF NoCall, CallRecords, TokenStates
<1>3. NoPhotos \in Lists
  BY DEF NoPhotos, Lists
<1>4. QED
  BY <1>1, <1>2, <1>3 DEF NoUpload, Uploads, Closed

LEMMA SentTyped ==
  ASSUME NEW does \in {"me", "load"} \cup Acts, NEW token \in TokenStates,
         NEW retried \in BOOLEAN
  PROVE  /\ Sent(does, token, retried) \in CallRecords
         /\ Sent(does, token, retried).does = does
         /\ Sent(does, token, retried).phase = "sent"
         /\ Sent(does, token, retried).current
         /\ [Sent(does, token, retried) EXCEPT !.phase = "first"] \in CallRecords
BY RecordsTyped DEF Sent, NoCall, CallRecords

LEMMA EndedTyped ==
  ASSUME NEW r \in CallRecords, NEW phase \in {"joined", "ok"}
  PROVE  Ended(r, phase) \in CallRecords
BY DEF Ended, CallRecords, TokenStates

LEMMA UnmountedTyped ==
  ASSUME NEW calls \in [Calls -> CallRecords]
  PROVE  Unmounted(calls) \in [Calls -> CallRecords]
BY DEF Unmounted, CallRecords

\* A blank screen is a well-formed one.
LEMMA BlankTyped ==
  ASSUME Blank
  PROVE  /\ shown' \in Items /\ loading' = FALSE /\ busy' = FALSE /\ filled' = FALSE
         /\ list' \in Lists /\ upload' \in [Photos -> Uploads]
         /\ picker' \in [on : BOOLEAN, seen : Lists]
BY RecordsTyped DEF Blank

LEMMA ExpireTyped ==
  ASSUME Expire
  PROVE  /\ access' \in TokenStates /\ grant' \in TokenStates
         /\ status' = "signedOut" /\ open' = FALSE
BY DEF Expire, TokenStates

LEMMA RunTyped ==
  ASSUME TypeOK, NEW c \in Calls, Run(c)
  PROVE  call' \in [Calls -> CallRecords] /\ loading' = TRUE
<1>1. Sent("load", access, FALSE) \in CallRecords
  BY SentTyped DEF TypeOK
<1>2. \A d \in Calls : [call[d] EXCEPT !.current = FALSE] \in CallRecords
  BY DEF TypeOK, CallRecords
<1>3. QED
  BY <1>1, <1>2 DEF Run, TypeOK

LEMMA JoinedTyped == TypeOK => Joined \in {"good", "stale", "renewed"}
BY DEF TypeOK, Joined

LEMMA RevokedTyped ==
  /\ \A token \in TokenStates : Revoked(token) \in TokenStates
  /\ \A r \in {"none", "good", "stale", "renewed"} :
       /\ Revoked(r) \in {"none", "good", "stale", "renewed"}
       /\ Revoked(r) = "none" <=> r = "none"
BY DEF Revoked, TokenStates

LEMMA TypeInit == Init => TypeOK
<1> SUFFICES ASSUME Init PROVE TypeOK
  OBVIOUS
<1>1. item \in Items /\ shown \in Items
  BY RecordsTyped DEF Init, NoItem, Items, Statuses
<1>2. call \in [Calls -> CallRecords]
  BY RecordsTyped DEF Init
<1>3. access \in TokenStates /\ grant \in TokenStates
  BY DEF Init, TokenStates
<1>4. kind \in {"task", "ticket", "new"} /\ kills \in 0..MaxKills
  BY DEF Init
<1>5. /\ list \in Lists /\ upload \in [Photos -> Uploads]
      /\ picker \in [on : BOOLEAN, seen : Lists]
  BY RecordsTyped DEF Init
<1>6. QED
  BY <1>1, <1>2, <1>3, <1>4, <1>5 DEF Init, TypeOK

-----------------------------------------------------------------------------
(* Each group of steps keeps the types.                                     *)

LEMMA SessionTyped == TypeOK /\ Session => TypeOK'
<1> SUFFICES ASSUME TypeOK, Session PROVE TypeOK'
  OBVIOUS
<1> USE DEF tokens, screen, evidence
<1>0. call \in [Calls -> CallRecords]
  BY DEF TypeOK
<1>1. CASE SubmitLogin
  BY <1>1 DEF SubmitLogin, TypeOK
<1>2. CASE AnswerLogin
  BY <1>2 DEF AnswerLogin, TypeOK
<1>3. CASE SettleLogin
  BY <1>3 DEF SettleLogin, TypeOK, TokenStates
<1>4. CASE FailLogin
  BY <1>4 DEF FailLogin, TypeOK
<1>5. CASE Logout
  BY <1>5 DEF Logout, TypeOK
<1>6. CASE SettleLogout
  <2>1. Blank /\ Expire
    BY <1>6 DEF SettleLogout, Expire
  <2>2. refresh' \in {"none", "good", "stale", "renewed"}
    BY <1>6, RevokedTyped DEF SettleLogout, TypeOK
  <2>3. call' \in [Calls -> CallRecords]
    BY <1>0, <1>6, UnmountedTyped DEF SettleLogout
  <2>4. QED
    BY <1>6, <2>1, <2>2, <2>3, BlankTyped, ExpireTyped DEF SettleLogout, TypeOK
<1>7. CASE AnswerRefresh
  BY <1>7 DEF AnswerRefresh, TypeOK
<1>8. CASE RefreshSucceeds
  <2>1. \A c \in Calls :
          /\ [call[c] EXCEPT !.phase = "sent", !.token = "good", !.retried = TRUE] \in CallRecords
          /\ [call[c] EXCEPT !.phase = "sent", !.token = "good"] \in CallRecords
    BY <1>0 DEF CallRecords, TokenStates
  <2>2. call' \in [Calls -> CallRecords]
    BY <1>0, <1>8, <2>1 DEF RefreshSucceeds
  <2>3. QED
    <3>1. access' \in TokenStates /\ refresh' = "none"
      BY <1>8 DEF RefreshSucceeds, TokenStates
    <3>2. QED
      BY <1>8, <2>2, <3>1 DEF RefreshSucceeds, TypeOK
<1>9. CASE RefreshFails
  <2>1. Blank /\ Expire
    BY <1>9 DEF RefreshFails, Expire
  <2>2. [c \in Calls |-> IF call[c].phase \in {"joined", "first"} THEN NoCall ELSE call[c]]
          \in [Calls -> CallRecords]
    BY <1>0, RecordsTyped
  <2>3. call' \in [Calls -> CallRecords]
    BY <1>9, <2>2, UnmountedTyped DEF RefreshFails
  <2>4. QED
    BY <1>9, <2>1, <2>3, BlankTyped, ExpireTyped DEF RefreshFails, TypeOK
<1>10. CASE ExpireToken
  <2>1. \A c \in Calls : [call[c] EXCEPT !.token = Revoked(@)] \in CallRecords
    BY <1>0, RevokedTyped DEF CallRecords
  <2>2. QED
    BY <1>10, <2>1, RevokedTyped DEF ExpireToken, TypeOK
<1>11. CASE EndGrant
  BY <1>11, RevokedTyped DEF EndGrant, TypeOK
<1>12. CASE Kill
  <2>1. Blank
    BY <1>12 DEF Kill
  <2>2. access' \in TokenStates /\ grant' \in TokenStates
    BY <1>12 DEF Kill, TypeOK, TokenStates
  <2>3. kills' \in 0..MaxKills
    BY <1>12 DEF Kill, TypeOK
  <2>4. QED
    BY <1>12, <2>1, <2>2, <2>3, BlankTyped, RecordsTyped DEF Kill, TypeOK
<1>13. QED
  BY <1>1, <1>2, <1>3, <1>4, <1>5, <1>6, <1>7, <1>8, <1>9, <1>10, <1>11, <1>12 DEF Session

LEMMA RequestTyped ==
  ASSUME TypeOK, NEW c \in Calls, Request(c)
  PROVE  TypeOK'
<1> USE DEF tokens, auth, screen, form, evidence
<1>0. call \in [Calls -> CallRecords] /\ call[c] \in CallRecords /\ NoCall \in CallRecords
  BY RecordsTyped DEF TypeOK
<1>1. CASE Serve(c)
  <2>1. /\ Ended(call[c], "ok") \in CallRecords
        /\ \A i \in Items : [Ended(call[c], "ok") EXCEPT !.item = i] \in CallRecords
    BY <1>0, EndedTyped DEF CallRecords
  <2>2. CASE call[c].does \in Acts
    <3>1. item' \in Items
      BY <1>1, <2>2 DEF Serve, Effect, TypeOK, Items, Statuses, Acts
    <3>2. QED
      BY <1>0, <1>1, <2>1, <2>2, <3>1 DEF Serve, TypeOK
  <2>3. CASE call[c].does \notin Acts
    BY <1>0, <1>1, <2>1, <2>3, RecordsTyped DEF Serve, TypeOK
  <2>4. QED
    BY <2>2, <2>3
<1>2. CASE Join(c)
  BY <1>0, <1>2, EndedTyped, JoinedTyped DEF Join, TypeOK
<1>3. CASE SettleLoad(c)
  <2>1. call[c].item \in Items
    BY <1>0 DEF CallRecords
  <2>2. shown' \in Items /\ loading' \in BOOLEAN
    BY <1>3, <2>1 DEF SettleLoad, TypeOK
  <2>3. call' \in [Calls -> CallRecords]
    BY <1>0, <1>3 DEF SettleLoad
  <2>4. QED
    BY <1>3, <2>2, <2>3 DEF SettleLoad, TypeOK
<1>4. CASE FailLoad(c)
  BY <1>0, <1>4 DEF FailLoad, TypeOK
<1>5. CASE SettleAct(c)
  <2>1. CASE ~call[c].current
    BY <1>0, <1>5, <2>1 DEF SettleAct, TypeOK
  <2>2. CASE call[c].current
    <3>1. call' \in [Calls -> CallRecords] /\ loading' = TRUE
      BY <1>5, <2>2, RunTyped DEF SettleAct
    <3>2. QED
      BY <1>5, <2>2, <3>1, RecordsTyped DEF SettleAct, TypeOK
  <2>3. QED
    BY <2>1, <2>2
<1>6. CASE FailAct(c)
  BY <1>0, <1>6 DEF FailAct, TypeOK
<1>7. CASE Welcome(c)
  BY <1>0, <1>7 DEF Welcome, TypeOK
<1>8. CASE TurnAway(c)
  <2>1. Blank /\ Expire
    BY <1>8 DEF TurnAway, Expire
  <2>2. [call EXCEPT ![c] = NoCall] \in [Calls -> CallRecords]
    BY <1>0
  <2>3. call' \in [Calls -> CallRecords]
    BY <1>8, <2>2, UnmountedTyped DEF TurnAway
  <2>4. QED
    BY <1>8, <2>1, <2>3, BlankTyped, ExpireTyped DEF TurnAway, TypeOK
<1>9. QED
  BY <1>1, <1>2, <1>3, <1>4, <1>5, <1>6, <1>7, <1>8 DEF Request, Settle

LEMMA EvidenceTyped == TypeOK /\ Evidence => TypeOK'
<1> SUFFICES ASSUME TypeOK, Evidence PROVE TypeOK'
  OBVIOUS
<1> USE DEF auth, screen
<1>1. CASE OpenCamera
  BY <1>1 DEF OpenCamera, TypeOK
<1>2. ASSUME NEW added \in SUBSET Photos, Pick(added) PROVE TypeOK'
  BY <1>2, RecordsTyped DEF Pick, TypeOK, Lists, Uploads
<1>3. ASSUME NEW p \in Photos, Progress(p) PROVE TypeOK'
  BY <1>3 DEF Progress, TypeOK, Uploads
<1>4. ASSUME NEW p \in Photos, SettleUpload(p) PROVE TypeOK'
  <2>1. upload[p].seen \in Lists
    BY DEF TypeOK, Uploads
  <2>2. list' \in Lists
    BY <1>4, <2>1 DEF SettleUpload, Patched, Lists
  <2>3. [NoUpload EXCEPT !.phase = "ended"] \in Uploads
    BY RecordsTyped DEF NoUpload, Uploads
  <2>4. QED
    BY <1>4, <2>2, <2>3 DEF SettleUpload, TypeOK
<1>5. ASSUME NEW p \in Photos, RemovePhoto(p) PROVE TypeOK'
  BY <1>5 DEF RemovePhoto, TypeOK, Lists
<1>6. QED
  BY <1>1, <1>2, <1>3, <1>4, <1>5 DEF Evidence

LEMMA TypeStep == TypeOK /\ [Next]_vars => TypeOK'
<1> SUFFICES ASSUME TypeOK, [Next]_vars PROVE TypeOK'
  OBVIOUS
<1> USE DEF auth, screen, form, evidence, tokens
<1>1. CASE Session
  BY <1>1, SessionTyped
<1>2. CASE Leave
  <2>1. Blank /\ call \in [Calls -> CallRecords]
    BY <1>2 DEF Leave, TypeOK
  <2>2. QED
    BY <1>2, <2>1, BlankTyped, UnmountedTyped DEF Leave, TypeOK
<1>3. CASE Fill
  BY <1>3 DEF Fill, TypeOK
<1>4. CASE Evidence
  BY <1>4, EvidenceTyped
<1>5. ASSUME NEW c \in Calls, Boot(c) PROVE TypeOK'
  <2>1. /\ Sent("me", access, FALSE) \in CallRecords
        /\ [Sent("me", None, FALSE) EXCEPT !.phase = "first"] \in CallRecords
    BY SentTyped DEF TypeOK, TokenStates
  <2>2. QED
    <3>1. call' \in [Calls -> CallRecords]
      BY <1>5, <2>1 DEF Boot, TypeOK
    <3>2. /\ refresh' \in {"none", "good", "stale", "renewed"}
          /\ status' \in {"booting", "signedOut", "signedIn"}
      BY <1>5, JoinedTyped DEF Boot, TypeOK
    <3>3. QED
      BY <1>5, <3>1, <3>2 DEF Boot, TypeOK
<1>6. ASSUME NEW c \in Calls, Request(c) PROVE TypeOK'
  BY <1>6, RequestTyped
<1>7. ASSUME NEW c \in Calls, Open(c) \/ Fetch(c) PROVE TypeOK'
  <2>1. call' \in [Calls -> CallRecords] /\ loading' \in BOOLEAN
    <3>1. CASE Run(c)
      BY <3>1, RunTyped
    <3>2. CASE UNCHANGED <<call, loading>>
      BY <3>2 DEF TypeOK
    <3>3. QED
      BY <1>7, <3>1, <3>2 DEF Open, Fetch
  <2>2. open' \in BOOLEAN
    BY <1>7 DEF Open, Fetch, TypeOK
  <2>3. QED
    BY <1>7, <2>1, <2>2 DEF Open, Fetch, TypeOK
<1>8. ASSUME NEW c \in Calls, NEW does \in Acts, Act(c, does) PROVE TypeOK'
  <2>1. Sent(does, access, FALSE) \in CallRecords
    BY SentTyped DEF TypeOK
  <2>2. QED
    BY <1>8, <2>1 DEF Act, TypeOK
<1>9. ASSUME NEW s \in {"returned", "closed"}, Change(s) PROVE TypeOK'
  BY <1>9 DEF Change, TypeOK, Items, Statuses
<1>10. CASE UNCHANGED vars
  BY <1>10 DEF vars, TypeOK
<1>11. QED
  BY <1>1, <1>2, <1>3, <1>4, <1>5, <1>6, <1>7, <1>8, <1>9, <1>10 DEF Next

\* The session, the requests, the screen and its photos are always well
\* formed, for any number of requests and photos (Mobile_frontend).
THEOREM TypeCorrect == Spec => []TypeOK
BY TypeInit, TypeStep, PTL DEF Spec

-----------------------------------------------------------------------------
(* The refresh is a single flight.                                          *)

\* Inductive: a request waits only for a refresh that is under way.
Waits(c) == call[c].phase \in {"joined", "first"}
WaitInv == TypeOK /\ \A c \in Calls : Waits(c) => refresh # "none"

LEMMA WaitInit == Init => WaitInv /\ Shared!Init
<1> SUFFICES ASSUME Init PROVE WaitInv /\ Shared!Init
  OBVIOUS
<1>1. \A c \in Calls : ~Waits(c)
  BY DEF Init, Waits, NoCall
<1>2. QED
  BY <1>1, TypeInit DEF WaitInv, Shared!Init, Waits, Init

LEMMA WaitStep == WaitInv /\ [Next]_vars => WaitInv' /\ [Shared!Next]_(Shared!vars)
<1> SUFFICES ASSUME WaitInv, [Next]_vars
             PROVE  (\A c \in Calls : Waits(c)' => refresh' # "none") /\ [Shared!Next]_(Shared!vars)
  BY TypeStep DEF WaitInv
<1> DEFINE Goal == (\A c \in Calls : Waits(c)' => refresh' # "none")
                   /\ [Shared!Next]_(Shared!vars)
<1> USE DEF auth, tokens
<1>a. TypeOK /\ call \in [Calls -> CallRecords] /\ \A c \in Calls : Waits(c) => refresh # "none"
  BY DEF WaitInv, TypeOK
\* A step that leaves the refresh and who waits as they are.
<1>b. ASSUME UNCHANGED refresh, \A c \in Calls : Waits(c)' <=> Waits(c) PROVE Goal
  BY <1>a, <1>b DEF Shared!vars, Waits
\* A step with a refresh under way, after which nobody waits less.
<1>c. ASSUME refresh' # "none", \A c \in Calls : Waits(c) => Waits(c)' PROVE Goal
  <2>1. Shared!Ask
    BY <1>c DEF Shared!Ask, Waits
  <2>2. QED
    BY <1>c, <2>1 DEF Shared!Next
\* The refresh lands, or there was none, and nobody waits.
<1>d. ASSUME refresh' = "none", \A c \in Calls : ~Waits(c)' PROVE Goal
  <2>1. CASE refresh = "none"
    <3>1. \A c \in Calls : ~Waits(c)
      BY <1>a, <2>1
    <3>2. QED
      BY <1>d, <2>1, <3>1 DEF Shared!vars, Waits
  <2>2. CASE refresh # "none"
    <3>1. Shared!Land
      BY <1>d, <2>2 DEF Shared!Land, Waits
    <3>2. QED
      BY <1>d, <3>1 DEF Shared!Next
  <2>3. QED
    BY <2>1, <2>2
<1>1. CASE SubmitLogin \/ AnswerLogin \/ SettleLogin \/ FailLogin \/ Logout
  BY <1>1, <1>b DEF SubmitLogin, AnswerLogin, SettleLogin, FailLogin, Logout, Waits
<1>2. CASE SettleLogout
  <2>1. \A c \in Calls : Waits(c)' <=> Waits(c)
    BY <1>a, <1>2 DEF SettleLogout, Unmounted, Waits, CallRecords
  <2>2. CASE refresh = "none"
    BY <1>2, <1>b, <2>1, <2>2, RevokedTyped DEF SettleLogout
  <2>3. CASE refresh # "none"
    BY <1>2, <1>a, <1>c, <2>1, <2>3, RevokedTyped DEF SettleLogout, TypeOK
  <2>4. QED
    BY <2>2, <2>3
<1>3. CASE AnswerRefresh
  BY <1>3, <1>c DEF AnswerRefresh, Waits
<1>4. CASE RefreshSucceeds
  <2>1. \A c \in Calls : ~Waits(c)'
    BY <1>a, <1>4 DEF RefreshSucceeds, Waits, CallRecords
  <2>2. QED
    BY <1>4, <1>d, <2>1 DEF RefreshSucceeds
<1>5. CASE RefreshFails
  <2>1. \A c \in Calls : ~Waits(c)'
    BY <1>a, <1>5 DEF RefreshFails, Unmounted, Waits, CallRecords, NoCall
  <2>2. QED
    BY <1>5, <1>d, <2>1 DEF RefreshFails
<1>6. CASE ExpireToken
  <2>1. \A c \in Calls : Waits(c)' <=> Waits(c)
    BY <1>a, <1>6 DEF ExpireToken, Waits, CallRecords
  <2>2. QED
    BY <1>6, <1>b, <2>1 DEF ExpireToken
<1>7. CASE EndGrant
  <2>1. \A c \in Calls : Waits(c)' <=> Waits(c)
    BY <1>7 DEF EndGrant, Waits
  <2>2. CASE refresh = "none"
    BY <1>7, <1>b, <2>1, <2>2, RevokedTyped DEF EndGrant
  <2>3. CASE refresh # "none"
    BY <1>7, <1>a, <1>c, <2>1, <2>3, RevokedTyped DEF EndGrant, TypeOK
  <2>4. QED
    BY <2>2, <2>3
<1>8. CASE Kill
  BY <1>8, <1>d DEF Kill, Waits, NoCall
<1>9. CASE Leave
  <2>1. \A c \in Calls : Waits(c)' <=> Waits(c)
    BY <1>a, <1>9 DEF Leave, Unmounted, Waits, CallRecords
  <2>2. QED
    BY <1>9, <1>b, <2>1 DEF Leave
<1>10. CASE Fill
  BY <1>10, <1>b DEF Fill, Waits
<1>11. CASE Evidence
  <2>1. UNCHANGED <<call, refresh>>
    BY <1>11 DEF Evidence, OpenCamera, Pick, Progress, SettleUpload, RemovePhoto
  <2>2. QED
    BY <1>b, <2>1 DEF Waits
<1>12. ASSUME NEW c \in Calls, Boot(c) PROVE Goal
  <2>1. \A d \in Calls : Waits(d) => Waits(d)'
    BY <1>12, <1>a DEF Boot, Idle, Waits
  <2>2. CASE access = None /\ grant # None
    BY <1>12, <1>a, <1>c, <2>1, <2>2, JoinedTyped DEF Boot
  <2>3. CASE ~(access = None /\ grant # None)
    <3>0. Sent("me", access, FALSE).phase = "sent"
      BY <1>a, SentTyped DEF TypeOK
    <3>1. \A d \in Calls : Waits(d)' <=> Waits(d)
      BY <1>12, <1>a, <2>3, <3>0 DEF Boot, Idle, Waits
    <3>2. QED
      BY <1>12, <1>b, <2>3, <3>1 DEF Boot
  <2>4. QED
    BY <2>2, <2>3
<1>13. ASSUME NEW c \in Calls, Join(c) PROVE Goal
  <2>1. \A d \in Calls : Waits(d) => Waits(d)'
    BY <1>13, <1>a DEF Join, Unauthorized, Waits
  <2>2. refresh' # "none"
    BY <1>13, <1>a, JoinedTyped DEF Join
  <2>3. QED
    BY <1>c, <2>1, <2>2
<1>14. ASSUME NEW c \in Calls, Run(c), ~Waits(c), UNCHANGED refresh PROVE Goal
  <2>0. Sent("load", access, FALSE).phase = "sent"
    BY <1>a, SentTyped DEF TypeOK
  <2>1. ASSUME NEW d \in Calls PROVE Waits(d)' <=> Waits(d)
    <3>1. [call[d] EXCEPT !.current = FALSE].phase = call[d].phase
      BY <1>a DEF CallRecords
    <3>2. CASE d = c
      BY <1>14, <1>a, <2>0, <3>2 DEF Run, Waits
    <3>3. CASE d # c
      BY <1>14, <1>a, <3>1, <3>3 DEF Run, Waits
    <3>4. QED
      BY <3>2, <3>3
  <2>2. QED
    BY <1>14, <1>b, <2>1
<1>15. ASSUME NEW c \in Calls, Serve(c) PROVE Goal
  <2>1. ASSUME NEW d \in Calls PROVE Waits(d)' <=> Waits(d)
    <3>1. \A i : [Ended(call[c], "ok") EXCEPT !.item = i].phase = "ok"
      BY <1>a DEF Ended, CallRecords
    <3>2. Ended(call[c], "ok").phase = "ok" /\ call[c].phase = "sent"
      BY <1>a, <1>15 DEF Ended, CallRecords, Serve
    <3>3. CASE d = c
      BY <1>15, <1>a, <3>1, <3>2, <3>3 DEF Serve, Waits
    <3>4. CASE d # c
      BY <1>15, <1>a, <3>4 DEF Serve, Waits
    <3>5. QED
      BY <3>3, <3>4
  <2>2. QED
    BY <1>15, <1>b, <2>1 DEF Serve
<1>16. ASSUME NEW c \in Calls, SettleLoad(c) \/ FailLoad(c) \/ FailAct(c) \/ Welcome(c)
       PROVE  Goal
  <2>1. \A d \in Calls : Waits(d)' <=> Waits(d)
    BY <1>16, <1>a DEF SettleLoad, FailLoad, FailAct, Welcome, Failed, Waits, NoCall
  <2>2. QED
    BY <1>16, <1>b, <2>1 DEF SettleLoad, FailLoad, FailAct, Welcome
<1>17. ASSUME NEW c \in Calls, TurnAway(c) PROVE Goal
  <2>0. \A d \in Calls : call'[d].phase = [call EXCEPT ![c] = NoCall][d].phase
    BY <1>17, <1>a, RecordsTyped DEF TurnAway, Unmounted, CallRecords
  <2>1. \A d \in Calls : Waits(d)' <=> Waits(d)
    BY <1>17, <1>a, <2>0 DEF TurnAway, Failed, Waits, NoCall
  <2>2. QED
    BY <1>17, <1>b, <2>1 DEF TurnAway
<1>18. ASSUME NEW c \in Calls, SettleAct(c) PROVE Goal
  <2>0. ~Waits(c) /\ UNCHANGED refresh
    BY <1>18 DEF SettleAct, Waits
  <2>1. CASE call[c].current
    BY <1>18, <1>14, <2>0, <2>1 DEF SettleAct
  <2>2. CASE ~call[c].current
    <3>1. \A d \in Calls : Waits(d)' <=> Waits(d)
      BY <1>18, <1>a, <2>0, <2>2 DEF SettleAct, Waits, NoCall
    <3>2. QED
      BY <1>b, <2>0, <3>1
  <2>3. QED
    BY <2>1, <2>2
<1>19. ASSUME NEW c \in Calls, Open(c) \/ Fetch(c) PROVE Goal
  <2>0. ~Waits(c) /\ UNCHANGED refresh
    BY <1>19 DEF Open, Fetch, Idle, Waits
  <2>1. CASE Run(c)
    BY <1>14, <2>0, <2>1
  <2>2. CASE UNCHANGED call
    BY <1>b, <2>0, <2>2 DEF Waits
  <2>3. QED
    BY <1>19, <2>1, <2>2 DEF Open, Fetch
<1>20. ASSUME NEW c \in Calls, NEW does \in Acts, Act(c, does) PROVE Goal
  <2>0. Sent(does, access, FALSE).phase = "sent"
    BY <1>a, SentTyped DEF TypeOK
  <2>1. \A d \in Calls : Waits(d)' <=> Waits(d)
    BY <1>20, <1>a, <2>0 DEF Act, Idle, Waits
  <2>2. QED
    BY <1>20, <1>b, <2>1 DEF Act
<1>21. ASSUME NEW s \in {"returned", "closed"}, Change(s) PROVE Goal
  BY <1>21, <1>b DEF Change, Waits
<1>22. CASE UNCHANGED vars
  BY <1>22, <1>b DEF vars, Waits
<1>23. QED
  BY <1>1, <1>2, <1>3, <1>4, <1>5, <1>6, <1>7, <1>8, <1>9, <1>10, <1>11, <1>12, <1>13,
     <1>15, <1>16, <1>17, <1>18, <1>19, <1>20, <1>21, <1>22
  DEF Next, Session, Request, Settle

\* The app's token refresh is asked for, joined and ended as the abstract
\* single flight says, for any number of requests, across sign-outs and a
\* killed app (session.tsx singleFlightRefresh).
THEOREM RefreshImplementsSingleFlight == Spec => RefreshIsSingleFlight
<1>1. Init => WaitInv /\ Shared!Init
  BY WaitInit
<1>2. WaitInv /\ [Next]_vars => WaitInv' /\ [Shared!Next]_(Shared!vars)
  BY WaitStep
<1>3. QED
  BY <1>1, <1>2, PTL DEF Spec, RefreshIsSingleFlight, Shared!Spec

-----------------------------------------------------------------------------
(* What a screen shows.                                                     *)

Loads(c) == call[c].does = "load" /\ call[c].current
Acting(c) == call[c].does \in Acts /\ call[c].current

\* Inductive: a slot that is free drives no screen, one request at a time
\* does, and what it brings is at least as new as what is shown.
OneEach ==
  /\ \A c \in Calls : Idle(c) => ~Loads(c) /\ ~Acting(c)
  /\ \A c, d \in Calls : Loads(c) /\ Loads(d) => c = d
  /\ \A c, d \in Calls : Acting(c) /\ Acting(d) => c = d

Spinners == (loading <=> \E c \in Calls : Loads(c)) /\ (busy <=> \E c \in Calls : Acting(c))

Newer ==
  /\ shown.version <= item.version
  /\ \A c \in Calls : Loads(c) /\ call[c].phase = "ok" =>
       shown.version <= call[c].item.version /\ call[c].item.version <= item.version

ScreenInv == TypeOK /\ OneEach /\ Spinners /\ Newer

LEMMA ScreenInit == Init => ScreenInv
<1> SUFFICES ASSUME Init PROVE ScreenInv
  OBVIOUS
<1>1. \A c \in Calls : ~Loads(c) /\ ~Acting(c)
  BY DEF Init, Loads, Acting, NoCall
<1>2. shown.version <= item.version
  BY DEF Init, NoItem
<1>3. QED
  BY <1>1, <1>2, TypeInit DEF Init, ScreenInv, OneEach, Spinners, Newer

\* The requests drive the screen as before, or less, and so do its spinners.
LEMMA ScreenKept ==
  ASSUME ScreenInv, TypeOK',
         \A c \in Calls : (Loads(c)' <=> Loads(c)) /\ (Acting(c)' <=> Acting(c)),
         \A c \in Calls : Loads(c)' /\ call'[c].phase = "ok" =>
           \/ call'[c].item = item
           \/ call[c].phase = "ok" /\ call'[c].item = call[c].item,
         \A c \in Calls : Idle(c)' => Idle(c) \/ ~(Loads(c) \/ Acting(c)),
         UNCHANGED <<loading, busy, shown>>, item'.version >= item.version
  PROVE  ScreenInv'
<1>1. OneEach' /\ Spinners'
  BY DEF ScreenInv, OneEach, Spinners
<1>2. /\ shown.version \in Nat /\ item.version \in Nat /\ item'.version \in Nat
      /\ \A c \in Calls : call[c].item.version \in Nat /\ call'[c].item.version \in Nat
  BY DEF ScreenInv, TypeOK, Items, CallRecords
<1>3. shown'.version <= item'.version
  BY <1>2 DEF ScreenInv, Newer
<1>4. ASSUME NEW c \in Calls, Loads(c)', call'[c].phase = "ok"
      PROVE  shown'.version <= call'[c].item.version /\ call'[c].item.version <= item'.version
  <2>1. CASE call'[c].item = item
    BY <1>2, <2>1 DEF ScreenInv, Newer
  <2>2. CASE call[c].phase = "ok" /\ call'[c].item = call[c].item
    BY <1>2, <1>4, <2>2 DEF ScreenInv, Newer
  <2>3. QED
    BY <1>4, <2>1, <2>2
<1>5. QED
  BY <1>1, <1>3, <1>4 DEF ScreenInv, Newer

\* A screen that is left is driven by nobody.
LEMMA ScreenLeft ==
  ASSUME TypeOK', Blank, \A c \in Calls : ~Loads(c)' /\ ~Acting(c)'
  PROVE  ScreenInv'
<1>1. shown'.version = 0 /\ loading' = FALSE /\ busy' = FALSE
  BY DEF Blank, NoItem
<1>2. shown'.version <= item'.version
  BY <1>1 DEF TypeOK, Items
<1>3. QED
  BY <1>1, <1>2 DEF ScreenInv, OneEach, Spinners, Newer

LEMMA Undriven ==
  ASSUME NEW calls \in [Calls -> CallRecords], NEW c \in Calls,
         call' = Unmounted(calls)
  PROVE  ~Loads(c)' /\ ~Acting(c)'
BY DEF Unmounted, Loads, Acting, Acts, CallRecords

\* After a run has begun in a slot that drove no action, it alone drives the
\* screen's data; the actions are driven as before.
LEMMA RunDrives ==
  ASSUME TypeOK, NEW c \in Calls, Run(c)
  PROVE  /\ \A d \in Calls : Loads(d)' <=> d = c
         /\ \A d \in Calls : Acting(d)' <=> Acting(d) /\ d # c
         /\ \A d \in Calls : d # c => call'[d].phase = call[d].phase
         /\ call'[c].phase = "sent" /\ loading' = TRUE
<1>1. /\ Sent("load", access, FALSE).does = "load"
      /\ Sent("load", access, FALSE).phase = "sent"
      /\ Sent("load", access, FALSE).current
  BY SentTyped DEF TypeOK
<1>2. call'[c] = Sent("load", access, FALSE) /\ loading' = TRUE
  BY DEF Run
<1>3. ASSUME NEW d \in Calls, d # c
      PROVE  /\ ~Loads(d)' /\ (Acting(d)' <=> Acting(d))
             /\ call'[d].phase = call[d].phase
  <2>1. call'[d] = IF call[d].does # "load" THEN call[d] ELSE [call[d] EXCEPT !.current = FALSE]
    BY <1>3 DEF Run
  <2>2. call[d] \in CallRecords
    BY DEF TypeOK
  <2>3. QED
    BY <2>1, <2>2 DEF Loads, Acting, Acts, CallRecords
<1>4. QED
  BY <1>1, <1>2, <1>3 DEF Loads, Acting, Acts

\* The form of a new ticket is on screen while one is being created.
Creating(c) == Acting(c) /\ call[c].does = "create"
FormStays == \A c \in Calls : Creating(c) => kind = "new"

LEMMA FormInit == Init => FormStays
BY DEF Init, FormStays, Creating, Acting, NoCall

LEMMA FormStep == ScreenInv /\ FormStays /\ [Next]_vars => FormStays'
<1> SUFFICES ASSUME ScreenInv, FormStays, [Next]_vars PROVE FormStays'
  OBVIOUS
<1> USE DEF auth, tokens, screen, form, evidence
<1>a. TypeOK /\ call \in [Calls -> CallRecords] /\ NoCall \in CallRecords
  BY RecordsTyped DEF ScreenInv, TypeOK
<1>b. ASSUME UNCHANGED kind, \A c \in Calls : Creating(c)' => Creating(c) PROVE FormStays'
  BY <1>b DEF FormStays
<1>c. ASSUME NEW c \in Calls, UNCHANGED kind, \A d \in Calls : d # c => call'[d] = call[d],
             ~Creating(c)' \/ (call'[c].does = call[c].does /\ call'[c].current = call[c].current)
      PROVE FormStays'
  BY <1>b, <1>c DEF Creating, Acting
<1>d. ASSUME UNCHANGED kind, NEW calls \in [Calls -> CallRecords], call' = Unmounted(calls)
      PROVE FormStays'
  BY <1>d, Undriven DEF FormStays, Creating
<1>1. CASE UNCHANGED <<call, kind>>
  BY <1>1 DEF FormStays, Creating, Acting
<1>2. CASE SettleLogout \/ Leave
  BY <1>2, <1>a, <1>d DEF SettleLogout, Leave
<1>3. CASE RefreshFails
  <2>1. [c \in Calls |-> IF call[c].phase \in {"joined", "first"} THEN NoCall ELSE call[c]]
          \in [Calls -> CallRecords]
    BY <1>a
  <2>2. QED
    BY <1>3, <1>d, <2>1 DEF RefreshFails
<1>4. CASE Kill
  BY <1>4 DEF Kill, FormStays, Creating, Acting, NoCall
<1>5. CASE RefreshSucceeds \/ ExpireToken
  <2>1. ASSUME NEW c \in Calls
        PROVE  call'[c].does = call[c].does /\ call'[c].current = call[c].current
    <3>1. call[c] \in CallRecords
      BY <1>a
    <3>2. CASE RefreshSucceeds
      BY <3>1, <3>2 DEF RefreshSucceeds, CallRecords
    <3>3. CASE ExpireToken
      BY <3>1, <3>3 DEF ExpireToken, CallRecords
    <3>4. QED
      BY <1>5, <3>2, <3>3
  <2>2. UNCHANGED kind
    BY <1>5 DEF RefreshSucceeds, ExpireToken
  <2>3. QED
    BY <1>b, <2>1, <2>2 DEF Creating, Acting
<1>6. ASSUME NEW c \in Calls, Boot(c) PROVE FormStays'
  <2>0. access \in TokenStates /\ None \in TokenStates
    BY <1>a DEF TypeOK, TokenStates
  <2>1. /\ Sent("me", access, FALSE).does = "me"
        /\ Sent("me", None, FALSE) \in CallRecords /\ Sent("me", None, FALSE).does = "me"
    BY <2>0, SentTyped
  <2>2. [Sent("me", None, FALSE) EXCEPT !.phase = "first"].does = "me"
    BY <2>1 DEF CallRecords
  <2>3. CASE UNCHANGED call
    BY <1>1, <1>6, <2>3 DEF Boot
  <2>4. CASE call'[c].does = "me" /\ \A d \in Calls : d # c => call'[d] = call[d]
    BY <1>c, <1>6, <2>4 DEF Boot, Creating
  <2>5. QED
    BY <1>6, <1>a, <2>1, <2>2, <2>3, <2>4 DEF Boot
<1>7. ASSUME NEW c \in Calls, Join(c) \/ Serve(c) PROVE FormStays'
  <2>1. call[c] \in CallRecords /\ UNCHANGED kind
    BY <1>a, <1>7 DEF Join, Serve
  <2> DEFINE E == Ended(call[c], "ok")
  <2>2. E.does = call[c].does /\ E.current = call[c].current /\ E \in CallRecords
    BY <2>1, EndedTyped DEF Ended, CallRecords
  <2> HIDE DEF E
  <2>3. \A i : [E EXCEPT !.item = i].does = E.does /\ [E EXCEPT !.item = i].current = E.current
    BY <2>2 DEF CallRecords
  <2>4. CASE Join(c)
    BY <1>a, <1>c, <2>1, <2>4 DEF Join, Ended, CallRecords
  <2>5. CASE Serve(c) /\ call[c].does \in Acts
    <3>1. call' = [call EXCEPT ![c] = E]
      BY <2>5 DEF Serve, E, Acts
    <3>2. QED
      BY <1>a, <1>c, <2>1, <2>2, <3>1
  <2>6. CASE Serve(c) /\ call[c].does \notin Acts
    <3>1. call' = [call EXCEPT ![c] =
                    [E EXCEPT !.item = IF call[c].does = "load" THEN item ELSE NoItem]]
      BY <2>6 DEF Serve, E
    <3>2. QED
      BY <1>a, <1>c, <2>1, <2>2, <2>3, <3>1
  <2>7. QED
    BY <1>7, <2>4, <2>5, <2>6
<1>8. ASSUME NEW c \in Calls, call' = [call EXCEPT ![c] = NoCall], UNCHANGED kind
      PROVE FormStays'
  <2>1. ~Creating(c)' /\ \A d \in Calls : d # c => call'[d] = call[d]
    BY <1>a, <1>8 DEF Creating, NoCall
  <2>2. QED
    BY <1>8, <1>c, <2>1
<1>9. ASSUME NEW c \in Calls, SettleLoad(c) \/ FailLoad(c) \/ FailAct(c) \/ Welcome(c)
      PROVE FormStays'
  BY <1>8, <1>9 DEF SettleLoad, FailLoad, FailAct, Welcome
<1>10. ASSUME NEW c \in Calls, TurnAway(c) PROVE FormStays'
  <2>1. [call EXCEPT ![c] = NoCall] \in [Calls -> CallRecords]
    BY <1>a
  <2>2. QED
    BY <1>10, <1>d, <2>1 DEF TurnAway
\* A run begins: what acted goes on acting.
<1>11. ASSUME NEW c \in Calls, Run(c)
       PROVE  ~Creating(c)' /\ \A d \in Calls : Creating(d)' => Creating(d)
  <2>1. ~Acting(c)' /\ \A d \in Calls : Acting(d)' => Acting(d) /\ d # c
    BY <1>a, <1>11, RunDrives
  <2>2. ASSUME NEW d \in Calls, d # c PROVE call'[d].does = call[d].does
    <3>1. call'[d] = IF call[d].does # "load" THEN call[d] ELSE [call[d] EXCEPT !.current = FALSE]
      BY <1>11, <2>2 DEF Run
    <3>2. call[d] \in CallRecords
      BY <1>a
    <3>3. QED
      BY <3>1, <3>2 DEF CallRecords
  <2>3. QED
    BY <2>1, <2>2 DEF Creating
<1>12. ASSUME NEW c \in Calls, SettleAct(c) PROVE FormStays'
  <2>1. CASE ~call[c].current
    BY <1>8, <1>12, <2>1 DEF SettleAct
  <2>2. CASE call[c].current
    <3>1. Run(c) /\ (call[c].does # "create" => UNCHANGED kind)
      BY <1>12, <2>2 DEF SettleAct
    <3>2. Acting(c)
      BY <1>12, <2>2 DEF SettleAct, Acting
    <3>3. \A d \in Calls : ~Creating(d)'
      BY <1>11, <3>1, <3>2 DEF ScreenInv, OneEach, Creating
    <3>4. QED
      BY <3>3 DEF FormStays
  <2>3. QED
    BY <2>1, <2>2
<1>13. ASSUME NEW c \in Calls, Open(c) \/ Fetch(c) PROVE FormStays'
  <2>1. CASE Run(c)
    BY <1>11, <1>13, <1>b, <2>1 DEF Open, Fetch
  <2>2. CASE UNCHANGED call
    BY <1>1, <1>13, <2>2 DEF Open, Fetch
  <2>3. QED
    BY <1>13, <2>1, <2>2 DEF Open, Fetch
<1>14. ASSUME NEW c \in Calls, NEW does \in Acts, Act(c, does) PROVE FormStays'
  <2>1. access \in TokenStates
    BY <1>a DEF TypeOK
  <2>2. call'[c].does = does /\ \A d \in Calls : d # c => call'[d] = call[d]
    BY <1>a, <1>14, <2>1, SentTyped DEF Act
  <2>3. does = "create" => kind = "new"
    BY <1>14 DEF Act
  <2>4. UNCHANGED kind
    BY <1>14 DEF Act
  <2>5. QED
    BY <2>2, <2>3, <2>4 DEF FormStays, Creating, Acting
<1>15. QED
  <2>1. CASE \/ SubmitLogin \/ AnswerLogin \/ SettleLogin \/ FailLogin \/ Logout
             \/ AnswerRefresh \/ EndGrant \/ Fill \/ UNCHANGED vars
    BY <1>1, <2>1 DEF SubmitLogin, AnswerLogin, SettleLogin, FailLogin, Logout,
       AnswerRefresh, EndGrant, Fill, vars
  <2>2. CASE Evidence
    BY <1>1, <2>2 DEF Evidence, OpenCamera, Pick, Progress, SettleUpload, RemovePhoto
  <2>3. ASSUME NEW s \in {"returned", "closed"}, Change(s) PROVE FormStays'
    BY <1>1, <2>3 DEF Change
  <2>4. QED
    BY <1>2, <1>3, <1>4, <1>5, <1>6, <1>7, <1>9, <1>10, <1>12, <1>13, <1>14,
       <2>1, <2>2, <2>3
    DEF Next, Session, Request, Settle

LEMMA ScreenStep ==
  ScreenInv /\ FormStays /\ [Next]_vars =>
    ScreenInv' /\ (open /\ open' /\ kind' = kind => shown'.version >= shown.version)
<1> SUFFICES ASSUME ScreenInv, FormStays, [Next]_vars
             PROVE  ScreenInv' /\ (open /\ open' /\ kind' = kind => shown'.version >= shown.version)
  OBVIOUS
<1> DEFINE Goal == ScreenInv' /\ (open /\ open' /\ kind' = kind => shown'.version >= shown.version)
<1> USE DEF auth, tokens, screen, form, evidence
<1>a. TypeOK /\ TypeOK' /\ call \in [Calls -> CallRecords] /\ NoCall \in CallRecords
  BY TypeStep, RecordsTyped DEF ScreenInv, TypeOK
<1>b. shown.version \in Nat /\ item.version \in Nat
  BY <1>a DEF TypeOK, Items
<1>c. ASSUME ScreenInv', UNCHANGED shown PROVE Goal
  BY <1>b, <1>c
<1>d. ASSUME UNCHANGED <<call, loading, busy, shown>>, item'.version >= item.version PROVE Goal
  <2>1. ScreenInv'
    BY <1>a, <1>d, ScreenKept DEF Loads, Acting, Idle
  <2>2. QED
    BY <1>c, <1>d, <2>1
<1>1. CASE \/ SubmitLogin \/ AnswerLogin \/ SettleLogin \/ FailLogin \/ Logout
           \/ AnswerRefresh \/ EndGrant \/ Fill \/ UNCHANGED vars
  BY <1>1, <1>b, <1>d DEF SubmitLogin, AnswerLogin, SettleLogin, FailLogin, Logout,
     AnswerRefresh, EndGrant, Fill, vars
<1>2. CASE Evidence
  <2>1. UNCHANGED <<call, loading, busy, shown, item>>
    BY <1>2 DEF Evidence, OpenCamera, Pick, Progress, SettleUpload, RemovePhoto
  <2>2. QED
    BY <1>b, <1>d, <2>1
<1>3. CASE SettleLogout \/ Leave
  <2>1. Blank /\ open' = FALSE /\ call' = Unmounted(call)
    BY <1>3 DEF SettleLogout, Leave, Expire
  <2>2. QED
    BY <1>a, <2>1, ScreenLeft, Undriven
<1>4. CASE RefreshFails
  <2>1. Blank /\ open' = FALSE
    BY <1>4 DEF RefreshFails, Expire
  <2>2. [c \in Calls |-> IF call[c].phase \in {"joined", "first"} THEN NoCall ELSE call[c]]
          \in [Calls -> CallRecords]
    BY <1>a
  <2>3. \A c \in Calls : ~Loads(c)' /\ ~Acting(c)'
    BY <1>4, <2>2, Undriven DEF RefreshFails
  <2>4. QED
    BY <1>a, <2>1, <2>3, ScreenLeft
<1>5. CASE Kill
  <2>1. \A c \in Calls : ~Loads(c)' /\ ~Acting(c)'
    BY <1>5 DEF Kill, Loads, Acting, NoCall
  <2>2. QED
    BY <1>a, <1>5, <2>1, ScreenLeft DEF Kill
<1>6. CASE RefreshSucceeds \/ ExpireToken
  <2>1. ASSUME NEW c \in Calls
        PROVE  /\ call'[c].does = call[c].does /\ call'[c].current = call[c].current
               /\ call'[c].item = call[c].item
               /\ call'[c].phase = "ok" => call[c].phase = "ok"
               /\ call'[c].phase = "idle" => call[c].phase = "idle"
    <3>1. call[c] \in CallRecords
      BY <1>a
    <3>2. CASE RefreshSucceeds
      BY <3>1, <3>2 DEF RefreshSucceeds, CallRecords
    <3>3. CASE ExpireToken
      BY <3>1, <3>3 DEF ExpireToken, CallRecords
    <3>4. QED
      BY <1>6, <3>2, <3>3
  <2>2. UNCHANGED <<loading, busy, shown, item>>
    BY <1>6 DEF RefreshSucceeds, ExpireToken
  <2>3. ScreenInv'
    BY <1>a, <1>b, <2>1, <2>2, ScreenKept DEF Loads, Acting, Idle
  <2>4. QED
    BY <1>c, <2>2, <2>3
<1>7. ASSUME NEW c \in Calls, Boot(c) PROVE Goal
  <2>1. UNCHANGED <<loading, busy, shown, item>>
    BY <1>7 DEF Boot
  <2>2. ~Loads(c) /\ ~Acting(c)
    BY <1>7 DEF Boot, ScreenInv, OneEach
  <2>3. CASE UNCHANGED call
    BY <1>b, <1>d, <2>1, <2>3
  <2>4. CASE ~UNCHANGED call
    <3>1. PICK r \in CallRecords : /\ call' = [call EXCEPT ![c] = r]
                                   /\ r.does = "me" /\ r.phase \in {"first", "sent"}
      <4>0. access \in TokenStates /\ None \in TokenStates
        BY <1>a DEF TypeOK, TokenStates
      <4>1. /\ Sent("me", access, FALSE) \in CallRecords
            /\ Sent("me", access, FALSE).does = "me" /\ Sent("me", access, FALSE).phase = "sent"
        BY <4>0, SentTyped
      <4>2. /\ [Sent("me", None, FALSE) EXCEPT !.phase = "first"] \in CallRecords
            /\ Sent("me", None, FALSE) \in CallRecords /\ Sent("me", None, FALSE).does = "me"
        BY <4>0, SentTyped
      <4>3. /\ [Sent("me", None, FALSE) EXCEPT !.phase = "first"].does = "me"
            /\ [Sent("me", None, FALSE) EXCEPT !.phase = "first"].phase = "first"
        BY <4>2 DEF CallRecords
      <4>4. QED
        BY <1>7, <2>4, <4>1, <4>2, <4>3 DEF Boot
    <3>2. \A d \in Calls : d # c => call'[d] = call[d]
      BY <1>a, <3>1
    <3>3. call'[c].does = "me" /\ call'[c].phase \in {"first", "sent"}
      BY <1>a, <3>1
    <3>4. ScreenInv'
      BY <1>a, <1>b, <2>1, <2>2, <3>2, <3>3, ScreenKept DEF Loads, Acting, Acts, Idle
    <3>5. QED
      BY <1>c, <2>1, <3>4
  <2>5. QED
    BY <2>3, <2>4
<1>8. ASSUME NEW c \in Calls, Join(c) PROVE Goal
  <2>1. /\ call'[c].does = call[c].does /\ call'[c].current = call[c].current
        /\ call'[c].phase = "joined"
        /\ \A d \in Calls : d # c => call'[d] = call[d]
    BY <1>a, <1>8 DEF Join, Ended, CallRecords
  <2>2. UNCHANGED <<loading, busy, shown, item>>
    BY <1>8 DEF Join
  <2>3. ScreenInv'
    BY <1>a, <1>b, <2>1, <2>2, ScreenKept DEF Loads, Acting, Idle
  <2>4. QED
    BY <1>c, <2>2, <2>3
<1>9. ASSUME NEW c \in Calls, Serve(c) PROVE Goal
  <2>1. UNCHANGED <<loading, busy, shown>> /\ item'.version >= item.version
    BY <1>9, <1>b DEF Serve
  <2>2. /\ call'[c].does = call[c].does /\ call'[c].current = call[c].current
        /\ call'[c].phase = "ok"
        /\ call[c].does = "load" => call'[c].item = item
        /\ \A d \in Calls : d # c => call'[d] = call[d]
    <3>1. call[c] \in CallRecords
      BY <1>a
    <3> DEFINE E == Ended(call[c], "ok")
    <3>2. /\ E.does = call[c].does /\ E.current = call[c].current /\ E.phase = "ok"
          /\ E \in CallRecords
      BY <3>1, EndedTyped DEF Ended, CallRecords
    <3> HIDE DEF E
    <3>3. \A i : LET r == [E EXCEPT !.item = i] IN
            r.does = E.does /\ r.current = E.current /\ r.phase = E.phase /\ r.item = i
      BY <3>2 DEF CallRecords
    <3>4. CASE call[c].does \in Acts
      <4>1. call' = [call EXCEPT ![c] = E] /\ call[c].does # "load"
        BY <1>9, <3>4 DEF Serve, E, Acts
      <4>2. QED
        BY <1>a, <3>2, <4>1
    <3>5. CASE call[c].does \notin Acts
      <4>1. call' = [call EXCEPT ![c] =
                      [E EXCEPT !.item = IF call[c].does = "load" THEN item ELSE NoItem]]
        BY <1>9, <3>5 DEF Serve, E
      <4>2. QED
        BY <1>a, <3>2, <3>3, <4>1
    <3>6. QED
      BY <3>4, <3>5
  <2>3. ScreenInv'
    BY <1>a, <2>1, <2>2, ScreenKept DEF Loads, Acting, Idle
  <2>4. QED
    BY <1>c, <2>1, <2>3
<1>10. ASSUME NEW c \in Calls, call' = [call EXCEPT ![c] = NoCall],
              UNCHANGED item,
              loading' = (loading /\ ~Loads(c)), busy' = (busy /\ ~Acting(c)),
              shown' = shown \/ (Loads(c) /\ call[c].phase = "ok" /\ shown' = call[c].item)
       PROVE  Goal
  <2>1. /\ ~Loads(c)' /\ ~Acting(c)'
        /\ \A d \in Calls : d # c => call'[d] = call[d]
    BY <1>a, <1>10 DEF Loads, Acting, NoCall
  <2>2. \A d \in Calls : d # c => (Loads(d)' <=> Loads(d)) /\ (Acting(d)' <=> Acting(d))
    BY <2>1 DEF Loads, Acting
  <2>3. OneEach'
    BY <2>1, <2>2 DEF ScreenInv, OneEach, Idle
  <2>4. Spinners'
    <3>1. loading' <=> \E d \in Calls : Loads(d)'
      BY <1>10, <2>1, <2>2 DEF ScreenInv, OneEach, Spinners
    <3>2. busy' <=> \E d \in Calls : Acting(d)'
      BY <1>10, <2>1, <2>2 DEF ScreenInv, OneEach, Spinners
    <3>3. QED
      BY <3>1, <3>2 DEF Spinners
  <2>5. shown'.version >= shown.version /\ Newer'
    <3>1. CASE shown' = shown
      BY <1>b, <1>10, <2>1, <2>2, <3>1 DEF ScreenInv, Newer
    <3>2. CASE Loads(c) /\ call[c].phase = "ok" /\ shown' = call[c].item
      <4>1. \A d \in Calls : ~Loads(d)'
        BY <2>1, <2>2, <3>2 DEF ScreenInv, OneEach
      <4>2. shown.version <= call[c].item.version /\ call[c].item.version <= item.version
        BY <3>2 DEF ScreenInv, Newer
      <4>3. call[c].item.version \in Nat
        BY <1>a DEF CallRecords, Items
      <4>4. QED
        BY <1>b, <1>10, <3>2, <4>1, <4>2, <4>3 DEF Newer
    <3>3. QED
      BY <1>10, <3>1, <3>2
  <2>6. QED
    BY <1>a, <2>3, <2>4, <2>5 DEF ScreenInv
<1>11. ASSUME NEW c \in Calls, SettleLoad(c) \/ FailLoad(c) PROVE Goal
  <2>1. ~Acting(c) /\ (Loads(c) <=> call[c].current)
    BY <1>11 DEF SettleLoad, FailLoad, Acting, Loads, Acts
  <2>2. /\ call' = [call EXCEPT ![c] = NoCall] /\ UNCHANGED <<item, busy>>
        /\ loading' = (loading /\ ~Loads(c))
        /\ shown' = shown \/ (Loads(c) /\ call[c].phase = "ok" /\ shown' = call[c].item)
    BY <1>a, <1>11, <2>1 DEF SettleLoad, FailLoad, TypeOK
  <2>3. busy' = (busy /\ ~Acting(c))
    BY <1>a, <2>1, <2>2 DEF TypeOK
  <2>4. QED
    BY <1>10, <2>2, <2>3
<1>12. ASSUME NEW c \in Calls, FailAct(c) PROVE Goal
  <2>1. ~Loads(c) /\ (Acting(c) <=> call[c].current)
    BY <1>12 DEF FailAct, Acting, Loads, Acts
  <2>2. /\ call' = [call EXCEPT ![c] = NoCall] /\ UNCHANGED <<item, loading, shown>>
        /\ busy' = (busy /\ ~Acting(c))
    BY <1>a, <1>12, <2>1 DEF FailAct, TypeOK
  <2>3. loading' = (loading /\ ~Loads(c))
    BY <1>a, <2>1, <2>2 DEF TypeOK
  <2>4. QED
    BY <1>10, <2>2, <2>3
<1>13. ASSUME NEW c \in Calls, Welcome(c) PROVE Goal
  <2>1. ~Loads(c) /\ ~Acting(c)
    BY <1>13 DEF Welcome, Acting, Loads, Acts
  <2>2. call' = [call EXCEPT ![c] = NoCall] /\ UNCHANGED <<item, loading, shown, busy>>
    BY <1>13 DEF Welcome
  <2>3. loading' = (loading /\ ~Loads(c)) /\ busy' = (busy /\ ~Acting(c))
    BY <1>a, <2>1, <2>2 DEF TypeOK
  <2>4. QED
    BY <1>10, <2>2, <2>3
<1>14. ASSUME NEW c \in Calls, TurnAway(c) PROVE Goal
  <2>1. Blank /\ open' = FALSE /\ call' = Unmounted([call EXCEPT ![c] = NoCall])
    BY <1>14 DEF TurnAway, Expire
  <2>2. [call EXCEPT ![c] = NoCall] \in [Calls -> CallRecords]
    BY <1>a
  <2>3. \A d \in Calls : ~Loads(d)' /\ ~Acting(d)'
    BY <2>1, <2>2, Undriven
  <2>4. QED
    BY <1>a, <2>1, <2>3, ScreenLeft
\* A run in a slot that drove nothing but the action that ends with it.
<1>15. ASSUME NEW c \in Calls, Run(c), UNCHANGED item,
              busy' = (busy /\ ~Acting(c)), shown' \in {shown, NoItem}
       PROVE  ScreenInv'
  <2>1. /\ \A d \in Calls : Loads(d)' <=> d = c
        /\ \A d \in Calls : Acting(d)' <=> Acting(d) /\ d # c
        /\ \A d \in Calls : d # c => call'[d].phase = call[d].phase
        /\ call'[c].phase = "sent" /\ loading' = TRUE
    BY <1>a, <1>15, RunDrives
  <2>2. OneEach'
    BY <2>1 DEF ScreenInv, OneEach, Idle
  <2>3. Spinners'
    BY <1>a, <1>15, <2>1 DEF ScreenInv, OneEach, Spinners, TypeOK
  <2>4. Newer'
    BY <1>b, <1>15, <2>1 DEF ScreenInv, Newer, NoItem
  <2>5. QED
    BY <1>a, <2>2, <2>3, <2>4 DEF ScreenInv
<1>16. ASSUME NEW c \in Calls, SettleAct(c) PROVE Goal
  <2>1. ~Loads(c) /\ (Acting(c) <=> call[c].current)
    BY <1>16 DEF SettleAct, Acting, Loads, Acts
  <2>2. CASE ~call[c].current
    <3>1. call' = [call EXCEPT ![c] = NoCall] /\ UNCHANGED <<item, loading, shown, busy>>
      BY <1>16, <2>2 DEF SettleAct
    <3>2. loading' = (loading /\ ~Loads(c)) /\ busy' = (busy /\ ~Acting(c))
      BY <1>a, <2>1, <2>2, <3>1 DEF TypeOK
    <3>3. QED
      BY <1>10, <3>1, <3>2
  <2>3. CASE call[c].current
    <3>1. Run(c) /\ UNCHANGED item /\ busy' = FALSE /\ shown' \in {shown, NoItem}
      BY <1>16, <2>3 DEF SettleAct
    <3>2. busy' = (busy /\ ~Acting(c))
      BY <2>1, <2>3, <3>1
    <3>3. ScreenInv'
      BY <1>15, <3>1, <3>2
    <3>4. kind' = kind => shown' = shown
      <4>1. call[c].does = "create" => kind = "new"
        BY <1>16, <2>3 DEF SettleAct, FormStays, Creating, Acting
      <4>2. QED
        BY <1>16, <2>3, <4>1 DEF SettleAct
    <3>5. QED
      BY <1>b, <3>3, <3>4
  <2>4. QED
    BY <2>2, <2>3
<1>17. ASSUME NEW c \in Calls, Open(c) \/ Fetch(c) PROVE Goal
  <2>1. UNCHANGED <<item, busy, shown>> /\ ~Acting(c)
    BY <1>17 DEF Open, Fetch, ScreenInv, OneEach
  <2>2. CASE Run(c)
    <3>1. busy' = (busy /\ ~Acting(c))
      BY <1>a, <2>1 DEF TypeOK
    <3>2. ScreenInv'
      BY <1>15, <2>1, <2>2, <3>1
    <3>3. QED
      BY <1>c, <2>1, <3>2
  <2>3. CASE UNCHANGED <<call, loading>>
    BY <1>b, <1>d, <2>1, <2>3
  <2>4. QED
    BY <1>17, <2>2, <2>3 DEF Open, Fetch
<1>18. ASSUME NEW c \in Calls, NEW does \in Acts, Act(c, does) PROVE Goal
  <2>1. access \in TokenStates
    BY <1>a DEF TypeOK
  <2>2. /\ Sent(does, access, FALSE).does = does /\ Sent(does, access, FALSE).current
        /\ Sent(does, access, FALSE).phase = "sent"
    BY <2>1, SentTyped
  <2>3. /\ call'[c] = Sent(does, access, FALSE) /\ \A d \in Calls : d # c => call'[d] = call[d]
        /\ ~Loads(c) /\ ~Acting(c) /\ ~busy /\ busy' = TRUE /\ UNCHANGED <<loading, shown, item>>
    BY <1>a, <1>18 DEF Act, ScreenInv, OneEach
  <2>4. \A d \in Calls : ~Acting(d)
    BY <2>3 DEF ScreenInv, Spinners
  <2>5. /\ \A d \in Calls : Acting(d)' <=> d = c
        /\ \A d \in Calls : Loads(d)' <=> Loads(d)
    BY <2>2, <2>3, <2>4 DEF Acting, Loads, Acts
  <2>6. OneEach' /\ Spinners'
    BY <2>2, <2>3, <2>5 DEF ScreenInv, OneEach, Spinners, Idle
  <2>7. Newer'
    BY <2>3, <2>2, <2>5 DEF ScreenInv, Newer
  <2>8. QED
    BY <1>a, <1>c, <2>3, <2>6, <2>7 DEF ScreenInv
<1>19. ASSUME NEW s \in {"returned", "closed"}, Change(s) PROVE Goal
  BY <1>19, <1>b, <1>d DEF Change
<1>20. QED
  BY <1>1, <1>2, <1>3, <1>4, <1>5, <1>6, <1>7, <1>8, <1>9, <1>11, <1>12, <1>13, <1>14,
     <1>16, <1>17, <1>18, <1>19
  DEF Next, Session, Request, Settle

\* The spinner and the locked button stand for a request that is under way,
\* for any number of requests that supersede each other (useFetch, act).
THEOREM SpinnersAreHonest == Spec => []SpinnersHonest
<1>1. ScreenInv /\ FormStays /\ [Next]_vars => ScreenInv' /\ FormStays'
  BY ScreenStep, FormStep
<1>2. ScreenInv => SpinnersHonest
  BY DEF ScreenInv, Spinners, SpinnersHonest, Loads, Acting
<1>3. QED
  BY <1>1, <1>2, ScreenInit, FormInit, PTL DEF Spec

\* A mounted screen never shows an older state of its item than it has shown,
\* however its reads overtake each other (useFetch's generation).
THEOREM NeverOlder == Spec => ShownNeverOlder
<1>1. ScreenInv /\ FormStays /\ [Next]_vars =>
        ScreenInv' /\ FormStays' /\ [open /\ open' /\ kind' = kind => shown'.version >= shown.version]_vars
  BY ScreenStep, FormStep
<1>2. QED
  BY <1>1, ScreenInit, FormInit, PTL DEF Spec, ShownNeverOlder

=============================================================================
