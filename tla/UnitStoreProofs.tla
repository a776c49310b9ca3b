-------------------------- MODULE UnitStoreProofs ---------------------------
(* Proofs about UnitStore for any lists, operations and number of calls.    *)
EXTENDS UnitStore, TLAPS

USE StoreAssumptions DEF Versions

LEMMA ReadingTyped ==
  /\ NoReads \in [Lists -> ReadStates]
  /\ \A scope : Reading(scope) \in [Lists -> ReadStates]
BY DEF NoReads, Reading, ReadStates

\* Asking for a refresh keeps the refresher well formed.
LEMMA RefreshTyped ==
  ASSUME TypeOK, NEW scope, scope \subseteq Lists, Refresh(scope)
  PROVE  /\ run' \in {"idle", "fetching", "painting"}
         /\ pass' \in [Lists -> ReadStates]
         /\ pending' = NoScope \/ pending' \subseteq Lists
         /\ run' # "idle"
<1>1. CASE run = "idle"
  BY <1>1, ReadingTyped DEF Refresh
<1>2. CASE run # "idle"
  BY <1>2 DEF Refresh, Merged, TypeOK
<1>3. QED
  BY <1>1, <1>2

LEMMA TickTyped ==
  ASSUME TypeOK, Tick
  PROVE  /\ run' \in {"idle", "fetching", "painting"}
         /\ pass' \in [Lists -> ReadStates]
         /\ pending' = NoScope \/ pending' \subseteq Lists
         /\ poll' = TRUE
<1>1. CASE poll
  BY <1>1 DEF Tick, refresher, TypeOK
<1>2. CASE ~poll
  BY <1>2, RefreshTyped DEF Tick
<1>3. QED
  BY <1>1, <1>2

LEMMA CallTyped ==
  ASSUME TypeOK, NEW c \in Calls
  PROVE  /\ call[c] \in CallRecords
         /\ call[c].cmd \in CommandRecords
         /\ call[c].answer \in [Lists -> Nat]
         /\ call[c].before \in [Lists -> Nat \cup {Guess}]
         /\ NoCall \in CallRecords
BY DEF TypeOK, CallRecords, NoCall, NoCommand, CommandRecords

LEMMA TypeInit == Init => TypeOK
<1> SUFFICES ASSUME Init PROVE TypeOK
  OBVIOUS
<1>1. NoCall \in CallRecords
  BY DEF NoCall, CallRecords
<1>2. call \in [Calls -> CallRecords] /\ reads \in [Calls -> [Lists -> ReadStates]]
  BY <1>1, ReadingTyped DEF Init
<1>3. /\ server \in [Lists -> Versions] /\ shown \in [Lists -> Versions \cup {Guess}]
      /\ changes \in 0..MaxChanges /\ losses \in 0..MaxLosses
  BY DEF Init
<1>4. QED
  BY <1>2, <1>3, ReadingTyped DEF Init, TypeOK

LEMMA TypeStep == TypeOK /\ [Next]_vars => TypeOK'
<1> SUFFICES ASSUME TypeOK, [Next]_vars PROVE TypeOK'
  OBVIOUS
<1>1. CASE PassEnds
  BY <1>1, ReadingTyped DEF PassEnds, TypeOK, used
<1>2. CASE Paint
  BY <1>2 DEF Paint, TypeOK, used
<1>3. CASE Interval \/ Show
  <2>1. Tick
    BY <1>3 DEF Interval, Show
  <2>2. QED
    BY <1>3, <2>1, TickTyped DEF Interval, Show, TypeOK, used
<1>4. CASE Hide
  BY <1>4 DEF Hide, TypeOK, used, refresher
<1>5. ASSUME NEW l \in Lists, PassStep(l) PROVE TypeOK'
  <2>1. CASE AnswerPass(l)
    BY <2>1 DEF AnswerPass, TypeOK, used, ReadStates
  <2>2. CASE LosePass(l)
    BY <2>2 DEF LosePass, TypeOK, used, ReadStates
  <2>3. CASE ArrivePass(l)
    BY <2>3 DEF ArrivePass, Show1, TypeOK, used, ReadStates
  <2>4. QED
    BY <1>5, <2>1, <2>2, <2>3 DEF PassStep
<1>6. ASSUME NEW l \in Lists, Change(l) PROVE TypeOK'
  BY <1>6 DEF Change, Bumped, TypeOK, refresher
<1>7. ASSUME NEW c \in Calls, NEW l \in Lists, ReadStep(c, l) PROVE TypeOK'
  <2>1. CASE AnswerRead(c, l)
    BY <2>1 DEF AnswerRead, TypeOK, used, refresher, ReadStates
  <2>2. CASE LoseRead(c, l)
    BY <2>2 DEF LoseRead, TypeOK, refresher, ReadStates
  <2>3. CASE ArriveRead(c, l)
    BY <2>3 DEF ArriveRead, Show1, TypeOK, used, refresher, ReadStates
  <2>4. QED
    BY <1>7, <2>1, <2>2, <2>3 DEF ReadStep
<1>8. ASSUME NEW c \in Calls, NEW cmd \in Commands, Start(c, cmd) PROVE TypeOK'
  <2>1. Kept(cmd.guess, shown) \in [Lists -> Nat \cup {Guess}]
    BY DEF Kept, TypeOK
  <2>2. [NoCall EXCEPT !.cmd = cmd, !.phase = "sent", !.before = Kept(cmd.guess, shown)]
          \in CallRecords
    BY <2>1, CallTyped DEF CallRecords, NoCall
  <2>3. call' \in [Calls -> CallRecords]
    BY <1>8, <2>2 DEF Start, TypeOK
  <2>4. QED
    BY <1>8, <2>3 DEF Start, TypeOK, refresher
<1>9. ASSUME NEW c \in Calls, Answer(c) PROVE TypeOK'
  <2>0. call[c] \in CallRecords /\ call[c].cmd \in CommandRecords /\ NoCall \in CallRecords
    BY CallTyped
  <2>1. CASE Serve(c)
    <3>1. server' \in [Lists -> Nat]
      BY <2>1 DEF Serve, Bumped, TypeOK
    <3>2. Kept(call[c].cmd.rows \cup call[c].cmd.adds, server') \in [Lists -> Nat]
      BY <3>1 DEF Kept
    <3>3. call' \in [Calls -> CallRecords]
      BY <2>0, <2>1, <3>2 DEF Serve, TypeOK, CallRecords
    <3>4. QED
      BY <2>1, <3>1, <3>3 DEF Serve, TypeOK, refresher, used
  <2>2. CASE Refuse(c)
    <3>1. call' \in [Calls -> CallRecords]
      BY <2>0, <2>2 DEF Refuse, TypeOK, CallRecords
    <3>2. QED
      BY <2>2, <3>1 DEF Refuse, TypeOK, refresher, used
  <2>3. CASE LoseAnswer(c)
    <3>1. call' \in [Calls -> CallRecords]
      BY <2>0, <2>3 DEF LoseAnswer, TypeOK, CallRecords, NoCall
    <3>2. QED
      BY <2>3, <3>1 DEF LoseAnswer, TypeOK, refresher
  <2>4. CASE Finish(c)
    <3>1. shown' \in [Lists -> Nat \cup {Guess}]
      BY <2>4, CallTyped DEF Finish, Applied, TypeOK
    <3>2. doubled' \subseteq Lists
      BY <2>0, <2>4 DEF Finish, Known, TypeOK, CommandRecords
    <3>3. reads' \in [Calls -> [Lists -> ReadStates]] /\ call' \in [Calls -> CallRecords]
      BY <2>0, <2>4, ReadingTyped DEF Finish, TypeOK
    <3>4. /\ run' \in {"idle", "fetching", "painting"}
          /\ pass' \in [Lists -> ReadStates]
          /\ pending' = NoScope \/ pending' \subseteq Lists
      <4>1. CASE call[c].cmd.asks = {}
        BY <2>4, <4>1 DEF Finish, refresher, TypeOK
      <4>2. CASE call[c].cmd.asks # {}
        <5>1. PICK scope \in call[c].cmd.asks : Refresh(scope)
          BY <2>4, <4>2 DEF Finish
        <5>2. scope \subseteq Lists
          BY <2>0 DEF CommandRecords
        <5>3. QED
          BY <5>1, <5>2, RefreshTyped
      <4>3. QED
        BY <4>1, <4>2
    <3>5. QED
      BY <2>4, <3>1, <3>2, <3>3, <3>4 DEF Finish, TypeOK, used
  <2>5. CASE Fail(c)
    <3>1. shown' \in [Lists -> Nat \cup {Guess}]
      BY <2>5, CallTyped DEF Fail, TypeOK
    <3>2. QED
      BY <2>0, <2>5, <3>1 DEF Fail, TypeOK, refresher, used
  <2>6. QED
    BY <1>9, <2>1, <2>2, <2>3, <2>4, <2>5 DEF Answer
<1>10. CASE UNCHANGED vars
  BY <1>10 DEF vars, TypeOK
<1>11. QED
  BY <1>1, <1>2, <1>3, <1>4, <1>5, <1>6, <1>7, <1>8, <1>9, <1>10 DEF Next

\* The store and its requests are always well formed, for any operations and
\* any number of them at a time (AppContext.tsx).
THEOREM TypeCorrect == Spec => []TypeOK
BY TypeInit, TypeStep, PTL DEF Spec

-----------------------------------------------------------------------------
(* The refresh is a single flight.                                          *)

\* Inductive: a tick waits only for a run.
PollInv == TypeOK /\ (poll => run # "idle")

LEMMA PollInit == Init => PollInv /\ Single!Init
BY TypeInit DEF Init, PollInv, Single!Init

LEMMA PollStep == PollInv /\ [Next]_vars => PollInv' /\ [Single!Next]_(Single!vars)
<1> SUFFICES ASSUME PollInv, [Next]_vars
             PROVE  (poll' => run' # "idle") /\ [Single!Next]_(Single!vars)
  BY TypeStep DEF PollInv
<1> DEFINE W == IF poll THEN {"poll"} ELSE {}
<1>a. TypeOK /\ (poll => run # "idle")
  BY DEF PollInv
\* A step that leaves the run under way or starts it, and keeps who waits.
<1>b. ASSUME run' # "idle", poll => poll'
      PROVE  (poll' => run' # "idle") /\ [Single!Next]_(Single!vars)
  BY <1>b DEF Single!Next, Single!Ask
\* A step that touches neither.
<1>c. ASSUME UNCHANGED <<run, poll>>
      PROVE  (poll' => run' # "idle") /\ [Single!Next]_(Single!vars)
  BY <1>a, <1>c DEF Single!vars
<1>1. CASE PassEnds
  BY <1>1, <1>b DEF PassEnds
<1>2. CASE Paint
  BY <1>2 DEF Paint, Single!Next, Single!Land
<1>3. CASE Interval \/ Show
  <2>1. Tick
    BY <1>3 DEF Interval, Show
  <2>2. CASE poll
    BY <2>1, <2>2, <1>c DEF Tick, refresher
  <2>3. CASE ~poll
    <3>1. Polled \subseteq Lists
      OBVIOUS
    <3>2. Refresh(Polled)
      BY <2>1, <2>3 DEF Tick
    <3>3. run' # "idle"
      BY <1>a, <3>1, <3>2, RefreshTyped
    <3>4. QED
      BY <2>3, <3>3, <1>b
  <2>4. QED
    BY <2>2, <2>3
<1>4. ASSUME NEW c \in Calls, Finish(c)
      PROVE  (poll' => run' # "idle") /\ [Single!Next]_(Single!vars)
  <2>1. CASE call[c].cmd.asks = {}
    BY <1>4, <2>1, <1>c DEF Finish, refresher
  <2>2. CASE call[c].cmd.asks # {}
    <3>1. PICK scope \in call[c].cmd.asks : Refresh(scope)
      BY <1>4, <2>2 DEF Finish
    <3>2. scope \subseteq Lists
      BY <1>a, CallTyped DEF CommandRecords
    <3>3. run' # "idle" /\ poll' = poll
      BY <1>a, <1>4, <3>1, <3>2, RefreshTyped DEF Finish
    <3>4. QED
      BY <3>3, <1>b
  <2>3. QED
    BY <2>1, <2>2
<1>5. CASE \/ Hide \/ UNCHANGED vars
           \/ \E l \in Lists : PassStep(l) \/ Change(l)
           \/ \E c \in Calls : Serve(c) \/ Refuse(c) \/ LoseAnswer(c) \/ Fail(c)
           \/ \E c \in Calls, cmd \in Commands : Start(c, cmd)
           \/ \E c \in Calls, l \in Lists : ReadStep(c, l)
  <2>1. UNCHANGED <<run, poll>>
    BY <1>5
    DEF Hide, vars, PassStep, AnswerPass, LosePass, ArrivePass, Change, Serve, Refuse,
        LoseAnswer, Fail, Start, ReadStep, AnswerRead, LoseRead, ArriveRead, refresher
  <2>2. QED
    BY <2>1, <1>c
<1>6. QED
  BY <1>1, <1>2, <1>3, <1>4, <1>5 DEF Next, Answer

\* A refresh is asked for, joined and ended as the abstract single flight
\* says, and a tick that waits is let go with it (AppContext
\* refreshUnitsScoped, usePolling).
THEOREM RefreshImplementsSingleFlight == Spec => RefreshIsSingleFlight
<1>1. Init => PollInv /\ Single!Init
  BY PollInit
<1>2. PollInv /\ [Next]_vars => PollInv' /\ [Single!Next]_(Single!vars)
  BY PollStep
<1>3. QED
  BY <1>1, <1>2, PTL DEF Spec, RefreshIsSingleFlight, Single!Spec

=============================================================================
