-------------------------- MODULE SchedulerProofs ---------------------------
(***************************************************************************)
(* Scheduler for any number of templates and workers, and any horizon.     *)
(*                                                                         *)
(* The invariant says what a worker still knows at each step of its run,   *)
(* although other workers, the manual trigger and people have acted since  *)
(* it loaded the templates: the occurrence it is about to generate had     *)
(* come due when it looked, and an insert it decided against was already   *)
(* in the ledger, which only grows.                                        *)
(***************************************************************************)
EXTENDS Scheduler, TLAPS

-----------------------------------------------------------------------------
(* The invariant *)

\* What the run of worker w loaded had come due by then.
WasDue(w, t) ==
  1 <= tick[w].seen[t] /\ tick[w].seen[t] <= tick[w].now

BatchDue(w) ==
  tick[w].at \in {"template", "check", "commit"} =>
    \A t \in tick[w].batch: WasDue(w, t)

RunningDue(w) ==
  tick[w].at \in {"check", "commit"} =>
    tick[w].on \in Templates /\ WasDue(w, tick[w].on)

\* Without a room to be covered, only the ledger forbids an insert.
SkippedIsLogged(w) ==
  tick[w].at = "commit" /\ shape[tick[w].on].target = "zone"
    /\ ~tick[w].insert => Generated(w) \in ledger

\* A one-time template has no occurrence but the first.
OnceIsFirst ==
  \A t \in Templates:
    Once(t) => cursor[t] <= 1 /\ \A w \in Workers: tick[w].seen[t] <= 1

Knows(w) ==
  /\ tick[w].now <= now
  /\ BatchDue(w)
  /\ RunningDue(w)
  /\ SkippedIsLogged(w)

RunInv == OnceIsFirst /\ \A w \in Workers: Knows(w)

-----------------------------------------------------------------------------
(* Schedules and rows *)

LEMMA NextRunRange ==
  ASSUME NEW t \in Templates, NEW a \in 0..Horizon
  PROVE  /\ NextRun(t, a) \in 0..Horizon
         /\ Once(t) => NextRun(t, a) = 0
         /\ NextRun(t, a) = 0 => Once(t) \/ a = Horizon
         /\ NextRun(t, a) # 0 => NextRun(t, a) = a + 1
  BY TimeAssumption DEF NextRun

LEMMA ActivatedRange ==
  ASSUME TypeOK, NEW t \in Templates
  PROVE  Activated(t) \in 0..Horizon /\ (Once(t) => Activated(t) = 1)
  BY NextRunRange, TimeAssumption DEF Activated, TypeOK

LEMMA OccurrenceRange ==
  ASSUME TypeOK, RunInv, NEW w \in Workers, tick[w].at \in {"check", "commit"}
  PROVE  /\ tick[w].on \in Templates
         /\ Occurrence(w) \in Occurrences
         /\ Occurrence(w) <= now
         /\ NextCursor(w) \in 0..Horizon
         /\ Once(tick[w].on) => NextCursor(w) = 0 /\ Occurrence(w) = 1
  <1>1. tick[w].on \in Templates /\ WasDue(w, tick[w].on)
    BY DEF RunInv, Knows, RunningDue
  <1>2. tick[w] \in TickRow
    BY DEF TypeOK
  <1>3. tick[w].now \in 0..Horizon /\ tick[w].seen[tick[w].on] \in 0..Horizon
    BY <1>1, <1>2 DEF TickRow
  <1>4. tick[w].now <= now /\ now \in 0..Horizon
    BY DEF RunInv, Knows, TypeOK
  <1>5. Occurrence(w) \in Occurrences /\ Occurrence(w) <= now
    BY <1>1, <1>3, <1>4, TimeAssumption DEF Occurrence, Occurrences, WasDue
  <1>6. Once(tick[w].on) => Occurrence(w) = 1
    BY <1>1, <1>3 DEF RunInv, OnceIsFirst, Occurrence, WasDue
  <1>7. Occurrence(w) \in 0..Horizon
    BY <1>5, TimeAssumption DEF Occurrences
  <1>8. NextCursor(w) \in 0..Horizon /\ (Once(tick[w].on) => NextCursor(w) = 0)
    BY <1>1, <1>7, NextRunRange DEF NextCursor
  <1> QED BY <1>1, <1>5, <1>6, <1>8

LEMMA IdleRow == Idle \in TickRow
  BY TimeAssumption DEF Idle, TickRow, Steps

LEMMA StepUpdate ==
  ASSUME NEW row \in TickRow, NEW a \in Steps
  PROVE  [row EXCEPT !.at = a] \in TickRow
  BY DEF TickRow

LEMMA RolledBackType ==
  ASSUME TypeOK, NEW w \in Workers
  PROVE  RolledBack(w) \in [Workers -> TickRow]
  BY IdleRow, StepUpdate DEF TypeOK, RolledBack, Steps

LEMMA WorkUpdate ==
  ASSUME TypeOK, NEW t \in Templates, NEW o \in Occurrences,
         NEW s \in WorkStatuses
  PROVE  [work EXCEPT ![t][o] = s] \in [Templates -> [Occurrences -> WorkStatuses]]
  BY DEF TypeOK

-----------------------------------------------------------------------------
(* The invariant holds *)

LEMMA InitInv == Init => TypeOK /\ RunInv
  <1> SUFFICES ASSUME Init PROVE TypeOK /\ RunInv
    OBVIOUS
  <1>1. TypeOK
    BY IdleRow, TimeAssumption DEF Init, TypeOK, WorkStatuses
  <1>2. \A w \in Workers: tick[w].at = "idle" /\ tick[w].now = 0
                         /\ \A t \in Templates: tick[w].seen[t] = 0
    BY DEF Init, Idle
  <1>3. RunInv
    BY <1>2 DEF Init, RunInv, Knows, OnceIsFirst, BatchDue, RunningDue,
                SkippedIsLogged
  <1> QED BY <1>1, <1>3

LEMMA RunType ==
  ASSUME TypeOK, RunInv, NEW w \in Workers, Run(w)
  PROVE  TypeOK'
  <1> USE DEF TypeOK
  <1>1. CASE StartTick(w)
    BY <1>1, StepUpdate DEF StartTick, Steps
  <1>2. CASE Expire(w)
    <2>1. work' \in [Templates -> [Occurrences -> WorkStatuses]]
      BY <1>2 DEF Expire, WorkStatuses
    <2>2. tick' \in [Workers -> TickRow]
      BY <1>2, StepUpdate DEF Expire, Steps
    <2> QED BY <1>2, <2>1, <2>2 DEF Expire
  <1>3. CASE Load(w)
    <2>1. tick[w] \in TickRow
      OBVIOUS
    <2>2. [tick[w] EXCEPT !.at = "template", !.now = now,
                          !.batch = {t \in Templates: Due(t)},
                          !.seen = cursor] \in TickRow
      BY <2>1 DEF TickRow, Steps
    <2>3. tick' \in [Workers -> TickRow]
      BY <1>3, <2>2 DEF Load
    <2> QED BY <1>3, <2>3 DEF Load
  <1>4. CASE \E t \in Templates: Supersede(w, t)
    <2> PICK t \in Templates: Supersede(w, t)
      BY <1>4
    <2>1. work' \in [Templates -> [Occurrences -> WorkStatuses]]
      BY DEF Supersede, WorkStatuses
    <2>2. [tick[w] EXCEPT !.at = "check", !.on = t, !.batch = @ \ {t}]
            \in TickRow
      BY DEF TickRow, Steps
    <2>3. tick' \in [Workers -> TickRow]
      BY <2>2 DEF Supersede
    <2> QED BY <2>1, <2>3 DEF Supersede
  <1>5. CASE FinishBatch(w)
    <2>1. [Idle EXCEPT !.at = "roll"] \in TickRow
      BY IdleRow, StepUpdate DEF Steps
    <2>2. tick' \in [Workers -> TickRow]
      BY <1>5, <2>1, IdleRow DEF FinishBatch
    <2> QED BY <1>5, <2>2 DEF FinishBatch
  <1>6. CASE Check(w)
    <2>1. [tick EXCEPT ![w].at = "commit",
                       ![w].insert = /\ <<tick[w].on, Occurrence(w)>> \notin ledger
                                     /\ ~Covered(tick[w].on)]
            \in [Workers -> TickRow]
      <3>1. \A i \in BOOLEAN:
              [tick[w] EXCEPT !.at = "commit", !.insert = i] \in TickRow
        BY DEF TickRow, Steps
      <3> QED BY <3>1
    <2>2. tick' \in [Workers -> TickRow]
      BY <1>6, <2>1, RolledBackType DEF Check
    <2> QED BY <1>6, <2>2 DEF Check
  <1>7. CASE Commit(w)
    <2>1. tick[w].on \in Templates /\ Occurrence(w) \in Occurrences
            /\ NextCursor(w) \in 0..Horizon
      BY <1>7, OccurrenceRange DEF Commit
    <2>2. [work EXCEPT ![tick[w].on][Occurrence(w)] = "open"]
            \in [Templates -> [Occurrences -> WorkStatuses]]
      BY <2>1, WorkUpdate DEF WorkStatuses, Open
    <2>3. work' \in [Templates -> [Occurrences -> WorkStatuses]]
      BY <1>7, <2>2 DEF Commit
    <2>4. ledger' \subseteq Templates \X Occurrences
      BY <1>7, <2>1 DEF Commit, Generated
    <2>5. cursor' \in [Templates -> 0..Horizon]
      BY <1>7, <2>1 DEF Commit
    <2>6. \/ tick' = [tick EXCEPT ![w] = Idle]
          \/ tick' = [tick EXCEPT ![w].at = "template"]
      BY <1>7 DEF Commit
    <2>7. tick' \in [Workers -> TickRow]
      <3>1. [tick[w] EXCEPT !.at = "template"] \in TickRow
        BY StepUpdate DEF Steps
      <3> QED BY <2>6, <3>1, IdleRow
    <2> QED BY <1>7, <2>3, <2>4, <2>5, <2>7 DEF Commit
  <1>8. CASE Rollover(w)
    <2>1. work' \in [Templates -> [Occurrences -> WorkStatuses]]
      BY <1>8 DEF Rollover, WorkStatuses
    <2>2. tick' \in [Workers -> TickRow]
      BY <1>8, IdleRow DEF Rollover
    <2> QED BY <1>8, <2>1, <2>2 DEF Rollover
  <1> QED BY <1>1, <1>2, <1>3, <1>4, <1>5, <1>6, <1>7, <1>8 DEF Run

LEMMA PeopleType ==
  ASSUME TypeOK, NEW t \in Templates, People(t)
  PROVE  TypeOK'
  <1> USE DEF TypeOK
  <1>1. CASE \E on \in BOOLEAN: SetStatus(t, on)
    <2> PICK on \in BOOLEAN: SetStatus(t, on)
      BY <1>1
    <2>1. Activated(t) \in 0..Horizon /\ 0 \in 0..Horizon
      BY ActivatedRange, TimeAssumption
    <2>2. cursor' \in [Templates -> 0..Horizon]
      BY <2>1 DEF SetStatus
    <2>3. active' \in [Templates -> BOOLEAN]
      BY DEF SetStatus
    <2> QED BY <2>2, <2>3 DEF SetStatus
  <1>2. ASSUME NEW o \in Occurrences,
               Submit(t, o) \/ Complete(t, o) \/ Review(t, o)
                 \/ Reopen(t, o) \/ Delete(t, o)
        PROVE  TypeOK'
    <2>1. PICK s \in WorkStatuses: Set(t, o, s)
      BY <1>2 DEF Submit, Complete, Review, Reopen, Delete, WorkStatuses, Open
    <2>2. work' \in [Templates -> [Occurrences -> WorkStatuses]]
      BY <2>1, WorkUpdate DEF Set
    <2> QED BY <2>1, <2>2 DEF Set
  <1> QED BY <1>1, <1>2 DEF People

\* What a worker knows outlasts the steps of the others.
LEMMA OthersKnow ==
  ASSUME TypeOK, TypeOK', NEW v \in Workers, Knows(v), tick'[v] = tick[v],
         shape' = shape, ledger \subseteq ledger', now <= now'
  PROVE  Knows(v)'
  <1>1. tick[v].now \in 0..Horizon /\ now \in 0..Horizon /\ now' \in 0..Horizon
    BY DEF TypeOK, TickRow
  <1>2. tick'[v].now <= now'
    BY <1>1 DEF Knows
  <1>3. BatchDue(v)' /\ RunningDue(v)'
    BY DEF Knows, BatchDue, RunningDue, WasDue
  <1>4. Generated(v)' = Generated(v)
    BY DEF Generated, Occurrence, Once
  <1>5. SkippedIsLogged(v)'
    BY <1>4 DEF Knows, SkippedIsLogged
  <1> QED BY <1>2, <1>3, <1>5 DEF Knows

\* Outside the run proper there is nothing to know.
LEMMA RestKnows ==
  ASSUME NEW v \in Workers, tick'[v].now <= now',
         tick'[v].at \notin {"template", "check", "commit"}
  PROVE  Knows(v)'
  BY DEF Knows, BatchDue, RunningDue, SkippedIsLogged

\* Nothing to know is left of an idle worker.
LEMMA IdleKnows ==
  ASSUME TypeOK', NEW v \in Workers, tick'[v] = Idle
  PROVE  Knows(v)'
  <1>1. tick'[v].now = 0 /\ tick'[v].at = "idle" /\ now' \in 0..Horizon
    BY DEF Idle, TypeOK
  <1> QED BY <1>1, RestKnows

LEMMA OnceKept ==
  ASSUME TypeOK, OnceIsFirst, shape' = shape, cursor' = cursor,
         \A v \in Workers: tick'[v].seen \in {tick[v].seen, cursor, Idle.seen}
  PROVE  OnceIsFirst'
  <1> SUFFICES ASSUME NEW t \in Templates, Once(t)
               PROVE  /\ cursor[t] <= 1
                      /\ \A w \in Workers: tick'[w].seen[t] <= 1
    BY DEF OnceIsFirst, Once
  <1>1. Idle.seen[t] = 0
    BY DEF Idle
  <1> QED BY <1>1 DEF OnceIsFirst

LEMMA RunKnows ==
  ASSUME TypeOK, TypeOK', RunInv, NEW w \in Workers, Run(w)
  PROVE  Knows(w)'
  <1>1. tick[w] \in TickRow /\ tick[w].now <= now /\ now \in 0..Horizon
    BY DEF TypeOK, RunInv, Knows
  <1>2. BatchDue(w) /\ RunningDue(w)
    BY DEF RunInv, Knows
  <1>3. CASE StartTick(w)
    BY <1>1, <1>3, RestKnows DEF StartTick, TypeOK
  <1>4. CASE Expire(w)
    BY <1>1, <1>4, RestKnows DEF Expire, TypeOK
  <1>5. CASE Load(w)
    <2>1. /\ tick'[w].at = "template" /\ tick'[w].now = now /\ now' = now
          /\ tick'[w].batch = {t \in Templates: Due(t)}
          /\ tick'[w].seen = cursor
      BY <1>5 DEF Load, TypeOK, TickRow
    <2>2. \A t \in tick'[w].batch: 1 <= tick'[w].seen[t]
                                  /\ tick'[w].seen[t] <= tick'[w].now
      BY <2>1 DEF Due, TypeOK
    <2> QED BY <1>1, <2>1, <2>2
        DEF Knows, BatchDue, RunningDue, SkippedIsLogged, WasDue
  <1>6. CASE \E t \in Templates: Supersede(w, t)
    <2> PICK t \in Templates: Supersede(w, t)
      BY <1>6
    <2>1. /\ tick'[w].at = "check" /\ tick'[w].on = t
          /\ tick'[w].batch = tick[w].batch \ {t}
          /\ tick'[w].seen = tick[w].seen /\ tick'[w].now = tick[w].now
          /\ now' = now /\ t \in tick[w].batch /\ tick[w].at = "template"
      BY DEF Supersede, TypeOK, TickRow
    <2> QED BY <1>1, <1>2, <2>1
        DEF Knows, BatchDue, RunningDue, SkippedIsLogged, WasDue
  <1>7. CASE FinishBatch(w)
    <2>1. /\ tick'[w].now = 0 /\ now' = now
          /\ tick'[w].at \notin {"template", "check", "commit"}
      BY <1>7 DEF FinishBatch, Idle, TypeOK
    <2> QED BY <1>1, <2>1, RestKnows
  <1>8. CASE Check(w)
    <2>1. CASE tick' = RolledBack(w)
      <3>1. CASE tick[w].batch = {}
        <4>1. /\ tick'[w].at = "template" /\ tick'[w].batch = {}
              /\ tick'[w].now = tick[w].now /\ now' = now
          BY <1>1, <1>8, <2>1, <3>1 DEF Check, RolledBack, TypeOK, TickRow
        <4> QED BY <1>1, <4>1
            DEF Knows, BatchDue, RunningDue, SkippedIsLogged
      <3>2. CASE tick[w].batch # {}
        BY <2>1, <3>2, IdleKnows DEF RolledBack, TypeOK
      <3> QED BY <3>1, <3>2
    <2>2. CASE tick[w].on \notin Faulty
      <3>1. /\ tick[w].at = "check" /\ tick'[w].at = "commit" /\ now' = now
            /\ tick'[w].on = tick[w].on /\ tick'[w].now = tick[w].now
            /\ tick'[w].seen = tick[w].seen
            /\ tick'[w].batch = tick[w].batch
            /\ shape' = shape /\ ledger' = ledger
        BY <1>1, <1>8, <2>2 DEF Check, TypeOK, TickRow
      <3>2. tick'[w].insert = (<<tick[w].on, Occurrence(w)>> \notin ledger
                               /\ ~Covered(tick[w].on))
        BY <1>1, <1>8, <2>2 DEF Check, TypeOK, TickRow
      <3>3. Generated(w)' = <<tick[w].on, Occurrence(w)>>
        BY <3>1 DEF Generated, Occurrence, Once
      <3>4. shape[tick[w].on].target = "zone" => ~Covered(tick[w].on)
        BY DEF Covered
      <3>5. SkippedIsLogged(w)'
        BY <3>1, <3>2, <3>3, <3>4 DEF SkippedIsLogged
      <3> QED BY <1>1, <1>2, <3>1, <3>5 DEF Knows, BatchDue, RunningDue, WasDue
    <2> QED BY <1>8, <2>1, <2>2 DEF Check
  <1>9. CASE Commit(w)
    <2>1. CASE tick' = [tick EXCEPT ![w] = Idle]
      BY <2>1, IdleKnows DEF TypeOK
    <2>2. CASE tick' = [tick EXCEPT ![w].at = "template"]
      <3>1. /\ tick[w].at = "commit" /\ tick'[w].at = "template"
            /\ tick'[w].now = tick[w].now /\ tick'[w].seen = tick[w].seen
            /\ tick'[w].batch = tick[w].batch /\ now' = now
        BY <1>1, <1>9, <2>2 DEF Commit, TypeOK, TickRow
      <3> QED BY <1>1, <1>2, <3>1
          DEF Knows, BatchDue, RunningDue, SkippedIsLogged, WasDue
    <2> QED BY <1>9, <2>1, <2>2 DEF Commit
  <1>10. CASE Rollover(w)
    BY <1>10, IdleKnows DEF Rollover, TypeOK
  <1> QED BY <1>3, <1>4, <1>5, <1>6, <1>7, <1>8, <1>9, <1>10 DEF Run

\* What a step of a run leaves to the others.
LEMMA RunFrame ==
  ASSUME TypeOK, NEW w \in Workers, Run(w)
  PROVE  /\ \A v \in Workers \ {w}: tick'[v] = tick[v]
         /\ shape' = shape /\ now' = now /\ active' = active
         /\ ledger \subseteq ledger'
         /\ tick'[w].seen \in {tick[w].seen, cursor, Idle.seen}
         /\ ~Commit(w) => cursor' = cursor
  <1>1. CASE StartTick(w)
    BY <1>1 DEF StartTick, TypeOK, TickRow
  <1>2. CASE Expire(w)
    BY <1>2 DEF Expire, TypeOK, TickRow
  <1>3. CASE Load(w)
    BY <1>3 DEF Load, TypeOK, TickRow
  <1>4. CASE \E t \in Templates: Supersede(w, t)
    BY <1>4 DEF Supersede, TypeOK, TickRow
  <1>5. CASE FinishBatch(w)
    BY <1>5 DEF FinishBatch, TypeOK, Idle
  <1>6. CASE Check(w)
    <2>1. \/ tick' = [tick EXCEPT ![w] = [tick[w] EXCEPT !.at = "template"]]
          \/ tick' = [tick EXCEPT ![w] = Idle]
          \/ \E i \in BOOLEAN:
               tick' = [tick EXCEPT ![w].at = "commit", ![w].insert = i]
      BY <1>6 DEF Check, RolledBack
    <2>2. \/ tick'[w].seen = tick[w].seen
          \/ tick'[w] = Idle
      BY <2>1 DEF TypeOK, TickRow
    <2>3. \A v \in Workers \ {w}: tick'[v] = tick[v]
      BY <2>1 DEF TypeOK
    <2> QED BY <1>6, <2>2, <2>3 DEF Check
  <1>7. CASE Commit(w)
    <2>1. \/ tick' = [tick EXCEPT ![w] = Idle]
          \/ tick' = [tick EXCEPT ![w].at = "template"]
      BY <1>7 DEF Commit
    <2> QED BY <1>7, <2>1 DEF Commit, TypeOK, TickRow
  <1>8. CASE Rollover(w)
    BY <1>8 DEF Rollover, TypeOK
  <1> QED BY <1>1, <1>2, <1>3, <1>4, <1>5, <1>6, <1>7, <1>8 DEF Run

LEMMA NextInv == TypeOK /\ RunInv /\ [Next]_vars => TypeOK' /\ RunInv'
  <1> SUFFICES ASSUME TypeOK, RunInv, [Next]_vars
               PROVE  TypeOK' /\ RunInv'
    OBVIOUS
  <1>1. ASSUME NEW w \in Workers, Run(w)
        PROVE  TypeOK' /\ RunInv'
    <2>1. TypeOK'
      BY <1>1, RunType
    <2>2. ASSUME NEW v \in Workers
          PROVE  Knows(v)'
      <3>1. CASE v = w
        BY <1>1, <2>1, <3>1, RunKnows
      <3>2. CASE v # w
        BY <1>1, <2>1, <3>2, RunFrame, OthersKnow DEF RunInv, TypeOK
      <3> QED BY <3>1, <3>2
    <2>3. CASE ~Commit(w)
      <3>1. \A v \in Workers: tick'[v].seen \in {tick[v].seen, cursor, Idle.seen}
        BY <1>1, RunFrame
      <3>2. shape' = shape /\ cursor' = cursor
        BY <1>1, <2>3, RunFrame
      <3> QED BY <2>1, <2>2, <3>1, <3>2, OnceKept DEF RunInv
    <2>4. CASE Commit(w)
      <3>1. tick[w].on \in Templates
              /\ (Once(tick[w].on) => NextCursor(w) = 0)
        BY <2>4, OccurrenceRange DEF Commit
      <3>2. \/ cursor' = cursor
            \/ cursor' = [cursor EXCEPT ![tick[w].on] = NextCursor(w)]
        BY <2>4 DEF Commit
      <3>3. \A t \in Templates: Once(t) => cursor'[t] <= 1
        BY <3>1, <3>2 DEF RunInv, OnceIsFirst, TypeOK
      <3>4. \/ tick' = [tick EXCEPT ![w] = Idle]
            \/ tick' = [tick EXCEPT ![w].at = "template"]
        BY <2>4 DEF Commit
      <3>5. \A v \in Workers: tick'[v].seen \in {tick[v].seen, Idle.seen}
        BY <3>4 DEF TypeOK, TickRow
      <3>6. \A t \in Templates: Idle.seen[t] = 0
        BY DEF Idle
      <3>7. shape' = shape
        BY <2>4 DEF Commit
      <3>8. \A t \in Templates: Once(t)' = Once(t)
        BY <3>7 DEF Once
      <3>9. \A t \in Templates, v \in Workers:
              Once(t) => tick'[v].seen[t] <= 1
        BY <3>5, <3>6 DEF RunInv, OnceIsFirst
      <3>10. OnceIsFirst'
        BY <3>3, <3>8, <3>9 DEF OnceIsFirst
      <3> QED BY <2>1, <2>2, <3>10 DEF RunInv
    <2> QED BY <2>1, <2>2, <2>3, <2>4 DEF RunInv
  <1>2. ASSUME NEW w \in Workers, Crash(w)
        PROVE  TypeOK' /\ RunInv'
    <2>1. TypeOK'
      <3>1. crashes' \in 0..MaxCrashes
        BY <1>2, TimeAssumption DEF Crash, TypeOK
      <3> QED BY <1>2, <3>1, IdleRow DEF Crash, TypeOK
    <2>2. ASSUME NEW v \in Workers
          PROVE  Knows(v)'
      <3>1. CASE v = w
        BY <1>2, <2>1, <3>1, IdleKnows DEF Crash, TypeOK
      <3>2. CASE v # w
        BY <1>2, <2>1, <3>2, OthersKnow DEF RunInv, Crash, TypeOK
      <3> QED BY <3>1, <3>2
    <2>3. OnceIsFirst'
      BY <1>2, OnceKept DEF Crash, RunInv, TypeOK
    <2> QED BY <2>1, <2>2, <2>3 DEF RunInv
  <1>3. ASSUME NEW t \in Templates, People(t)
        PROVE  TypeOK' /\ RunInv'
    <2>1. TypeOK'
      BY <1>3, PeopleType
    <2>2. tick' = tick /\ shape' = shape /\ ledger' = ledger /\ now' = now
      BY <1>3 DEF People, SetStatus, Submit, Complete, Review, Reopen,
                  Delete, Set
    <2>3. \A v \in Workers: Knows(v)'
      BY <2>1, <2>2, OthersKnow DEF RunInv, TypeOK
    <2>4. CASE \E on \in BOOLEAN: SetStatus(t, on)
      <3>1. \A u \in Templates: Once(u) => cursor'[u] <= 1
        BY <2>4, ActivatedRange DEF SetStatus, RunInv, OnceIsFirst, TypeOK
      <3> QED BY <2>1, <2>2, <2>3, <3>1 DEF RunInv, OnceIsFirst, Once
    <2>5. CASE cursor' = cursor
      BY <2>1, <2>2, <2>3, <2>5, OnceKept DEF RunInv
    <2> QED BY <1>3, <2>4, <2>5
        DEF People, Submit, Complete, Review, Reopen, Delete, Set
  <1>4. CASE Pass
    <2>1. TypeOK'
      BY <1>4, TimeAssumption DEF Pass, TypeOK
    <2>2. \A v \in Workers: Knows(v)'
      BY <1>4, <2>1, OthersKnow DEF Pass, RunInv, TypeOK
    <2> QED BY <1>4, <2>1, <2>2, OnceKept DEF Pass, RunInv
  <1>5. CASE UNCHANGED vars
    <2>1. TypeOK'
      BY <1>5 DEF vars, TypeOK
    <2>2. \A v \in Workers: Knows(v)'
      BY <1>5, <2>1, OthersKnow DEF vars, RunInv, TypeOK
    <2> QED BY <1>5, <2>1, <2>2, OnceKept DEF vars, RunInv
  <1> QED BY <1>1, <1>2, <1>3, <1>4, <1>5 DEF Next

LEMMA InvHolds == Spec => [](TypeOK /\ RunInv)
  BY InitInv, NextInv, PTL DEF Spec

\* Type correctness of templates, cursors, tasks, ledger and workers, for
\* any number of each: no schedule runs past its end (compute_next_run).
THEOREM TypeCorrect == Spec => []TypeOK
  BY InvHolds, PTL

-----------------------------------------------------------------------------
(* The ledger *)

\* No step of a run but its commit opens anything.
LEMMA RunOpens ==
  ASSUME TypeOK, NEW w \in Workers, Run(w), ~Commit(w),
         NEW t \in Templates, NEW o \in Occurrences, work'[t][o] = "open"
  PROVE  work[t][o] = "open"
  <1>1. CASE Expire(w)
    <2>1. work'[t][o] = IF work[t][o] = "open" /\ Dead(t, o)
                        THEN "superseded" ELSE work[t][o]
      BY <1>1 DEF Expire
    <2> QED BY <2>1
  <1>2. CASE \E u \in Templates: Supersede(w, u)
    <2> PICK u \in Templates: Supersede(w, u)
      BY <1>2
    <2>1. CASE u = t
      BY <2>1 DEF Supersede, TypeOK
    <2>2. CASE u # t
      BY <2>2 DEF Supersede, TypeOK
    <2> QED BY <2>1, <2>2
  <1>3. CASE Rollover(w)
    <2>1. work'[t][o] \in {"rolled", work[t][o]}
      BY <1>3 DEF Rollover
    <2> QED BY <2>1
  <1>4. CASE UNCHANGED work
    BY <1>4
  <1> QED BY <1>1, <1>2, <1>3, <1>4
      DEF Run, StartTick, Load, FinishBatch, Check

\* Whatever the workers and the crashes, an occurrence is generated at most
\* once: only a commit brings a task into being, and only one that is not
\* in the ledger ("idempotent via the ledger", _generate_for_target).
THEOREM AtMostOnce == Spec => GeneratedOnce
  <1>1. ASSUME TypeOK, RunInv, Next, NEW t \in Templates,
               NEW o \in Occurrences, work[t][o] = "none",
               work'[t][o] = "open"
        PROVE  <<t, o>> \notin ledger
    <2>1. ASSUME NEW w \in Workers, Run(w)
          PROVE  <<t, o>> \notin ledger
      <3>1. CASE Commit(w)
        <4>1. tick[w].on \in Templates /\ Occurrence(w) \in Occurrences
          BY <1>1, <3>1, OccurrenceRange DEF Commit
        <4>2. /\ work' = [work EXCEPT ![tick[w].on][Occurrence(w)] = "open"]
              /\ Generated(w) \notin ledger
          BY <1>1, <3>1 DEF Commit
        <4>3. t = tick[w].on /\ o = Occurrence(w)
          BY <1>1, <4>1, <4>2 DEF TypeOK
        <4> QED BY <4>2, <4>3 DEF Generated
      <3>2. CASE ~Commit(w)
        BY <1>1, <2>1, <3>2, RunOpens
      <3> QED BY <3>1, <3>2
    <2>2. ASSUME NEW u \in Templates, People(u)
          PROVE  FALSE
      <3>1. CASE \E on \in BOOLEAN: SetStatus(u, on)
        BY <1>1, <3>1 DEF SetStatus
      <3>2. ASSUME NEW p \in Occurrences,
                   Submit(u, p) \/ Complete(u, p) \/ Review(u, p)
                     \/ Reopen(u, p) \/ Delete(u, p)
            PROVE  FALSE
        <4>1. PICK s: Set(u, p, s) /\ (s = "open" => work[u][p] # "none")
          BY <3>2 DEF Submit, Complete, Review, Reopen, Delete
        <4>2. CASE u = t /\ p = o
          BY <1>1, <4>1, <4>2 DEF Set, TypeOK
        <4>3. CASE ~(u = t /\ p = o)
          BY <1>1, <4>1, <4>3 DEF Set, TypeOK
        <4> QED BY <4>2, <4>3
      <3> QED BY <2>2, <3>1, <3>2 DEF People
    <2>3. CASE \E w \in Workers: Crash(w)
      BY <1>1, <2>3 DEF Crash
    <2>4. CASE Pass
      BY <1>1, <2>4 DEF Pass
    <2> QED BY <1>1, <2>1, <2>2, <2>3, <2>4 DEF Next
  <1>2. TypeOK /\ RunInv /\ [Next]_vars =>
          [\A t \in Templates, o \in Occurrences:
             work[t][o] = "none" /\ work'[t][o] = "open"
             => <<t, o>> \notin ledger]_vars
    BY <1>1
  <1> QED BY <1>2, InvHolds, PTL DEF Spec, GeneratedOnce

\* A due template stays due unless its cursor or its status changes.
LEMMA StaysDue ==
  ASSUME TypeOK, TypeOK', NEW t \in Templates, Due(t), active'[t] = active[t],
         cursor'[t] = cursor[t], now <= now'
  PROVE  Due(t)'
  <1>1. cursor[t] \in 0..Horizon /\ now \in 0..Horizon /\ now' \in 0..Horizon
    BY DEF TypeOK
  <1> QED BY <1>1 DEF Due

\* What a run's commit makes of the template it runs, if it passes a due
\* occurrence of it.
LEMMA CommitMaterialises ==
  ASSUME TypeOK, RunInv, NEW w \in Workers, Commit(w),
         NEW t \in Templates, tick[w].on = t,
         Due(t), ~Due(t)', shape[t].target = "zone"
  PROVE  Materialised(t)
  <1>1. /\ t \in Templates /\ Occurrence(w) \in Occurrences
        /\ Occurrence(w) <= now /\ NextCursor(w) \in 0..Horizon
        /\ (Once(t) => Occurrence(w) = 1)
    BY OccurrenceRange DEF Commit
  <1>2. /\ active[t] /\ cursor[t] \in 0..Horizon /\ cursor[t] <= now
        /\ now \in 0..Horizon
    BY <1>1 DEF Due, TypeOK
  <1>3. cursor'[t] # cursor[t]
    BY DEF Commit, Due
  <1>4. ~(Insertable(w) /\ Generated(w) \in ledger)
    BY <1>3 DEF Commit
  <1>5. cursor'[t] = NextCursor(w)
    BY <1>1, <1>4 DEF Commit, TypeOK
  <1>6. NextCursor(w) = 0 \/ ~(NextCursor(w) <= now)
    BY <1>2, <1>5 DEF Due, Commit
  <1>7. cursor[t] <= Occurrence(w)
    <2>1. CASE Once(t)
      BY <1>1, <1>2, <2>1 DEF RunInv, OnceIsFirst
    <2>2. CASE ~Once(t)
      <3>1. Occurrence(w) \in 0..Horizon /\ Horizon \in Nat
        BY <1>1, TimeAssumption DEF Occurrences
      <3>2. \/ Occurrence(w) = Horizon
            \/ NextCursor(w) # 0 /\ NextCursor(w) = Occurrence(w) + 1
        BY <1>1, <2>2, <3>1, NextRunRange DEF NextCursor
      <3> QED BY <1>1, <1>2, <1>6, <3>1, <3>2
    <2> QED BY <2>1, <2>2
  <1>8. Generated(w) = <<t, Occurrence(w)>>
    BY DEF Generated
  <1>9. Generated(w) \in ledger'
    <2>1. CASE tick[w].insert
      <3>1. Insertable(w)
        BY <2>1 DEF Insertable, Covered
      <3> QED BY <1>4, <3>1 DEF Commit
    <2>2. CASE ~tick[w].insert
      BY <2>2 DEF RunInv, Knows, SkippedIsLogged, Commit
    <2> QED BY <2>1, <2>2
  <1>10. Occurrence(w) \in cursor[t]..now
    BY <1>1, <1>2, <1>7, TimeAssumption DEF Occurrences
  <1> QED BY <1>8, <1>9, <1>10 DEF Materialised

\* The cursor of a template whose target is not a room moves past a due
\* occurrence only when that occurrence, or a later one, has its ledger row:
\* for any number of workers, crashes and failed generations (run_due).
THEOREM NothingLost == Spec => NoLostOccurrence
  <1>1. ASSUME TypeOK, RunInv, Next, NEW t \in Templates,
               shape[t].target = "zone", Passed(t)
        PROVE  Materialised(t)
    <2>1. TypeOK'
      BY <1>1, NextInv
    <2>2. Due(t) /\ ~Due(t)' /\ ~\E on \in BOOLEAN: SetStatus(t, on)
      BY <1>1 DEF Passed
    <2>3. ~(active'[t] = active[t] /\ cursor'[t] = cursor[t] /\ now <= now')
      BY <1>1, <2>1, <2>2, StaysDue
    <2>4. now \in 0..Horizon
      BY <1>1 DEF TypeOK
    <2>5. ASSUME NEW w \in Workers, Run(w)
          PROVE  Materialised(t)
      <3>1. Commit(w)
        BY <1>1, <2>3, <2>4, <2>5, RunFrame
      <3>2. tick[w].on = t
        <4>1. \/ cursor' = cursor
              \/ cursor' = [cursor EXCEPT ![tick[w].on] = NextCursor(w)]
          BY <3>1 DEF Commit
        <4> QED BY <1>1, <2>3, <2>4, <3>1, <4>1 DEF Commit, TypeOK
      <3> QED BY <1>1, <2>2, <3>1, <3>2, CommitMaterialises
    <2>6. ASSUME NEW u \in Templates, People(u)
          PROVE  FALSE
      <3>1. ASSUME NEW on \in BOOLEAN, SetStatus(u, on)
            PROVE  FALSE
        <4>1. u # t
          BY <2>2, <3>1
        <4> QED BY <1>1, <2>3, <2>4, <3>1, <4>1 DEF SetStatus, TypeOK
      <3>2. ASSUME active' = active, cursor' = cursor, now' = now
            PROVE  FALSE
        BY <2>3, <2>4, <3>2
      <3> QED BY <2>6, <3>1, <3>2
          DEF People, Submit, Complete, Review, Reopen, Delete, Set
    <2>7. ~\E w \in Workers: Crash(w)
      BY <2>3, <2>4 DEF Crash
    <2>8. ~Pass
      BY <2>3, <2>4 DEF Pass
    <2> QED BY <1>1, <2>5, <2>6, <2>7, <2>8 DEF Next
  <1>2. TypeOK /\ RunInv /\ [Next]_vars =>
          [\A t \in Templates: shape[t].target = "zone" /\ Passed(t)
                             => Materialised(t)]_vars
    BY <1>1
  <1> QED BY <1>2, InvHolds, PTL DEF Spec, NoLostOccurrence

=============================================================================
