----------------------------- MODULE Scheduler ------------------------------
(***************************************************************************)
(* Work templates, and the ticks that generate their tasks.                *)
(*                                                                         *)
(* A template has a schedule and a cursor, the next occurrence to run.  A  *)
(* tick closes what has expired, generates the latest due occurrence of    *)
(* every due template, moves the cursors and rolls the day over.  Several  *)
(* workers tick at once: the Redis lock of a tick expires before the tick  *)
(* need end, is skipped without Redis, and the manual trigger never asks   *)
(* for it, so it excludes nothing and is not modelled.  What keeps the     *)
(* workers apart is a ledger row per (template, occurrence) and one open   *)
(* task per (room, title).                                                 *)
(*                                                                         *)
(* Each template has one target.  Time is counted in occurrences: every    *)
(* recurring schedule has one at each instant from 1 to Horizon, its end   *)
(* date; a one-time schedule is dated 1.  0 stands for "none".             *)
(***************************************************************************)
EXTENDS Naturals, FiniteSets

CONSTANTS
  Templates,
  Targets,    \* what a template may target: "room", "zone"
  Schedules,  \* how it may be scheduled: "recurring", "once"
  Faulty,     \* templates whose generation raises
  Workers,    \* whoever runs the templates at a time
  Triggers,   \* the workers that are requests to the manual trigger
  Horizon,    \* the last instant, and the end of the schedules
  DayLength,  \* instants per operational day
  MaxCrashes, \* bound on worker crashes
  NoTemplate

ASSUME TemplatesAssumption ==
  /\ Targets \subseteq {"room", "zone"}
  /\ Schedules \subseteq {"recurring", "once"}
  /\ Faulty \subseteq Templates
  /\ NoTemplate \notin Templates
  /\ Triggers \subseteq Workers
ASSUME TimeAssumption ==
  /\ Horizon \in Nat \ {0}
  /\ DayLength \in Nat \ {0}
  /\ MaxCrashes \in Nat

VARIABLES
  now,
  shape,   \* what each template was created as: its target, its schedule,
           \* and the start of its company's operational day
  active,  \* is the template active (or paused)?
  cursor,  \* next_run_at
  work,    \* the task of each occurrence, by its status
  ledger,  \* the (template, occurrence) pairs ever generated
  tick,    \* where each worker is, and what it has read
  crashes

vars == <<now, shape, active, cursor, work, ledger, tick, crashes>>

Occurrences == 1..Horizon

\* "open" is pending, assigned, in progress or reopened; a task is abandoned
\* as superseded by its next occurrence, or rolled over with its day.
Open == {"open", "submitted"}
WorkStatuses == {"none", "completed", "superseded", "rolled"} \cup Open

Steps == {"idle", "expire", "load", "template", "check", "commit", "roll"}

\* now    the instant run_due began       batch  templates still to run
\* seen   the cursors as loaded           on     the template being run
\* insert the checks found nothing that forbids the insert
Idle == [at |-> "idle", now |-> 0, batch |-> {},
         seen |-> [t \in Templates |-> 0], on |-> NoTemplate,
         insert |-> FALSE]

TickRow == [at: Steps, now: 0..Horizon, batch: SUBSET Templates,
            seen: [Templates -> 0..Horizon],
            on: Templates \cup {NoTemplate}, insert: BOOLEAN]

TypeOK ==
  /\ now \in 0..Horizon
  /\ shape \in [Templates -> [target: Targets, schedule: Schedules,
                          dayStart: 0..(DayLength - 1)]]
  /\ active \in [Templates -> BOOLEAN]
  /\ cursor \in [Templates -> 0..Horizon]
  /\ work \in [Templates -> [Occurrences -> WorkStatuses]]
  /\ ledger \subseteq Templates \X Occurrences
  /\ tick \in [Workers -> TickRow]
  /\ crashes \in 0..MaxCrashes

-----------------------------------------------------------------------------
(* Schedules *)

Once(t) == shape[t].schedule = "once"

\* A schedule that forgets its end date.
EndlessNextRun(t, after) == IF Once(t) THEN 0 ELSE after + 1

\* compute_next_run(): the first occurrence strictly after an instant.
NextRun(t, after) ==
  IF Once(t) \/ after >= Horizon THEN 0 ELSE after + 1

\* On activation a one-time schedule dated in the past is due now.
Activated(t) == IF Once(t) THEN 1 ELSE NextRun(t, now)

\* The instance of o lives until the next occurrence, if there is one.
Expires(t, o) == NextRun(t, o)
Dead(t, o) == Expires(t, o) # 0 /\ Expires(t, o) <= now

\* operational_day_key()
Day(t, o) == (o + shape[t].dayStart) \div DayLength

Due(t) == active[t] /\ cursor[t] # 0 /\ cursor[t] <= now

Init ==
  /\ now = 0
  /\ shape \in [Templates -> [target: Targets, schedule: Schedules,
                          dayStart: 0..(DayLength - 1)]]
  /\ active = [t \in Templates |-> TRUE]
  /\ cursor = [t \in Templates |-> 1]
  /\ work = [t \in Templates |-> [o \in Occurrences |-> "none"]]
  /\ ledger = {}
  /\ tick = [w \in Workers |-> Idle]
  /\ crashes = 0

-----------------------------------------------------------------------------
(* A tick *)

\* The cron job or the embedded loop; or the manual trigger, which neither
\* expires nor rolls anything over.
StartTick(w) ==
  /\ tick[w].at = "idle"
  /\ tick' = [tick EXCEPT ![w].at = IF w \in Triggers THEN "load"
                                    ELSE "expire"]
  /\ UNCHANGED <<now, shape, active, cursor, work, ledger, crashes>>

\* A sweep that leaves the instances whose window ends now.
LateExpire(w) ==
  /\ tick[w].at = "expire"
  /\ work' = [t \in Templates |-> [o \in Occurrences |->
                IF work[t][o] = "open" /\ Dead(t, o) /\ Expires(t, o) < now
                THEN "superseded" ELSE work[t][o]]]
  /\ tick' = [tick EXCEPT ![w].at = "load"]
  /\ UNCHANGED <<now, shape, active, cursor, ledger, crashes>>

\* expire_due(): delivered work is not expirable.
Expire(w) ==
  /\ tick[w].at = "expire"
  /\ work' = [t \in Templates |-> [o \in Occurrences |->
                IF work[t][o] = "open" /\ Dead(t, o)
                THEN "superseded" ELSE work[t][o]]]
  /\ tick' = [tick EXCEPT ![w].at = "load"]
  /\ UNCHANGED <<now, shape, active, cursor, ledger, crashes>>

Load(w) ==
  /\ tick[w].at = "load"
  /\ tick' = [tick EXCEPT ![w].at = "template", ![w].now = now,
                          ![w].batch = {t \in Templates: Due(t)},
                          ![w].seen = cursor]
  /\ UNCHANGED <<now, shape, active, cursor, work, ledger, crashes>>

\* The latest occurrence that is due, and the cursor after it.
Occurrence(w) ==
  LET t == tick[w].on IN
  IF Once(t) THEN tick[w].seen[t] ELSE tick[w].now
NextCursor(w) == NextRun(tick[w].on, Occurrence(w))

\* The cursor follows the sweep instead of the generation.
EagerSupersede(w, t) ==
  /\ tick[w].at = "template" /\ t \in tick[w].batch
  /\ work' = [work EXCEPT ![t] = [o \in Occurrences |->
                IF @[o] = "open" /\ Expires(t, o) <= tick[w].now
                THEN "superseded" ELSE @[o]]]
  /\ tick' = [tick EXCEPT ![w].at = "check", ![w].on = t,
                          ![w].batch = @ \ {t}]
  /\ cursor' = [cursor EXCEPT ![t] = NextRun(t, tick[w].now)]
  /\ UNCHANGED <<now, shape, active, ledger, crashes>>

\* The template's own instances are expired first, those without a window
\* included, and the sweep commits.
Supersede(w, t) ==
  /\ tick[w].at = "template" /\ t \in tick[w].batch
  /\ work' = [work EXCEPT ![t] = [o \in Occurrences |->
                IF @[o] = "open" /\ Expires(t, o) <= tick[w].now
                THEN "superseded" ELSE @[o]]]
  /\ tick' = [tick EXCEPT ![w].at = "check", ![w].on = t,
                          ![w].batch = @ \ {t}]
  /\ UNCHANGED <<now, shape, active, cursor, ledger, crashes>>

FinishBatch(w) ==
  /\ tick[w].at = "template" /\ tick[w].batch = {}
  /\ tick' = [tick EXCEPT ![w] =
                IF w \in Triggers THEN Idle ELSE [Idle EXCEPT !.at = "roll"]]
  /\ UNCHANGED <<now, shape, active, cursor, work, ledger, crashes>>

\* A rollback expires every object of the session: the next template of the
\* batch cannot be read any more, and the whole tick fails with it.
RolledBack(w) ==
  [tick EXCEPT ![w] = IF @.batch = {} THEN [@ EXCEPT !.at = "template"]
                      ELSE Idle]

\* An open task of the same title already covers the room.
Covered(t) ==
  shape[t].target = "room" /\ \E o \in Occurrences: work[t][o] \in Open

\* The batched prechecks, on committed rows.
Check(w) ==
  /\ tick[w].at = "check"
  /\ tick' = IF tick[w].on \in Faulty THEN RolledBack(w)
             ELSE [tick EXCEPT ![w].at = "commit",
                     ![w].insert = /\ <<tick[w].on, Occurrence(w)>> \notin ledger
                                   /\ ~Covered(tick[w].on)]
  /\ UNCHANGED <<now, shape, active, cursor, work, ledger, crashes>>

\* Task, ledger row and cursor in one commit.  A title that was taken since
\* the check skips the target.  A ledger row that was fails the flush, and
\* the handler of that failure reads the template it has expired.
Insertable(w) == tick[w].insert /\ ~Covered(tick[w].on)
Generated(w) == <<tick[w].on, Occurrence(w)>>

\* A ledger without its unique constraint.
UnkeyedCommit(w) ==
  LET t == tick[w].on IN
  /\ tick[w].at = "commit"
  /\ IF Insertable(w)
     THEN /\ work' = [work EXCEPT ![t][Occurrence(w)] = "open"]
          /\ ledger' = ledger \cup {Generated(w)}
     ELSE UNCHANGED <<work, ledger>>
  /\ cursor' = [cursor EXCEPT ![t] = NextCursor(w)]
  /\ tick' = [tick EXCEPT ![w].at = "template"]
  /\ UNCHANGED <<now, shape, active, crashes>>

\* The cursor stays where nothing was generated.
StickyCommit(w) ==
  LET t == tick[w].on IN
  /\ tick[w].at = "commit"
  /\ IF Insertable(w) /\ Generated(w) \notin ledger
     THEN /\ work' = [work EXCEPT ![t][Occurrence(w)] = "open"]
          /\ ledger' = ledger \cup {Generated(w)}
          /\ cursor' = [cursor EXCEPT ![t] = NextCursor(w)]
     ELSE UNCHANGED <<work, ledger, cursor>>
  /\ tick' = [tick EXCEPT ![w].at = "template"]
  /\ UNCHANGED <<now, shape, active, crashes>>

Commit(w) ==
  LET t == tick[w].on
      conflict == Insertable(w) /\ Generated(w) \in ledger
  IN
  /\ tick[w].at = "commit"
  /\ IF Insertable(w) /\ ~conflict
     THEN /\ work' = [work EXCEPT ![t][Occurrence(w)] = "open"]
          /\ ledger' = ledger \cup {Generated(w)}
     ELSE UNCHANGED <<work, ledger>>
  /\ IF conflict
     THEN /\ tick' = [tick EXCEPT ![w] = Idle]
          /\ UNCHANGED cursor
     ELSE /\ tick' = [tick EXCEPT ![w].at = "template"]
          /\ cursor' = [cursor EXCEPT ![t] = NextCursor(w)]
  /\ UNCHANGED <<now, shape, active, crashes>>

\* The daily rollover closes delivered work too, unless its window is live.
Rollover(w) ==
  /\ tick[w].at = "roll"
  /\ work' = [t \in Templates |-> [o \in Occurrences |->
                IF work[t][o] \in Open /\ Expires(t, o) <= now
                   /\ Day(t, o) < Day(t, now)
                THEN "rolled" ELSE work[t][o]]]
  /\ tick' = [tick EXCEPT ![w] = Idle]
  /\ UNCHANGED <<now, shape, active, cursor, ledger, crashes>>

\* The process dies, or its job times out: nothing uncommitted remains.
Crash(w) ==
  /\ tick[w].at # "idle"
  /\ crashes < MaxCrashes
  /\ crashes' = crashes + 1
  /\ tick' = [tick EXCEPT ![w] = Idle]
  /\ UNCHANGED <<now, shape, active, cursor, work, ledger>>

-----------------------------------------------------------------------------
(* People *)

\* set_status() and update(): the cursor is computed afresh.
SetStatus(t, on) ==
  /\ active' = [active EXCEPT ![t] = on]
  /\ cursor' = [cursor EXCEPT ![t] = IF on THEN Activated(t) ELSE 0]
  /\ UNCHANGED <<now, shape, work, ledger, tick, crashes>>

Set(t, o, status) ==
  /\ work' = [work EXCEPT ![t][o] = status]
  /\ UNCHANGED <<now, shape, active, cursor, ledger, tick, crashes>>

Submit(t, o) ==
  /\ work[t][o] = "open" /\ ~Dead(t, o)
  /\ Set(t, o, "submitted")

Complete(t, o) ==
  /\ work[t][o] = "open" /\ ~Dead(t, o)
  /\ Set(t, o, "completed")

Review(t, o) ==
  /\ work[t][o] = "submitted"
  /\ \E verdict \in {"completed", "open"}: Set(t, o, verdict)

Reopen(t, o) ==
  /\ work[t][o] \in {"completed", "superseded", "rolled"}
  /\ ~Dead(t, o) /\ ~Covered(t)
  /\ Set(t, o, "open")

Delete(t, o) ==
  /\ work[t][o] # "none"
  /\ Set(t, o, "none")

Pass ==
  /\ now < Horizon
  /\ now' = now + 1
  /\ UNCHANGED <<shape, active, cursor, work, ledger, tick, crashes>>

-----------------------------------------------------------------------------

Run(w) ==
  \/ StartTick(w)
  \/ Expire(w)
  \/ Load(w)
  \/ \E t \in Templates: Supersede(w, t)
  \/ FinishBatch(w)
  \/ Check(w)
  \/ Commit(w)
  \/ Rollover(w)

People(t) ==
  \/ \E on \in BOOLEAN: SetStatus(t, on)
  \/ \E o \in Occurrences:
       \/ Submit(t, o)
       \/ Complete(t, o)
       \/ Review(t, o)
       \/ Reopen(t, o)
       \/ Delete(t, o)

Next ==
  \/ \E w \in Workers: Run(w) \/ Crash(w)
  \/ \E t \in Templates: People(t)
  \/ Pass

\* The scheduler goes on: cron starts a tick every minute, and a job that is
\* not killed runs to its end.  Nothing is assumed of people or of time.
Fairness == \A w \in Workers \ Triggers: WF_vars(Run(w))

Spec == Init /\ [][Next]_vars /\ Fairness

-----------------------------------------------------------------------------
(* Properties *)

\* No occurrence is generated twice, by whatever workers run it, also not
\* after its task was deleted: "idempotent via the ledger" (_generate, the
\* unique constraint of template_generations).
GeneratedOnce ==
  [][\A t \in Templates, o \in Occurrences:
       work[t][o] = "none" /\ work'[t][o] = "open"
       => <<t, o>> \notin ledger]_vars

\* A due occurrence is not lost: a worker that dies, fails or is overtaken
\* moves the cursor past it only when it, or a later one that supersedes
\* it, has been generated (run_due: the cursor follows the generation).
Passed(t) == Due(t) /\ ~Due(t)' /\ ~\E on \in BOOLEAN: SetStatus(t, on)
Materialised(t) == \E o \in cursor[t]..now: <<t, o>> \in ledger'

NoLostOccurrence ==
  [][\A t \in Templates: shape[t].target = "zone" /\ Passed(t)
                          => Materialised(t)]_vars

\* An occurrence whose window has ended does not stay open: nobody can work
\* on it any more, and a sweep closes it in spite of crashes.
DeadOccurrencesClose ==
  \A t \in Templates, o \in Occurrences:
    (work[t][o] = "open" /\ Dead(t, o)) ~> (work[t][o] # "open")

\* Every due template is run, unless generating it fails: no crash, race or
\* open task keeps its cursor in the past for ever.
CatchUp == \A t \in Templates \ Faulty: Due(t) ~> ~Due(t)

=============================================================================
