----------------------------- MODULE UnitStore ------------------------------
(* The lists the web client shows and how they follow the server: the       *)
(* store's own operations, the shared refresh refreshUnitsScoped with its   *)
(* follow-up passes, the direct reads some operations start, and the poll,  *)
(* which pauses in a hidden tab.  Every list stands for one of its rows: a  *)
(* version at the server, and the version the store shows.  Requests are    *)
(* answered, lost and applied in steps of their own, so answers overtake    *)
(* each other; the code between two awaits is one step.                     *)
EXTENDS Naturals

CONSTANTS
  Lists,       \* the lists of the store
  Units,       \* those that hold units: rooms, dorms, washrooms
  Polled,      \* those the poll reads
  Commands,    \* the operations, as WebCommands describes them
  Calls,       \* operations that may be under way at once
  MaxChanges,  \* bound: changes of the server, by this tab or another
  MaxLosses,   \* bound: requests that are lost
  Guess,       \* what an optimistic move shows
  Unread,      \* a list nobody is reading
  Asked,       \* a list that is asked for and not yet answered
  NoScope      \* no follow-up pass is pending

CommandRecords ==
  [writes : SUBSET Lists, rows : SUBSET Lists, adds : SUBSET Lists,
   guess : SUBSET Lists, reads : SUBSET Lists, asks : SUBSET SUBSET Lists]

ASSUME StoreAssumptions ==
  /\ Units \subseteq Polled /\ Polled \subseteq Lists
  /\ Commands \subseteq CommandRecords
  /\ MaxChanges \in Nat /\ MaxLosses \in Nat
  /\ Guess \notin Nat /\ Unread \notin Nat /\ Asked \notin Nat
  /\ Unread # Asked
  /\ \A scope \in SUBSET Lists : scope # NoScope

VARIABLES
  server,   \* the version of each list at the server
  shown,    \* the version of each list in the store
  doubled,  \* lists that show a row twice
  run,      \* refreshUnitsInFlight: idle, fetching, or waiting to be painted
  pass,     \* the reads of its pass
  pending,  \* refreshUnitsPendingScope
  poll,     \* usePolling's inFlight: a tick waits for the refresh
  visible,  \* document.visibilityState
  call,     \* the operations under way
  reads,    \* the direct reads each operation has started
  changes, losses   \* how much of each bound is used

refresher == <<run, pass, pending>>
used == <<changes, losses>>
vars == <<server, shown, doubled, run, pass, pending, poll, visible, call, reads,
          changes, losses>>

Versions == Nat
ReadStates == Versions \cup {Unread, Asked}
NoReads == [l \in Lists |-> Unread]
Reading(scope) == [l \in Lists |-> IF l \in scope THEN Asked ELSE Unread]

NoCommand ==
  [writes |-> {}, rows |-> {}, adds |-> {}, guess |-> {}, reads |-> {}, asks |-> {}]

CallRecords ==
  [cmd : Commands \cup {NoCommand}, phase : {"idle", "sent", "ok", "failed"},
   answer : [Lists -> Versions], before : [Lists -> Versions \cup {Guess}]]

TypeOK ==
  /\ server \in [Lists -> Versions]
  /\ shown \in [Lists -> Versions \cup {Guess}]
  /\ doubled \subseteq Lists
  /\ run \in {"idle", "fetching", "painting"}
  /\ pass \in [Lists -> ReadStates]
  /\ (pending = NoScope \/ pending \subseteq Lists)
  /\ poll \in BOOLEAN /\ visible \in BOOLEAN
  /\ call \in [Calls -> CallRecords]
  /\ reads \in [Calls -> [Lists -> ReadStates]]
  /\ changes \in 0..MaxChanges /\ losses \in 0..MaxLosses

NoCall ==
  [cmd |-> NoCommand, phase |-> "idle", answer |-> [l \in Lists |-> 0],
   before |-> [l \in Lists |-> 0]]

Idle(c) == call[c].phase = "idle" /\ reads[c] = NoReads

\* The workspace has been loaded.
Init ==
  /\ server = [l \in Lists |-> 0] /\ shown = [l \in Lists |-> 0]
  /\ doubled = {}
  /\ run = "idle" /\ pass = NoReads /\ pending = NoScope
  /\ poll = FALSE /\ visible = TRUE
  /\ call = [c \in Calls |-> NoCall]
  /\ reads = [c \in Calls |-> NoReads]
  /\ changes = 0 /\ losses = 0

-----------------------------------------------------------------------------
(* refreshUnitsScoped.                                                      *)

\* { ...pending, ...scope }: a scope made for a target names every kind of
\* unit, those it does not ask for as false; the full scope names all.
Merged(scope) ==
  LET named == IF scope \subseteq Units THEN Units ELSE Polled
      before == IF pending = NoScope THEN {} ELSE pending
  IN (before \ named) \cup scope

\* With a run under way the scope waits for its next pass.
Refresh(scope) ==
  IF run = "idle"
  THEN /\ run' = "fetching" /\ pass' = Reading(scope) /\ pending' = NoScope
  ELSE pending' = Merged(scope) /\ UNCHANGED <<run, pass>>

\* Mutant: the run is over when its reads are, whoever waits for it.
PassEndsEarly ==
  /\ run = "fetching" /\ pass = NoReads
  /\ IF pending = NoScope
     THEN run' = "idle" /\ UNCHANGED <<pass, pending>>
     ELSE pass' = Reading(pending) /\ pending' = NoScope /\ UNCHANGED run
  /\ UNCHANGED <<server, shown, doubled, poll, visible, call, reads, used>>

\* All reads of a pass have ended: another pass for what was asked meanwhile,
\* or the wait for the next frame.
PassEnds ==
  /\ run = "fetching" /\ pass = NoReads
  /\ IF pending = NoScope
     THEN run' = "painting" /\ UNCHANGED <<pass, pending>>
     ELSE pass' = Reading(pending) /\ pending' = NoScope /\ UNCHANGED run
  /\ UNCHANGED <<server, shown, doubled, poll, visible, call, reads, used>>

\* Mutant: the tick is not told.
PaintSilently ==
  /\ run = "painting" /\ visible
  /\ run' = "idle"
  /\ UNCHANGED <<server, shown, doubled, pass, pending, poll, visible, call, reads, used>>

\* The frame: a hidden tab paints none.  The run is over, for the poll too.
\* A scope that came after the last pass is left behind.
Paint ==
  /\ run = "painting" /\ visible
  /\ run' = "idle" /\ poll' = FALSE
  /\ UNCHANGED <<server, shown, doubled, pass, pending, visible, call, reads, used>>

-----------------------------------------------------------------------------
(* The poll.                                                                *)

\* A tick is skipped while the last one still waits.
Tick ==
  IF poll THEN UNCHANGED <<poll, refresher>>
  ELSE poll' = TRUE /\ Refresh(Polled)

Interval ==
  /\ visible /\ ~poll
  /\ Tick
  /\ UNCHANGED <<server, shown, doubled, visible, call, reads, used>>

Hide ==
  /\ visible
  /\ visible' = FALSE
  /\ UNCHANGED <<server, shown, doubled, refresher, poll, call, reads, used>>

Show ==
  /\ ~visible
  /\ visible' = TRUE
  /\ Tick
  /\ UNCHANGED <<server, shown, doubled, call, reads, used>>

-----------------------------------------------------------------------------
(* Reads: of the run's pass, and direct ones.                               *)

\* The server answers with the list as it is.
AnswerPass(l) ==
  /\ pass[l] = Asked
  /\ pass' = [pass EXCEPT ![l] = server[l]]
  /\ UNCHANGED <<server, shown, doubled, run, pending, poll, visible, call, reads, used>>

AnswerRead(c, l) ==
  /\ reads[c][l] = Asked
  /\ reads' = [reads EXCEPT ![c][l] = server[l]]
  /\ UNCHANGED <<server, shown, doubled, refresher, poll, visible, call, used>>

\* A failed read leaves the list as it is.
LosePass(l) ==
  /\ pass[l] = Asked /\ losses < MaxLosses
  /\ pass' = [pass EXCEPT ![l] = Unread]
  /\ losses' = losses + 1
  /\ UNCHANGED <<server, shown, doubled, run, pending, poll, visible, call, reads, changes>>

LoseRead(c, l) ==
  /\ reads[c][l] = Asked /\ losses < MaxLosses
  /\ reads' = [reads EXCEPT ![c][l] = Unread]
  /\ losses' = losses + 1
  /\ UNCHANGED <<server, shown, doubled, refresher, poll, visible, call, changes>>

\* Mutant: a read spares what a move has guessed.
Show1Sparing(l, v) ==
  /\ shown' = IF shown[l] = Guess THEN shown ELSE [shown EXCEPT ![l] = v]
  /\ doubled' = doubled \ {l}

\* The answer replaces the list.
Show1(l, v) ==
  /\ shown' = [shown EXCEPT ![l] = v]
  /\ doubled' = doubled \ {l}

ArrivePass(l) ==
  /\ pass[l] \in Versions
  /\ Show1(l, pass[l])
  /\ pass' = [pass EXCEPT ![l] = Unread]
  /\ UNCHANGED <<server, run, pending, poll, visible, call, reads, used>>

ArriveRead(c, l) ==
  /\ reads[c][l] \in Versions
  /\ Show1(l, reads[c][l])
  /\ reads' = [reads EXCEPT ![c][l] = Unread]
  /\ UNCHANGED <<server, refresher, poll, visible, call, used>>

-----------------------------------------------------------------------------
(* The operations.                                                          *)

\* Of some versions, those of these lists.
Kept(lists, versions) == [l \in Lists |-> IF l \in lists THEN versions[l] ELSE 0]

\* The user starts one; what it guesses is shown at once, and what it would
\* roll back to is what the screen shows now.
Start(c, cmd) ==
  /\ Idle(c) /\ changes < MaxChanges
  /\ changes' = changes + 1
  /\ call' = [call EXCEPT ![c] = [NoCall EXCEPT !.cmd = cmd, !.phase = "sent",
                                               !.before = Kept(cmd.guess, shown)]]
  /\ shown' = [l \in Lists |-> IF l \in cmd.guess THEN Guess ELSE shown[l]]
  /\ UNCHANGED <<server, doubled, refresher, poll, visible, reads, losses>>

Bumped(writes) ==
  [l \in Lists |-> IF l \in writes THEN server[l] + 1 ELSE server[l]]

Serve(c) ==
  /\ call[c].phase = "sent"
  /\ server' = Bumped(call[c].cmd.writes)
  /\ call' = [call EXCEPT ![c].phase = "ok",
                          ![c].answer = Kept(call[c].cmd.rows \cup call[c].cmd.adds, server')]
  /\ UNCHANGED <<shown, doubled, refresher, poll, visible, reads, used>>

\* The server refuses, or the answer is lost with the change made.
Refuse(c) ==
  /\ call[c].phase = "sent"
  /\ call' = [call EXCEPT ![c].phase = "failed"]
  /\ UNCHANGED <<server, shown, doubled, refresher, poll, visible, reads, used>>

LoseAnswer(c) ==
  /\ call[c].phase = "ok" /\ losses < MaxLosses
  /\ losses' = losses + 1
  /\ call' = [call EXCEPT ![c].phase = "failed", ![c].answer = NoCall.answer]
  /\ UNCHANGED <<server, shown, doubled, refresher, poll, visible, reads, changes>>

\* Another session, the scheduler, or work that derives a unit.
Change(l) ==
  /\ changes < MaxChanges
  /\ changes' = changes + 1
  /\ server' = Bumped({l})
  /\ UNCHANGED <<shown, doubled, refresher, poll, visible, call, reads, losses>>

\* Success: the rows of the answer are shown, whatever is shown by now; a row
\* is appended, shown twice if a read has brought it before; lists are read
\* again and the refresh is asked for.
Applied(c) ==
  LET cmd == call[c].cmd IN
  [l \in Lists |-> IF l \in cmd.rows \cup cmd.adds THEN call[c].answer[l] ELSE shown[l]]

Known(c) ==
  {l \in call[c].cmd.adds : shown[l] \in Versions /\ shown[l] >= call[c].answer[l]}

Finish(c) ==
  LET cmd == call[c].cmd IN
  /\ call[c].phase = "ok"
  /\ shown' = Applied(c)
  /\ doubled' = doubled \cup Known(c)
  /\ reads' = [reads EXCEPT ![c] = Reading(cmd.reads)]
  /\ IF cmd.asks = {} THEN UNCHANGED refresher
     ELSE \E scope \in cmd.asks : Refresh(scope)
  /\ call' = [call EXCEPT ![c] = NoCall]
  /\ UNCHANGED <<server, poll, visible, used>>

\* Failure: a guess is rolled back to what was shown when it was made.
Fail(c) ==
  /\ call[c].phase = "failed"
  /\ shown' = [l \in Lists |-> IF l \in call[c].cmd.guess THEN call[c].before[l]
                              ELSE shown[l]]
  /\ call' = [call EXCEPT ![c] = NoCall]
  /\ UNCHANGED <<server, doubled, refresher, poll, visible, reads, used>>

-----------------------------------------------------------------------------
Answer(c) == Serve(c) \/ Refuse(c) \/ LoseAnswer(c) \/ Finish(c) \/ Fail(c)

ReadStep(c, l) == AnswerRead(c, l) \/ LoseRead(c, l) \/ ArriveRead(c, l)

PassStep(l) == AnswerPass(l) \/ LosePass(l) \/ ArrivePass(l)

Next ==
  \/ PassEnds \/ Paint \/ Interval \/ Hide \/ Show
  \/ \E l \in Lists : PassStep(l) \/ Change(l)
  \/ \E c \in Calls : Answer(c)
  \/ \E c \in Calls, cmd \in Commands : Start(c, cmd)
  \/ \E c \in Calls, l \in Lists : ReadStep(c, l)

\* Requests end, the browser paints a visible tab and its timer fires.  The
\* user owes nothing: not even to come back to the tab.
Fairness ==
  /\ WF_vars(PassEnds) /\ WF_vars(Paint) /\ WF_vars(Interval)
  /\ \A l \in Lists : WF_vars(PassStep(l))
  /\ \A c \in Calls : WF_vars(Answer(c))
  /\ \A c \in Calls, l \in Lists : WF_vars(ReadStep(c, l))

Spec == Init /\ [][Next]_vars /\ Fairness

-----------------------------------------------------------------------------
(* Properties.                                                              *)

\* Whatever overtakes what, fails, is dropped from a follow-up scope, or is
\* rolled back to a guess: once the changes stop and the tab stays visible,
\* the polled lists agree with the server for good (usePolling.ts,
\* AppContext refreshUnits).
Converges ==
  <>[]visible => <>[](\A l \in Polled : shown[l] = server[l] /\ l \notin doubled)

\* The refresh is a single flight (AppContext refreshUnitsInFlight,
\* usePolling inFlight).
Single == INSTANCE SingleFlight
            WITH Callers <- {"poll"}, flight <- run # "idle",
                 waiting <- IF poll THEN {"poll"} ELSE {}
RefreshIsSingleFlight == Single!Spec

\* A tick that waits is let go, if the tab stays visible.
PollEnds == <>[]visible => []<>~poll

=============================================================================
