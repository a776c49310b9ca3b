----------------------------- MODULE TaskReview -----------------------------
(***************************************************************************)
(* One task, its submissions, and the calls that act on it at once.        *)
(*                                                                         *)
(* A handler of the task service reads the task, then its submissions, in  *)
(* statements of their own and without a lock; it decides, and writes the  *)
(* columns it changed whatever the row has become since.  An UPDATE locks  *)
(* the row until the commit.  A sweep finds the task by its status, and    *)
(* repeats the condition in its UPDATE.                                    *)
(*                                                                         *)
(* The task's room is RoomState's; who may call is left out.               *)
(***************************************************************************)
EXTENDS ResourceDomain, Naturals, Sequences, FiniteSets

CONSTANTS
  Txns,         \* the concurrent calls
  MaxAttempts,  \* bound on submissions
  Nobody        \* holder of a row that is not locked

ASSUME NobodyAssumption == Nobody \notin Txns
ASSUME AttemptsAssumption == MaxAttempts \in Nat

VARIABLES
  task,    \* the row: its status, and whether it bears a completion date
           \* and the marks of an abandonment
  window,  \* its occurrence's validity: "none", "live" or "over"
  sub,     \* the verdicts on its submissions, by attempt number
  call,    \* the calls: what each read, and how far it is
  holder   \* the call that has updated the row and not committed

vars == <<task, window, sub, call, holder>>

TaskRow == [status: TaskStatuses, dated: BOOLEAN, marked: BOOLEAN]
Verdicts == {"pending", "approved", "disapproved"}
Sweeps == {"expire", "rollover"}
Deliveries == {"submit", "complete"}
Reviews == {"approve", "reject"}
Ops == {"start", "redo", "reopen"} \cup Deliveries \cup Reviews \cup Sweeps

Idle == [op |-> "none", at |-> "idle",
         seen |-> [status |-> "pending", dated |-> FALSE, marked |-> FALSE],
         review |-> 0, attempt |-> 0]

CallRow ==
  [op: Ops \cup {"none"}, seen: TaskRow,
   at: {"idle", "submissions", "update", "number", "commit"}, \* next step
   review: Nat,   \* the attempt a reviewer found pending, or 0
   attempt: Nat]  \* the number of a new submission, or 0

TypeOK ==
  /\ task \in TaskRow
  /\ window \in {"none", "live", "over"}
  /\ sub \in Seq(Verdicts)
  /\ call \in [Txns -> CallRow]
  /\ holder \in Txns \cup {Nobody}

Init ==
  /\ task \in [status: {"pending", "assigned", "scheduled"},
               dated: {FALSE}, marked: {FALSE}]
  /\ window \in {"none", "live"}
  /\ sub = <<>>
  /\ call = [x \in Txns |-> Idle]
  /\ holder = Nobody

-----------------------------------------------------------------------------
(* What a call checks, on the task it read *)

Ended == {"completed", "abandoned"}

\* The status guards.
Accepts(op, status) ==
  CASE op = "start" -> status \in {"pending", "assigned", "reopened"}
    [] op \in Deliveries \cup {"redo"} -> status \notin Ended \cup {"submitted"}
    [] op \in Reviews -> status = "submitted"
    [] op = "reopen" -> status \in Ended
    [] op = "expire" -> status \in ExpirableStatuses
    [] OTHER -> status \in OpenStatuses

\* _raise_if_expired(), and the windows a sweep selects: a scoped expiry
\* takes windowless tasks too, and one with a boundary of its own also live
\* ones.  Reviewing and redoing have no deadline, and whether the task's day
\* is past is left open.
InTime(op) ==
  CASE op \in {"start", "reopen"} \cup Deliveries -> window # "over"
    [] op = "rollover" -> window # "live"
    [] OTHER -> TRUE

\* The bound on submissions, those under way included.
HasRoom(op) ==
  op \in Deliveries =>
    Len(sub) + Cardinality({x \in Txns: call[x].op \in Deliveries})
      < MaxAttempts

-----------------------------------------------------------------------------
(* The statements of a call *)

\* _get_task() and the guards, or a sweep's SELECT.  A call that fails its
\* guards has no effect.
ReadTask(x, op) ==
  /\ call[x] = Idle
  /\ Accepts(op, task.status) /\ InTime(op) /\ HasRoom(op)
  /\ call' = [call EXCEPT ![x] = [Idle EXCEPT
                !.op = op, !.seen = task,
                !.at = IF op \in Reviews THEN "submissions" ELSE "update"]]
  /\ UNCHANGED <<task, window, sub, holder>>

Pending == {n \in DOMAIN sub: sub[n] = "pending"}

\* _latest_pending_submission(): attempt n, or 0 if none is pending.
IsLatestPending(n) ==
  \/ n \in Pending /\ \A m \in Pending: m <= n
  \/ n = 0 /\ Pending = {}

\* The submissions are loaded by a statement of their own, so a reviewer may
\* see a task and its submissions at different times.
ReadSubmissions(x) ==
  /\ call[x].at = "submissions"
  /\ \E n \in 0..Len(sub):
       /\ IsLatestPending(n)
       /\ call' = [call EXCEPT ![x].at = "update", ![x].review = n]
  /\ UNCHANGED <<task, window, sub, holder>>

\* Mutant: a sweep's UPDATE repeats no condition.
UpdateUnconditional(x) ==
  /\ call[x].at = "update" /\ holder = Nobody
  /\ holder' = x
  /\ call' = [call EXCEPT ![x].at =
                IF call[x].op \in Deliveries THEN "number" ELSE "commit"]
  /\ UNCHANGED <<task, window, sub>>

\* Mutant: a delivery numbers its submission before it flushes the task.
UpdateUnflushed(x) ==
  /\ call[x].at = "update" /\ holder = Nobody
  /\ call[x].op \in Sweeps => Accepts(call[x].op, task.status)
  /\ IF call[x].op \in Deliveries
       THEN call' = [call EXCEPT ![x].at = "number"] /\ UNCHANGED holder
       ELSE call' = [call EXCEPT ![x].at = "commit"] /\ holder' = x
  /\ UNCHANGED <<task, window, sub>>

\* The UPDATE locks the row (a sweep's only if it still matches).  A delivery
\* has yet to number its submission.
Update(x) ==
  /\ call[x].at = "update" /\ holder = Nobody
  /\ call[x].op \in Sweeps => Accepts(call[x].op, task.status)
  /\ holder' = x
  /\ call' = [call EXCEPT ![x].at =
                IF call[x].op \in Deliveries THEN "number" ELSE "commit"]
  /\ UNCHANGED <<task, window, sub>>

\* The UPDATE of a sweep that finds the task gone on matches no row.
SweepMisses(x) ==
  /\ call[x].at = "update" /\ call[x].op \in Sweeps
  /\ ~Accepts(call[x].op, task.status)
  /\ call' = [call EXCEPT ![x] = Idle]
  /\ UNCHANGED <<task, window, sub, holder>>

\* _new_submission(): one more than the highest number that is committed.
Number(x) ==
  /\ call[x].at = "number"
  /\ call' = [call EXCEPT ![x].at = "commit", ![x].attempt = Len(sub) + 1]
  /\ UNCHANGED <<task, window, sub, holder>>

\* Mutant: a review writes its verdict into the task's status.
OutcomesVerdict(op) ==
  CASE op = "start" -> {"in_progress"}
    [] op = "redo" -> {"pending"}
    [] op = "reopen" -> {"assigned", "pending"}
    [] op = "submit" -> {"submitted"}
    [] op = "complete" -> {"completed"}
    [] op = "approve" -> {"approved"}
    [] op = "reject" -> {"reopened"}
    [] OTHER -> {"abandoned"}

\* The status a call writes, OTHER being a sweep.  A reopened task is assigned
\* if it has an employee.
Outcomes(op) ==
  CASE op = "start" -> {"in_progress"}
    [] op = "redo" -> {"pending"}
    [] op = "reopen" -> {"assigned", "pending"}
    [] op = "submit" -> {"submitted"}
    [] op \in {"complete", "approve"} -> {"completed"}
    [] op = "reject" -> {"reopened"}
    [] OTHER -> {"abandoned"}

\* Mutant: a completion keeps the date it finds.
WrittenOnce(c, status) ==
  [status |-> IF status = c.seen.status THEN task.status ELSE status,
   dated |-> \/ c.op \in {"complete", "approve"} /\ ~c.seen.dated
             \/ task.dated /\ ~(c.op = "reopen" /\ c.seen.dated),
   marked |-> \/ c.op \in Sweeps
              \/ task.marked /\ ~(c.op = "reopen" /\ c.seen.marked)]

\* The row after c wrote it: a column that keeps the value c read is not
\* written, and keeps whatever others have written.
Written(c, status) ==
  [status |-> IF status = c.seen.status THEN task.status ELSE status,
   dated |-> \/ c.op \in {"complete", "approve"}
             \/ task.dated /\ ~(c.op = "reopen" /\ c.seen.dated),
   marked |-> \/ c.op \in Sweeps
              \/ task.marked /\ ~(c.op = "reopen" /\ c.seen.marked)]

\* Mutant: a delivery reuses the submission that is still pending.
JudgedReused(c) ==
  IF c.op = "complete" \/ (c.op = "submit" /\ Pending = {})
  THEN Append(sub, IF c.op = "submit" THEN "pending" ELSE "approved")
  ELSE IF c.review = 0 THEN sub
  ELSE [sub EXCEPT ![c.review] =
          IF c.op = "approve" THEN "approved" ELSE "disapproved"]

\* The submissions after c: a delivery adds one, approved on the spot if
\* staff completed the task, and a review judges the one it found.
Judged(c) ==
  IF c.op \in Deliveries
  THEN Append(sub, IF c.op = "submit" THEN "pending" ELSE "approved")
  ELSE IF c.review = 0 THEN sub
  ELSE [sub EXCEPT ![c.review] =
          IF c.op = "approve" THEN "approved" ELSE "disapproved"]

Commit(x) ==
  /\ call[x].at = "commit"
  /\ \E status \in Outcomes(call[x].op): task' = Written(call[x], status)
  /\ sub' = Judged(call[x])
  /\ call' = [call EXCEPT ![x] = Idle]
  /\ holder' = Nobody
  /\ UNCHANGED window

\* get_db() rolls a failed or cancelled call back.
Abort(x) ==
  /\ call[x] # Idle
  /\ call' = [call EXCEPT ![x] = Idle]
  /\ holder' = IF holder = x THEN Nobody ELSE holder
  /\ UNCHANGED <<task, window, sub>>

\* The clock reaches expires_at.
Boundary ==
  /\ window = "live"
  /\ window' = "over"
  /\ UNCHANGED <<task, sub, call, holder>>

Next ==
  \/ Boundary
  \/ \E x \in Txns:
       \/ \E op \in Ops: ReadTask(x, op)
       \/ ReadSubmissions(x) \/ Update(x) \/ SweepMisses(x)
       \/ Number(x) \/ Commit(x) \/ Abort(x)

Spec == Init /\ [][Next]_vars

-----------------------------------------------------------------------------
(* Properties *)

\* Work under review has something to review: its newest submission awaits a
\* verdict, however the submissions, reviews and redos of the task overlapped.
\* Without one, approve_task() would complete the task on no evidence.
ReviewableWork ==
  task.status = "submitted" => sub # <<>> /\ sub[Len(sub)] = "pending"

\* Two deliveries at once never choose one attempt number, which the unique
\* constraint uq_task_attempt would answer with a server error: sessions do
\* not flush by themselves, and the explicit flush before _new_submission()
\* is what makes the second wait for the first.
AttemptsDistinct ==
  \A x \in Txns:
    call[x].at = "commit" /\ call[x].op \in Deliveries =>
      call[x].attempt = Len(sub) + 1

\* A sweep never takes back what was delivered while it ran: completed work
\* is never abandoned, and submitted work only by the daily rollover.
SweepYields ==
  [][task.status # "abandoned" /\ task'.status = "abandoned" =>
       /\ task.status # "completed"
       /\ task.status = "submitted" => call[holder].op = "rollover"]_vars

\* Completed work bears its date and abandoned work its reason, although
\* a call writes only the columns it changed since it read the row.
EndMarked ==
  /\ task.status = "completed" => task.dated
  /\ task.status = "abandoned" => task.marked

=============================================================================
