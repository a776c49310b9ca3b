-------------------------- MODULE TaskReviewProofs --------------------------
(***************************************************************************)
(* For any number of concurrent calls: work under review can be reviewed,  *)
(* submission numbers never collide, finished work is dated or marked, and *)
(* a sweep never takes back what was delivered.                            *)
(*                                                                         *)
(* All of it rests on the row lock.  What a call established when it       *)
(* updated the row still holds at its commit (Held), since nobody else can *)
(* commit in between (Locked).                                             *)
(***************************************************************************)
EXTENDS TaskReview, SequenceTheorems, TLAPS

\* The holder of the row, and only it, is past its update.
Locked ==
  \A x \in Txns: holder = x <=> call[x].at \in {"number", "commit"}

\* A call under way passed its guard on the row it read, only a review has
\* found a submission, and only a delivery numbers one.
Sound(c) ==
  c # Idle =>
    /\ c.op \in Ops
    /\ Accepts(c.op, c.seen.status)
    /\ c.op \notin Reviews => c.review = 0 /\ c.at # "submissions"
    /\ c.at = "number" => c.op \in Deliveries

Guarded == \A x \in Txns: Sound(call[x])

\* The row a sweep has locked still matches its condition.
Matching ==
  \A x \in Txns:
    call[x].at = "commit" /\ call[x].op \in Sweeps =>
      Accepts(call[x].op, task.status)

Held == Locked /\ Guarded /\ Matching /\ AttemptsDistinct

IInv == TypeOK /\ Held /\ ReviewableWork /\ EndMarked

-----------------------------------------------------------------------------
(* What a commit writes *)

\* The statuses each operation writes: only a submission submits, only a
\* completion or an approval completes, and only a sweep abandons.
LEMMA OutcomesFacts ==
  ASSUME NEW op \in Ops, NEW status \in Outcomes(op)
  PROVE  /\ status \in TaskStatuses
         /\ status = "submitted" => op = "submit"
         /\ status = "completed" => op \in {"complete", "approve"}
         /\ status = "abandoned" => op \in Sweeps
         /\ op \in Reviews => status # "submitted"
         /\ op = "reopen" => status \notin Ended
<1> USE DEF Outcomes, TaskStatuses, Deliveries, Reviews, Sweeps, Ended
<1>1. CASE op \in {"start", "redo", "reopen"}
  BY <1>1
<1>2. CASE op \in Deliveries
  BY <1>2
<1>3. CASE op \in Reviews
  BY <1>3
<1>4. CASE op \in Sweeps
  BY <1>4
<1> QED BY <1>1, <1>2, <1>3, <1>4 DEF Ops

\* A verdict or a new submission keeps the sequence of verdicts well formed.
LEMMA JudgedType ==
  ASSUME sub \in Seq(Verdicts), NEW c \in CallRow
  PROVE  Judged(c) \in Seq(Verdicts)
<1> DEFINE v == IF c.op = "approve" THEN "approved" ELSE "disapproved"
<1>1. [sub EXCEPT ![c.review] = v] \in [1..Len(sub) -> Verdicts]
  <2>1. v \in Verdicts
    BY DEF Verdicts
  <2>2. sub \in [1..Len(sub) -> Verdicts]
    BY LenProperties
  <2> HIDE DEF v
  <2> QED BY <2>1, <2>2
<1>2. [sub EXCEPT ![c.review] = v] \in Seq(Verdicts)
  BY <1>1, LenProperties, SeqDef
<1>3. Append(sub, "pending") \in Seq(Verdicts)
      /\ Append(sub, "approved") \in Seq(Verdicts)
  BY DEF Verdicts
<1> QED BY <1>2, <1>3 DEF Judged

\* The row a call commits.
LEMMA CommitRow ==
  ASSUME IInv, NEW x \in Txns, Commit(x)
  PROVE  /\ task' \in TaskRow
         /\ sub' \in Seq(Verdicts)
         /\ ReviewableWork'
         /\ EndMarked'
<1>1. PICK status \in Outcomes(call[x].op): task' = Written(call[x], status)
  BY DEF Commit
<1> DEFINE c == call[x]
<1>2. /\ c \in CallRow /\ c # Idle /\ task \in TaskRow /\ c.seen \in TaskRow
      /\ c.op \in Ops /\ Accepts(c.op, c.seen.status)
      /\ c.op \notin Reviews => c.review = 0
      /\ sub' = Judged(c)
  BY DEF IInv, TypeOK, Held, Guarded, Sound, Commit, Idle, CallRow
<1>3. /\ status \in TaskStatuses
      /\ status = "submitted" => c.op = "submit"
      /\ status = "completed" => c.op \in {"complete", "approve"}
      /\ status = "abandoned" => c.op \in Sweeps
      /\ c.op \in Reviews => status # "submitted"
      /\ c.op = "reopen" => status \notin Ended
  BY <1>1, <1>2, OutcomesFacts
<1>4. task' \in TaskRow
  BY <1>1, <1>2, <1>3 DEF TaskRow, Written
<1>5. sub' \in Seq(Verdicts)
  BY <1>2, JudgedType DEF IInv, TypeOK
<1>6. status = c.seen.status => c.op \notin Reviews \cup Deliveries \cup {"reopen"}
  <2> SUFFICES ASSUME status = c.seen.status
               PROVE  c.op \notin Reviews \cup Deliveries \cup {"reopen"}
    OBVIOUS
  <2>1. c.op \notin Reviews
    BY <1>2, <1>3 DEF Accepts, Reviews, Deliveries
  <2>2. c.op # "reopen"
    BY <1>2, <1>3 DEF Accepts, Reviews, Deliveries
  <2>3. c.op \notin Deliveries
    BY <1>1, <1>2 DEF Accepts, Outcomes, Deliveries, Ended, Reviews, Sweeps
  <2> QED BY <2>1, <2>2, <2>3
<1>7. ReviewableWork'
  <2> SUFFICES ASSUME task'.status = "submitted"
               PROVE  sub' # <<>> /\ sub'[Len(sub')] = "pending"
    BY DEF ReviewableWork
  <2>1. CASE status = c.seen.status
    <3>1. task.status = "submitted"
      BY <2>1, <1>1 DEF Written
    <3>2. c.op \notin Deliveries /\ c.op \notin Reviews
      BY <2>1, <1>6
    <3>3. c.review = 0
      BY <3>2, <1>2
    <3>4. sub' = sub
      BY <3>2, <3>3, <1>2 DEF Judged
    <3> QED BY <3>1, <3>4 DEF IInv, ReviewableWork
  <2>2. CASE status # c.seen.status
    <3>1. c.op = "submit"
      BY <2>2, <1>1, <1>3 DEF Written
    <3>2. sub' = Append(sub, "pending")
      BY <3>1, <1>2 DEF Judged, Deliveries
    <3>3. sub \in Seq(Verdicts) /\ "pending" \in Verdicts
      BY DEF IInv, TypeOK, Verdicts
    <3> QED BY <3>2, <3>3, AppendProperties
  <2> QED BY <2>1, <2>2
<1>8. EndMarked'
  <2>1. CASE status = c.seen.status
    BY <2>1, <1>1, <1>6 DEF Written, EndMarked, IInv
  <2>2. CASE status # c.seen.status
    BY <2>2, <1>1, <1>3 DEF Written, EndMarked
  <2> QED BY <2>1, <2>2
<1> QED BY <1>4, <1>5, <1>7, <1>8

-----------------------------------------------------------------------------
(* Each step keeps the invariant *)

\* A step of x that commits nothing, and leaves the row to x or takes it.
LEMMA InnerStep ==
  ASSUME IInv, NEW x \in Txns, NEW row \in CallRow,
         call' = [call EXCEPT ![x] = row],
         UNCHANGED <<task, window, sub>>,
         holder' \in Txns \cup {Nobody},
         holder' # holder => {holder, holder'} \subseteq {x, Nobody},
         holder' = x <=> row.at \in {"number", "commit"},
         Sound(row),
         row.at = "commit" /\ row.op \in Sweeps =>
           Accepts(row.op, task.status),
         row.at = "commit" /\ row.op \in Deliveries =>
           row.attempt = Len(sub) + 1
  PROVE  IInv'
<1>1. TypeOK'
  BY DEF IInv, TypeOK
<1>2. \A y \in Txns: y # x => call'[y] = call[y]
  BY DEF IInv, TypeOK
<1>3. call'[x] = row
  BY DEF IInv, TypeOK
<1>4. Locked'
  BY <1>2, <1>3, NobodyAssumption DEF IInv, Held, Locked
<1>5. Guarded'
  <2>1. \A y \in Txns: Sound(call'[y])
    BY <1>2, <1>3 DEF IInv, Held, Guarded
  <2> QED BY <2>1 DEF Guarded, Sound, Idle, Accepts
<1>6. Matching'
  <2> SUFFICES ASSUME NEW y \in Txns,
                      call'[y].at = "commit", call'[y].op \in Sweeps
               PROVE  Accepts(call'[y].op, task.status)
    BY DEF Matching, Accepts
  <2>1. CASE y = x
    BY <2>1, <1>3
  <2>2. CASE y # x
    BY <2>2, <1>2 DEF IInv, Held, Matching
  <2> QED BY <2>1, <2>2
<1>7. AttemptsDistinct'
  <2> SUFFICES ASSUME NEW y \in Txns,
                      call'[y].at = "commit", call'[y].op \in Deliveries
               PROVE  call'[y].attempt = Len(sub) + 1
    BY DEF AttemptsDistinct
  <2>1. CASE y = x
    BY <2>1, <1>3
  <2>2. CASE y # x
    BY <2>2, <1>2 DEF IInv, Held, AttemptsDistinct
  <2> QED BY <2>1, <2>2
<1>8. ReviewableWork' /\ EndMarked'
  BY DEF IInv, ReviewableWork, EndMarked
<1> QED BY <1>1, <1>4, <1>5, <1>6, <1>7, <1>8 DEF IInv, Held

\* A commit ends the call and frees the row, and no other call is past its
\* update: the facts about such calls hold trivially.
LEMMA CommitStep ==
  ASSUME IInv, NEW x \in Txns, Commit(x)
  PROVE  IInv'
<1>1. task' \in TaskRow /\ sub' \in Seq(Verdicts)
      /\ ReviewableWork' /\ EndMarked'
  BY CommitRow
<1>2. /\ call' = [call EXCEPT ![x] = Idle] /\ holder' = Nobody
      /\ window' = window /\ call[x].at = "commit"
  BY DEF Commit
<1>3. Idle \in CallRow
  BY DEF Idle, CallRow, TaskRow, TaskStatuses
<1>4. TypeOK'
  BY <1>1, <1>2, <1>3 DEF IInv, TypeOK
<1>5. /\ call'[x] = Idle
      /\ \A y \in Txns: y # x => call'[y] = call[y]
  BY <1>2 DEF IInv, TypeOK
<1>6. \A y \in Txns: call'[y].at \notin {"number", "commit"}
  BY <1>2, <1>5 DEF IInv, Held, Locked, Idle
<1>7. Locked' /\ Matching' /\ AttemptsDistinct'
  BY <1>2, <1>6, NobodyAssumption DEF Locked, Matching, AttemptsDistinct
<1>8. Guarded'
  <2>1. \A y \in Txns: Sound(call'[y])
    BY <1>5 DEF IInv, Held, Guarded, Sound
  <2> QED BY <2>1 DEF Guarded, Sound, Idle, Accepts
<1> QED BY <1>1, <1>4, <1>7, <1>8 DEF IInv, Held

LEMMA Inductive == IInv /\ [Next]_vars => IInv'
<1> SUFFICES ASSUME IInv, [Next]_vars PROVE IInv'
  OBVIOUS
<1>1. ASSUME NEW x \in Txns, NEW op \in Ops, ReadTask(x, op) PROVE IInv'
  <2> DEFINE row == [Idle EXCEPT !.op = op, !.seen = task,
                !.at = IF op \in Reviews THEN "submissions" ELSE "update"]
  <2>1. /\ row \in CallRow /\ row.op = op /\ row.seen = task
        /\ row.review = 0
        /\ row.at = IF op \in Reviews THEN "submissions" ELSE "update"
    BY DEF Idle, CallRow, IInv, TypeOK
  <2>2. /\ call' = [call EXCEPT ![x] = row] /\ Accepts(op, task.status)
        /\ UNCHANGED <<task, window, sub, holder>>
    BY <1>1 DEF ReadTask
  <2>3. holder \in Txns \cup {Nobody}
    BY DEF IInv, TypeOK
  <2> HIDE DEF row
  <2>4. Sound(row)
    BY <2>1, <2>2 DEF Sound
  <2>5. holder # x
    BY <1>1 DEF ReadTask, Idle, IInv, Held, Locked
  <2> QED BY <2>1, <2>2, <2>3, <2>4, <2>5, InnerStep
<1>2. ASSUME NEW x \in Txns
      PROVE  /\ call[x] \in CallRow /\ Sound(call[x])
             /\ holder \in Txns \cup {Nobody}
  BY DEF IInv, TypeOK, Held, Guarded
<1>3. ASSUME NEW x \in Txns, ReadSubmissions(x) PROVE IInv'
  <2>1. PICK n \in 0..Len(sub):
          call' = [call EXCEPT ![x].at = "update", ![x].review = n]
    BY <1>3 DEF ReadSubmissions
  <2> DEFINE row == [call[x] EXCEPT !.at = "update", !.review = n]
  <2>2. /\ call' = [call EXCEPT ![x] = row]
        /\ UNCHANGED <<task, window, sub, holder>>
    BY <1>2, <1>3, <2>1 DEF ReadSubmissions, CallRow, IInv, TypeOK
  <2>3. n \in Nat
    BY DEF IInv, TypeOK
  <2>4. row \in CallRow /\ row.at = "update"
    BY <1>2, <2>3 DEF CallRow
  <2>5. Sound(row)
    BY <1>2, <1>3 DEF Sound, CallRow, ReadSubmissions, Idle
  <2>6. holder # x
    BY <1>3 DEF ReadSubmissions, IInv, Held, Locked
  <2> HIDE DEF row
  <2> QED BY <1>2, <2>2, <2>4, <2>5, <2>6, InnerStep
<1>4. ASSUME NEW x \in Txns, Update(x) PROVE IInv'
  <2> DEFINE row == [call[x] EXCEPT !.at =
                IF call[x].op \in Deliveries THEN "number" ELSE "commit"]
  <2>1. /\ call' = [call EXCEPT ![x] = row]
        /\ holder = Nobody /\ holder' = x
        /\ UNCHANGED <<task, window, sub>>
    BY <1>2, <1>4 DEF Update, CallRow, IInv, TypeOK
  <2>2. row \in CallRow
    BY <1>2 DEF CallRow
  <2>3. Sound(row)
    BY <1>2, <1>4 DEF Sound, CallRow, Update, Idle
  <2>4. /\ row.at \in {"number", "commit"}
        /\ row.at = "commit" => row.op \notin Deliveries
        /\ row.op \in Sweeps => Accepts(row.op, task.status)
    BY <1>2, <1>4 DEF CallRow, Update
  <2> HIDE DEF row
  <2> QED BY <2>1, <2>2, <2>3, <2>4, InnerStep
<1>5. ASSUME NEW x \in Txns, Number(x) PROVE IInv'
  <2> DEFINE row == [call[x] EXCEPT !.at = "commit", !.attempt = Len(sub) + 1]
  <2>1. /\ call' = [call EXCEPT ![x] = row]
        /\ UNCHANGED <<task, window, sub, holder>>
    BY <1>2, <1>5 DEF Number, CallRow, IInv, TypeOK
  <2>2. /\ row \in CallRow /\ row.at = "commit"
        /\ row.attempt = Len(sub) + 1
    <3>1. Len(sub) + 1 \in Nat
      BY LenProperties DEF IInv, TypeOK
    <3> QED BY <1>2, <3>1 DEF CallRow
  <2>3. Sound(row) /\ row.op \in Deliveries
    BY <1>2, <1>5 DEF Sound, CallRow, Number, Idle
  <2>4. row.op \notin Sweeps
    BY <2>3 DEF Deliveries, Sweeps
  <2>5. holder = x
    BY <1>5 DEF Number, IInv, Held, Locked
  <2> HIDE DEF row
  <2> QED BY <2>1, <2>2, <2>3, <2>4, <2>5, InnerStep
<1>6. ASSUME NEW x \in Txns, SweepMisses(x) \/ Abort(x) PROVE IInv'
  <2>1. /\ call' = [call EXCEPT ![x] = Idle]
        /\ holder' = IF holder = x THEN Nobody ELSE holder
        /\ UNCHANGED <<task, window, sub>>
    <3>1. CASE Abort(x)
      BY <3>1 DEF Abort
    <3>2. CASE SweepMisses(x)
      BY <3>2 DEF SweepMisses, IInv, Held, Locked
    <3> QED BY <1>6, <3>1, <3>2
  <2>2. Idle \in CallRow /\ Idle.at = "idle"
    BY DEF Idle, CallRow, TaskRow, TaskStatuses
  <2>3. Sound(Idle)
    BY DEF Sound
  <2> QED BY <1>2, <2>1, <2>2, <2>3, NobodyAssumption, InnerStep
<1>7. CASE Boundary \/ UNCHANGED vars
  <2>1. /\ UNCHANGED <<task, sub, call, holder>>
        /\ window' \in {"none", "live", "over"}
    BY <1>7 DEF Boundary, vars, IInv, TypeOK
  <2>2. TypeOK'
    BY <2>1 DEF IInv, TypeOK
  <2>3. Held'
    BY <2>1 DEF IInv, Held, Locked, Guarded, Sound, Matching,
                AttemptsDistinct, Idle, Accepts
  <2> QED BY <2>1, <2>2, <2>3 DEF IInv, ReviewableWork, EndMarked
<1> QED
  BY <1>1, <1>3, <1>4, <1>5, <1>6, <1>7, CommitStep DEF Next

LEMMA Initial == Init => IInv
<1> SUFFICES ASSUME Init PROVE IInv
  OBVIOUS
<1>1. Idle \in CallRow /\ Idle.at = "idle"
  BY DEF Idle, CallRow, TaskRow, TaskStatuses
<1>2. \A x \in Txns: call[x] = Idle
  BY DEF Init
<1>3. TypeOK
  <2>1. task \in TaskRow
    BY DEF Init, TaskRow, TaskStatuses
  <2>2. sub \in Seq(Verdicts)
    BY EmptySeq DEF Init
  <2> QED BY <1>1, <2>1, <2>2 DEF Init, TypeOK
<1>4. Held
  BY <1>1, <1>2, NobodyAssumption
     DEF Init, Held, Locked, Guarded, Sound, Matching, AttemptsDistinct
<1>5. ReviewableWork /\ EndMarked
  BY DEF Init, ReviewableWork, EndMarked
<1> QED BY <1>3, <1>4, <1>5 DEF IInv

LEMMA Invariance == Spec => []IInv
  BY Initial, Inductive, PTL DEF Spec

-----------------------------------------------------------------------------

\* Every reachable state is well typed.
THEOREM TypeCorrect == Spec => []TypeOK
  BY Invariance, PTL DEF IInv

\* However submissions, reviews and redos overlap, work under review has a
\* newest submission that awaits its verdict.
THEOREM AlwaysReviewable == Spec => []ReviewableWork
  BY Invariance, PTL DEF IInv

\* However many deliveries run at once, each takes a number of its own.
THEOREM NumbersNeverCollide == Spec => []AttemptsDistinct
  BY Invariance, PTL DEF IInv, Held

\* Completed work is dated, and abandoned work marked.
THEOREM EndsAreMarked == Spec => []EndMarked
  BY Invariance, PTL DEF IInv

\* A sweep never abandons completed work, nor an expiry submitted work.
THEOREM DeliveredWorkStays == Spec => SweepYields
<1> DEFINE Yields ==
      task.status # "abandoned" /\ task'.status = "abandoned" =>
        /\ task.status # "completed"
        /\ task.status = "submitted" => call[holder].op = "rollover"
<1>1. ASSUME IInv, NEW x \in Txns, Commit(x),
             task.status # "abandoned", task'.status = "abandoned"
      PROVE  /\ task.status # "completed"
             /\ task.status = "submitted" => call[holder].op = "rollover"
  <2>1. PICK status \in Outcomes(call[x].op): task' = Written(call[x], status)
    BY <1>1 DEF Commit
  <2>2. /\ call[x].at = "commit" /\ holder = x
        /\ call[x].op \in Ops
    BY <1>1 DEF Commit, IInv, Held, Locked, Guarded, Sound, Idle
  <2>3. call[x].op \in Sweeps
    BY <1>1, <2>1, <2>2, OutcomesFacts DEF Written
  <2>4. Accepts(call[x].op, task.status)
    BY <1>1, <2>2, <2>3 DEF IInv, Held, Matching
  <2>5. CASE call[x].op = "expire"
    BY <2>4, <2>5 DEF Accepts, Deliveries, Reviews, ExpirableStatuses,
                      OpenStatuses
  <2>6. CASE call[x].op = "rollover"
    BY <2>2, <2>4, <2>6 DEF Accepts, Deliveries, Reviews, OpenStatuses
  <2> QED BY <2>3, <2>5, <2>6 DEF Sweeps
<1>2. IInv /\ [Next]_vars => [Yields]_vars
  <2> SUFFICES ASSUME IInv, Next,
                      task.status # "abandoned", task'.status = "abandoned"
               PROVE  \E x \in Txns: Commit(x)
    BY <1>1 DEF vars
  <2> QED BY DEF Next, Boundary, ReadTask, ReadSubmissions, Update,
                 SweepMisses, Number, Abort
<1> QED BY <1>2, Invariance, PTL DEF Spec, SweepYields

=============================================================================
