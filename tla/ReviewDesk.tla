---------------------------- MODULE ReviewDesk ------------------------------
(* The task drawer and the pending-check list.  The drawer shows the list's*)
(* summary of the open task at once and its detail when the read of it     *)
(* arrives; the employee collects photos in it and submits them.  The list *)
(* and the snapshot of the pending check change behind both.               *)
EXTENDS Naturals, Sequences, SequencesExt, FiniteSets

CONSTANTS
  Tasks,       \* the tasks of the page
  NoTask,      \* nothing is open, nothing is acted on
  MaxStage,    \* the last stage of a task's life
  MaxRequests, \* requests in flight
  Reviews      \* reviews that may be under way at once

ASSUME NoTaskAssumption == NoTask \notin Tasks

ASSUME MaxStageAssumption == MaxStage \in Nat \ {0, 1}

VARIABLES
  stage,     \* what the server has: how far each task has come
  desk,      \* the list, the drawer and the pending check on the screen
  reads,     \* detail reads in flight
  sends,     \* the submissions in flight, oldest first
  reviews    \* the approvals and disapprovals that are not over

deskVars == <<stage, desk, reads, sends, reviews>>

\* A task is to be worked on (pending, started or returned: all of it one
\* stage), submitted, returned, submitted again, and so on; at MaxStage it is
\* completed.
Status(s) ==
  CASE s = MaxStage               -> "completed"
    [] s # MaxStage /\ s % 2 = 1  -> "submitted"
    [] OTHER                      -> "todo"

\* A task that left the list (deleted, abandoned) has no summary.
Gone == MaxStage + 1

NoDetail == [task |-> NoTask, stage |-> 0]

\* The employee's and the manager's list with the drawer over it, and the
\* manager's pending-check tab, which opens the same drawer.
DeskRoles == {"employee", "manager", "reviewer"}

Desks ==
  [role : DeskRoles, listed : [Tasks -> 0..Gone],
   open : Tasks \cup {NoTask}, detail : [task : Tasks \cup {NoTask}, stage : 0..MaxStage],
   photos : SUBSET Tasks, completing : BOOLEAN,
   pending : SUBSET Tasks, acting : Tasks \cup {NoTask},
   asking : {"no", "asked", "served"}, snapshot : SUBSET Tasks]

EmptyDesk(role) ==
  [role |-> role, listed |-> [t \in Tasks |-> 0], open |-> NoTask,
   detail |-> NoDetail, photos |-> {}, completing |-> FALSE,
   pending |-> {}, acting |-> NoTask, asking |-> "no",
   snapshot |-> {}]

\* The open summary, if the list has it.
Summary(d) ==
  IF d.open \in Tasks /\ d.listed[d.open] # Gone
  THEN <<d.open, d.listed[d.open]>> ELSE <<>>

\* The effect's key [uid, status, submitted, completed] may be the same in both:
\* a submission and a completion have their time, but the return of a task
\* clears the one of its submission, so that it may be started, or returned,
\* as it was before.
Alike(d, e) ==
  \/ Summary(d) = Summary(e)
  \/ /\ Summary(d) # <<>> /\ Summary(e) # <<>> /\ d.open = e.open
     /\ Status(d.listed[d.open]) = "todo" /\ Status(e.listed[e.open]) = "todo"

\* The drawer shows something: the detail once it is there.
Showing == Summary(desk) # <<>>

ShownStatus ==
  Status(IF desk.detail = NoDetail THEN desk.listed[desk.open] ELSE desk.detail.stage)

\* What the bound on requests counts, after a step to d, rs and vs.
InFlight(d, rs, vs) ==
  Cardinality(rs) + Cardinality({i \in DOMAIN vs : vs[i].phase = "sent"})
    + (IF d.asking = "no" THEN 0 ELSE 1)

\* The new desk d, and the effect on its key: the detail goes, the read under
\* way is no longer live, and another one starts.
Turn(d) ==
  \/ Alike(d, desk) /\ desk' = d /\ UNCHANGED reads
  \/ /\ Summary(d) # Summary(desk)
     /\ desk' = [d EXCEPT !.detail = NoDetail]
     /\ LET old == {[r EXCEPT !.live = FALSE] : r \in reads} IN
        IF Summary(d) = <<>> THEN reads' = old
        ELSE /\ InFlight(d, old, reviews') < MaxRequests
             /\ reads' = old \cup {[task |-> d.open, live |-> TRUE,
                                    served |-> FALSE, stage |-> 0]}

-----------------------------------------------------------------------------
(* The server and the list.                                                *)

\* Somebody else submits, approves or returns a task.
Elsewhere ==
  /\ \E t \in Tasks :
       \E s \in {stage[t] + 1} \cup
                (IF Status(stage[t]) = "submitted" THEN {MaxStage} ELSE {}) :
         s \leq MaxStage /\ stage' = [stage EXCEPT ![t] = s]
  /\ UNCHANGED <<desk, reads, sends, reviews>>

\* A refresh shows a stage the task has reached; a late one an earlier stage.
ListTask ==
  /\ UNCHANGED <<stage, sends, reviews>>
  /\ \E t \in {u \in Tasks : desk.listed[u] # Gone} :
       \E s \in 0..stage[t] : Turn([desk EXCEPT !.listed[t] = s])

ListWithout ==
  /\ UNCHANGED <<stage, sends, reviews>>
  /\ \E t \in Tasks : Turn([desk EXCEPT !.listed[t] = Gone])

-----------------------------------------------------------------------------
(* The drawer.                                                             *)

\* The drawer covers the list while it shows a task.
OpenTask ==
  /\ UNCHANGED <<stage, sends, reviews>>
  /\ ~Showing
  /\ \E t \in {u \in (IF desk.role = "reviewer" THEN desk.pending ELSE Tasks) :
                desk.listed[u] # Gone} :
       Turn([desk EXCEPT !.open = t])

ResetLocal(d) == [d EXCEPT !.photos = {}]

HandleClose ==
  /\ UNCHANGED <<stage, sends, reviews>>
  /\ Showing
  /\ Turn([ResetLocal(desk) EXCEPT !.open = NoTask])

ServeRead ==
  /\ \E r \in {q \in reads : ~q.served} :
       reads' = (reads \ {r})
                  \cup {[r EXCEPT !.served = TRUE, !.stage = stage[r.task]]}
  /\ UNCHANGED <<stage, desk, sends, reviews>>

\* As it would be without the cancelled flag of the effect.
TakeDetailAny ==
  /\ \E r \in {q \in reads : q.served} :
       /\ desk' = [desk EXCEPT !.detail = [task |-> r.task, stage |-> r.stage]]
       /\ reads' = reads \ {r}
  /\ UNCHANGED <<stage, sends, reviews>>

\* Only the live read is shown.
TakeDetail ==
  /\ \E r \in {q \in reads : q.served} :
       /\ desk' = IF r.live
                  THEN [desk EXCEPT !.detail = [task |-> r.task, stage |-> r.stage]]
                  ELSE desk
       /\ reads' = reads \ {r}
  /\ UNCHANGED <<stage, sends, reviews>>

LoseRead ==
  /\ \E r \in reads : reads' = reads \ {r}
  /\ UNCHANGED <<stage, desk, sends, reviews>>

\* A photo is remembered by the task it was taken for.
AddPhoto ==
  /\ desk.role = "employee" /\ Showing /\ ShownStatus = "todo"
  /\ desk' = [desk EXCEPT !.photos = @ \cup {desk.open}]
  /\ UNCHANGED <<stage, reads, sends, reviews>>

RemovePhoto ==
  /\ desk.role = "employee" /\ Showing /\ ShownStatus = "todo"
  /\ \E t \in desk.photos : desk' = [desk EXCEPT !.photos = @ \ {t}]
  /\ UNCHANGED <<stage, reads, sends, reviews>>

\* The photos are those of the moment, and so is the task.
HandleComplete ==
  /\ desk.role = "employee" /\ Showing /\ ShownStatus = "todo"
  /\ desk.photos # {} /\ ~desk.completing
  /\ desk' = [desk EXCEPT !.completing = TRUE]
  /\ sends' = Append(sends, [task |-> desk.open, photos |-> desk.photos,
                             served |-> FALSE])
  /\ UNCHANGED <<stage, reads, reviews>>

\* Uploads done, the server takes the submission of a task to be worked on.
ServeSubmission ==
  /\ \E i \in DOMAIN sends :
       LET t == sends[i].task IN
       /\ ~sends[i].served /\ Status(stage[t]) = "todo" /\ stage[t] + 1 < MaxStage
       /\ stage' = [stage EXCEPT ![t] = @ + 1]
       /\ sends' = [sends EXCEPT ![i].served = TRUE]
  /\ UNCHANGED <<desk, reads, reviews>>

\* The answer puts the task into the list and resets the drawer, whichever
\* task it shows by now.
Submitted ==
  /\ UNCHANGED <<stage, reviews>>
  /\ \E i \in DOMAIN sends :
       LET t == sends[i].task IN
       /\ sends[i].served
       /\ Turn([ResetLocal(desk) EXCEPT
                  !.completing = FALSE,
                  !.listed[t] = IF @ = Gone THEN Gone ELSE stage[t]])
       /\ sends' = RemoveAt(sends, i)

\* An upload failed, the server refused, or its answer was lost.
SubmissionFails ==
  /\ \E i \in DOMAIN sends : sends' = RemoveAt(sends, i)
  /\ desk' = [desk EXCEPT !.completing = FALSE]
  /\ UNCHANGED <<stage, reads, reviews>>

-----------------------------------------------------------------------------
(* The manager's review, in the drawer and in the pending check.           *)

SendReview(t, verdict, listItem) ==
  /\ InFlight(desk, reads, reviews) < MaxRequests
  /\ \E i \in Reviews \ DOMAIN reviews :
       reviews' = [j \in DOMAIN reviews \cup {i} |->
                     IF j = i THEN [task |-> t, verdict |-> verdict,
                                    item |-> listItem, phase |-> "sent"]
                     ELSE reviews[j]]

\* The drawer has no lock: approving twice sends two requests.
ReviewOpen ==
  /\ desk.role # "employee" /\ Showing /\ ShownStatus = "submitted"
  /\ \E verdict \in {"approve", "return"} : SendReview(desk.open, verdict, FALSE)
  /\ UNCHANGED <<stage, desk, reads, sends>>

\* refreshPendingCheck: one request at a time, shared.
AskPending(d) == IF d.asking = "no" THEN [d EXCEPT !.asking = "asked"] ELSE d

\* Opening the tab and the timer of the badge.
RefreshPendingCheck ==
  /\ desk.role = "reviewer" /\ InFlight(desk, reads, reviews) < MaxRequests
  /\ desk' = AskPending(desk)
  /\ UNCHANGED <<stage, reads, sends, reviews>>

ServePending ==
  /\ desk.asking = "asked"
  /\ desk' = [desk EXCEPT
                !.asking = "served",
                !.snapshot = {t \in Tasks : Status(stage[t]) = "submitted"}]
  /\ UNCHANGED <<stage, reads, sends, reviews>>

\* The answer, or none; the reviews that waited for the refresh end, and each
\* clears the one mark of the item that is acted on.
TakePending ==
  LET waiting == {i \in DOMAIN reviews : reviews[i].phase = "refreshing"} IN
  /\ desk.asking # "no"
  /\ \E shown \in {desk.pending} \cup
                  (IF desk.asking = "served" THEN {desk.snapshot} ELSE {}) :
       desk' = [desk EXCEPT !.asking = "no", !.snapshot = {}, !.pending = shown,
                            !.acting = IF waiting = {} THEN @ ELSE NoTask]
  /\ reviews' = Restrict(reviews, DOMAIN reviews \ waiting)
  /\ UNCHANGED <<stage, reads, sends>>

ActOnItem ==
  /\ desk.role = "reviewer" /\ ~Showing
  /\ \E t \in desk.pending \ {desk.acting}, verdict \in {"approve", "return"} :
       /\ SendReview(t, verdict, TRUE)
       /\ desk' = [desk EXCEPT !.acting = t]
  /\ UNCHANGED <<stage, reads, sends>>

\* The server reviews a submitted task and refuses another, unless the request
\* never arrives; the answer, when there is one, shows the task.  A review
\* from the list goes on to refresh it, whatever came of it.
Reviewed(r) ==
  CASE Status(stage[r.task]) # "submitted" -> stage[r.task]
    [] Status(stage[r.task]) = "submitted" /\ r.verdict = "approve" -> MaxStage
    [] OTHER -> stage[r.task] + 1

ReviewAnswered ==
  /\ \E i \in {j \in DOMAIN reviews : reviews[j].phase = "sent"} :
       LET r == reviews[i] IN
       \E after \in {stage[r.task], Reviewed(r)}, answered \in BOOLEAN :
         LET shown == IF answered /\ after # stage[r.task]
                           /\ desk.listed[r.task] # Gone
                      THEN [desk EXCEPT !.listed[r.task] = after] ELSE desk
         IN /\ stage' = [stage EXCEPT ![r.task] = after]
            /\ reviews' = IF r.item THEN [reviews EXCEPT ![i].phase = "refreshing"]
                          ELSE Restrict(reviews, DOMAIN reviews \ {i})
            /\ Turn(IF r.item THEN AskPending(shown) ELSE shown)
  /\ UNCHANGED sends

DeskStep ==
  \/ Elsewhere \/ ListTask \/ ListWithout
  \/ OpenTask \/ HandleClose \/ ServeRead \/ TakeDetail \/ LoseRead
  \/ AddPhoto \/ RemovePhoto \/ HandleComplete
  \/ ServeSubmission \/ Submitted \/ SubmissionFails
  \/ ReviewOpen \/ RefreshPendingCheck \/ ServePending \/ TakePending
  \/ ActOnItem \/ ReviewAnswered

-----------------------------------------------------------------------------
(* Properties.                                                             *)

\* At least as far as the list says, or it says that there is work to do.
AsFar(s, listed) == s >= listed \/ Status(listed) = "todo"

\* The drawer shows a detail of the task that is open, and when the list says
\* submitted or completed, one that has come as far.  Behind a list that says
\* there is work to do it may show an earlier attempt.
DetailIsOfOpenTask ==
  desk.detail # NoDetail =>
    /\ desk.detail.task = desk.open
    /\ AsFar(desk.detail.stage, desk.listed[desk.open])

\* The photos in the drawer and in a submission were taken for its task, unless
\* they were taken for a task that has left the list since.
EvidenceIsOfItsTask ==
  /\ \A t \in desk.photos : desk.listed[t] # Gone => t = desk.open
  /\ \A i \in DOMAIN sends, t \in Tasks :
       t \in sends[i].photos /\ desk.listed[t] # Gone => t = sends[i].task

\* One submission at a time, and the button is locked as long as it runs; an
\* item of the pending check is marked only while a review of it runs.
DeskAsksOnce ==
  /\ Len(sends) = (IF desk.completing THEN 1 ELSE 0)
  /\ desk.acting # NoTask => \E i \in DOMAIN reviews : reviews[i].task = desk.acting

=============================================================================
