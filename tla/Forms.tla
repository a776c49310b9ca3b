------------------------------- MODULE Forms --------------------------------
(* The dialogs and forms of the web client.  They are written to one       *)
(* pattern: the fields are local state, submitting needs the required      *)
(* fields, a name the shown lists do not have yet and no submission under  *)
(* way; the requests are awaited one after the other, and the answer       *)
(* blanks some fields, closes the dialog and lifts the lock.  What differs *)
(* from form to form is data, and decides what a late answer does to a     *)
(* user who went on: the catalogue below says it, form by form.            *)
EXTENDS Naturals, Sequences, SequencesExt, FiniteSets

CONSTANTS
  MaxCalls,    \* submissions of one page in flight at a time
  MaxWrites    \* times the same content is written

VARIABLES
  form,    \* the name of the form the page shows
  modal,   \* its state
  calls    \* its submissions in flight, oldest first

formVars == <<form, modal, calls>>

-----------------------------------------------------------------------------
(* The catalogue.  asks are the fields without which a submission returns, *)
(* takes the others.  unique: the name is compared with the shown lists.   *)
(* starts, as a set of alternatives, is what opening leaves in the fields. *)
(* fills, blanks and wipes are the fields reset by opening, by success and *)
(* by closing.  kept: the component stays mounted while closed.  guarded:  *)
(* closing does nothing while a submission is under way.  locks: it has an *)
(* isSubmitting flag.  steps are the requests of a submission, in order.   *)

Dialog(asks, takes) ==
  [asks |-> asks, takes |-> takes, unique |-> FALSE, filled |-> {},
   starts |-> {"left"}, fills |-> {}, blanks |-> {}, wipes |-> {},
   kept |-> TRUE, guarded |-> FALSE, locks |-> TRUE, steps |-> <<"write">>,
   ends |-> "closes"]

\* A dialog that is mounted when it opens, over a record or blank.
Fresh(start, asks, takes) ==
  [Dialog(asks, takes) EXCEPT !.kept = FALSE, !.starts = {start}]

CreateRoom ==
  [Dialog({"number"}, {"type", "customType", "area", "beds", "zone"}) EXCEPT
     !.unique = TRUE, !.blanks = {"number", "zone"}]

\* The range is prefilled; submitting is off when every room of it exists.
BulkRoomFields == {"prefix", "type", "area", "zone"}

BulkCreateRooms ==
  [Dialog({"start", "end"}, BulkRoomFields) EXCEPT
     !.unique = TRUE, !.filled = {"start", "end"}]

DormFields == {"type", "washroom", "area", "zone", "description"}

CreateDorm ==
  [Dialog({"name", "beds"}, DormFields) EXCEPT
     !.unique = TRUE, !.filled = {"beds"}, !.blanks = {"name"}]

\* A table of dorms and what they have in common.
BulkDormFields == {"names", "beds", "type", "washroom", "zone", "area"}

BulkCreateDorms ==
  [Dialog({"names", "beds"}, BulkDormFields \ {"names", "beds"}) EXCEPT
     !.unique = TRUE, !.guarded = TRUE,
     !.blanks = BulkDormFields, !.wipes = BulkDormFields]

EditRoom ==
  [Fresh("record", {"number"}, {"type", "area", "zone", "cleaningNote"})
     EXCEPT !.unique = TRUE]

EditDormFields == DormFields \cup {"floor"}

EditDorm ==
  [Fresh("record", {"name", "beds"}, EditDormFields) EXCEPT !.unique = TRUE]

\* Counts of the known fixture types and of the user's own.
FixtureFields == {"fixtures"}

WashroomFields == {"type", "zone"} \cup FixtureFields

\* Every opening sets the fields again, blank or from the washroom.
Washroom ==
  [Dialog({"name"}, WashroomFields) EXCEPT
     !.unique = TRUE, !.starts = {"blank", "record"},
     !.blanks = {"name", "type", "zone"}]

BulkWashroomFields == {"names", "type", "zone", "fixtures"}

BulkCreateWashrooms ==
  [Dialog({"names"}, BulkWashroomFields \ {"names"}) EXCEPT
     !.unique = TRUE, !.guarded = TRUE,
     !.blanks = BulkWashroomFields, !.wipes = BulkWashroomFields]

\* One task per picked fixture, each request awaited.
AssignFields == {"taskType", "employee", "due", "notes"}

AssignWashroomTask ==
  [Fresh("record", {"target"}, AssignFields) EXCEPT
     !.steps = <<"write", "write">>]

\* The photos first, one batch, and then the assignment of its tickets.
ScheduleFields == {"type", "employee", "due"}

PhotoFields == {"photos"}

ScheduleWashroomMaintenance ==
  [Fresh("record", {"target"}, ScheduleFields \cup PhotoFields) EXCEPT
     !.steps = <<"upload", "write", "assign">>]

\* The answer turns the dialog into the screen of the created ticket.
ComplaintFields == {"type", "issue"}

TicketFields == {"description", "priority", "due"} \cup PhotoFields

CreateMaintenance ==
  [Fresh("blank", ComplaintFields, TicketFields) EXCEPT
     !.steps = <<"upload", "write">>, !.ends = "shows"]

\* Who does what and where; how it repeats; a rule instead; and by when.
AssignmentFields == {"type", "employee", "supervisor", "unit", "zone"}

RecurrenceFields == {"recurrence"}

RuleFields == {"rule"}

TaskFields == AssignmentFields \cup RecurrenceFields \cup RuleFields \cup {"due"}

\* One dialog creates and edits; closing resets every field, always.

CreateTask ==
  [Dialog({"title"}, TaskFields) EXCEPT
     !.starts = {"left", "record"}, !.blanks = {"title"} \cup TaskFields,
     !.wipes = {"title"} \cup TaskFields]

CreateArea ==
  [Dialog({"name"}, {"description"}) EXCEPT !.blanks = {"name", "description"}]

ZoneFields == {"area", "type", "description"}

CreateZone ==
  [Dialog({"name"}, ZoneFields) EXCEPT
     !.fills = {"area"}, !.blanks = {"name"} \cup ZoneFields]

\* The dialogs inside ZonesView and PropertiesView have no submitting flag.
EditZone == [Fresh("record", {"name"}, ZoneFields) EXCEPT !.locks = FALSE]

EditArea == [Fresh("record", {"name"}, {"description"}) EXCEPT !.locks = FALSE]

EditPropertyFields == {"location", "manager", "password"}

EditProperty == [Fresh("record", {"name"}, EditPropertyFields) EXCEPT !.locks = FALSE]

EmployeeFields == {"jobTitle", "department", "phone", "zone", "startDate"}

CreateEmployee ==
  [Dialog({"name", "email", "password"}, EmployeeFields) EXCEPT
     !.blanks = {"name", "email", "phone", "zone", "password"}]

\* Nothing is blanked: the next opening shows the last employee's fields.
HrCreateEmployee ==
  Dialog({"name", "email", "jobTitle", "password"}, {"phone", "department", "zone"})

PropertyFields == {"name", "location", "city", "state"}

ManagerFields == {"managerName", "managerEmail", "phone", "username", "password"}

CreateProperty ==
  [Dialog({"name", "managerName", "managerEmail", "password"},
          {"location", "city", "state", "phone", "username"}) EXCEPT
     !.blanks = PropertyFields \cup ManagerFields]

\* Login and signup are pages: success signs in, and the lock stays.
Login ==
  [Dialog({"identifier", "password"}, {}) EXCEPT !.ends = "signsIn"]

SignupFields == {"company", "brand", "contact", "password"}

Signup == [Dialog(SignupFields, {}) EXCEPT !.ends = "signsIn"]

Catalogue ==
  [CreateRoom |-> CreateRoom, BulkCreateRooms |-> BulkCreateRooms,
   CreateDorm |-> CreateDorm, BulkCreateDorms |-> BulkCreateDorms,
   EditRoom |-> EditRoom, EditDorm |-> EditDorm, Washroom |-> Washroom,
   BulkCreateWashrooms |-> BulkCreateWashrooms,
   AssignWashroomTask |-> AssignWashroomTask,
   ScheduleWashroomMaintenance |-> ScheduleWashroomMaintenance,
   CreateMaintenance |-> CreateMaintenance, CreateTask |-> CreateTask,
   CreateArea |-> CreateArea, CreateZone |-> CreateZone,
   EditZone |-> EditZone, EditArea |-> EditArea, EditProperty |-> EditProperty,
   CreateEmployee |-> CreateEmployee, HrCreateEmployee |-> HrCreateEmployee,
   CreateProperty |-> CreateProperty, Login |-> Login, Signup |-> Signup]

Names == DOMAIN Catalogue

F == Catalogue[form]

-----------------------------------------------------------------------------
(* State.  A call remembers whether it was sent from the mounted component *)
(* (mine), from the opening on the screen (here) and with the content the  *)
(* fields have now (current); writes and lost count, for that content, the *)
(* writes the server made and the answers to them that never arrived, both *)
(* since it was typed or the shown lists last lost its name.               *)

Calls ==
  [step : 1..3, served : {"no", "done", "refused"},
   mine : BOOLEAN, here : BOOLEAN, current : BOOLEAN]

NoModal ==
  [open |-> FALSE, filled |-> {}, taken |-> FALSE, locked |-> FALSE,
   shows |-> FALSE, writes |-> 0, lost |-> 0]

\* The page of a form as it is mounted.
Mounted(name) ==
  [NoModal EXCEPT !.filled = Catalogue[name].filled,
                  !.open = Catalogue[name].ends = "signsIn"]

Marked(mark) ==
  [i \in DOMAIN calls |-> [calls[i] EXCEPT ![mark] = FALSE]]

\* The fields get other content: what was written before is not it.
Refilled(m, filled) ==
  [m EXCEPT !.filled = filled, !.taken = FALSE, !.writes = 0, !.lost = 0]

Opened ==
  (IF "left" \in F.starts THEN {modal.filled \ F.fills} ELSE {})
    \cup (IF "blank" \in F.starts THEN {{}} ELSE {})
    \cup (IF "record" \in F.starts THEN {F.asks} ELSE {})

OpenForm ==
  /\ ~modal.open
  /\ \E filled \in Opened :
       IF F.kept /\ filled = modal.filled
       THEN modal' = [modal EXCEPT !.open = TRUE] /\ UNCHANGED calls
       ELSE /\ modal' = [Refilled(modal, filled) EXCEPT !.open = TRUE]
            /\ calls' = Marked("current")
  /\ UNCHANGED form

\* The user types: the required fields one by one, the others together.
FillIn ==
  /\ modal.open /\ ~modal.shows
  /\ \E asked \in SUBSET F.asks, others \in {{}, F.takes} :
       modal' = Refilled(modal, asked \cup others)
  /\ calls' = Marked("current")
  /\ UNCHANGED form

\* The check of the name follows the shown lists, while the dialog is open or
\* kept: a refresh brings the name in.
NameTaken ==
  /\ F.unique /\ F.asks \subseteq modal.filled
  /\ modal' = [modal EXCEPT !.taken = TRUE]
  /\ UNCHANGED <<form, calls>>

\* The server made the write, and its answer is on the way.
Unanswered(call) ==
  call.current /\ call.served = "done" /\ F.steps[call.step] = "write"

\* The name goes again: its unit is deleted, or the answer of a list that was
\* read earlier comes late.  The form then offers the same content anew.
NameFreed ==
  /\ modal.taken
  /\ modal' = [modal EXCEPT
       !.taken = FALSE, !.lost = 0,
       !.writes = IF \E i \in DOMAIN calls : Unanswered(calls[i]) THEN 1 ELSE 0]
  /\ UNCHANGED <<form, calls>>

Ready == F.asks \subseteq modal.filled /\ ~modal.taken

\* As it would be without the isSubmitting check.
SubmitBlind ==
  /\ modal.open /\ ~modal.shows /\ Ready
  /\ Len(calls) < MaxCalls /\ modal.writes < MaxWrites
  /\ modal' = [modal EXCEPT !.locked = F.locks]
  /\ calls' = Append(calls, [step |-> 1, served |-> "no", mine |-> TRUE,
                             here |-> TRUE, current |-> TRUE])
  /\ UNCHANGED form

Submit ==
  /\ modal.open /\ ~modal.shows /\ Ready /\ ~modal.locked
  /\ Len(calls) < MaxCalls /\ modal.writes < MaxWrites
  /\ modal' = [modal EXCEPT !.locked = F.locks]
  /\ calls' = Append(calls, [step |-> 1, served |-> "no", mine |-> TRUE,
                             here |-> TRUE, current |-> TRUE])
  /\ UNCHANGED form

\* As it would be if the guarded dialogs closed while they submit.
CloseFormUnguarded ==
  /\ modal.open /\ F.ends # "signsIn" /\ F.kept
  /\ modal' = [(IF F.wipes = {} THEN modal
                ELSE Refilled(modal, modal.filled \ F.wipes)) EXCEPT !.open = FALSE]
  /\ calls' = Marked("here")
  /\ UNCHANGED form

\* The X, the Escape key and the backdrop close; a dialog that is not kept
\* is unmounted, and its submissions go on without it.
CloseForm ==
  /\ modal.open /\ F.ends # "signsIn"
  /\ ~(F.guarded /\ modal.locked)
  /\ IF F.kept
     THEN /\ modal' = [(IF F.wipes = {} THEN modal
                        ELSE Refilled(modal, modal.filled \ F.wipes))
                         EXCEPT !.open = FALSE]
          /\ calls' = [i \in DOMAIN calls |->
                         [calls[i] EXCEPT !.here = FALSE,
                                          !.current = @ /\ F.wipes = {}]]
     ELSE /\ modal' = NoModal
          /\ calls' = [i \in DOMAIN calls |->
                         [calls[i] EXCEPT !.mine = FALSE, !.here = FALSE,
                                          !.current = FALSE]]
  /\ UNCHANGED form

-----------------------------------------------------------------------------
(* A submission under way.                                                 *)

\* The server does the request of the current step, or refuses it.
Serve(i) ==
  /\ calls[i].served = "no"
  /\ \/ /\ calls' = [calls EXCEPT ![i].served = "done"]
        /\ modal' = IF calls[i].current /\ F.steps[calls[i].step] = "write"
                    THEN [modal EXCEPT !.writes = @ + 1] ELSE modal
     \/ /\ calls' = [calls EXCEPT ![i].served = "refused"]
        /\ UNCHANGED modal
  /\ UNCHANGED form

\* The requests of a submission follow each other.
NextRequest(i) ==
  /\ calls[i].served = "done" /\ calls[i].step < Len(F.steps)
  /\ calls' = [calls EXCEPT ![i].step = @ + 1, ![i].served = "no"]
  /\ UNCHANGED <<form, modal>>

\* The last answer: onClose is the page's, and closes the dialog on the
\* screen; the fields and the lock are those of the component that sent it.
Succeed(i) ==
  LET blanked == IF calls[i].mine /\ F.blanks # {}
                 THEN Refilled(modal, modal.filled \ F.blanks) ELSE modal
      unlocked == [blanked EXCEPT !.locked = @ /\ ~calls[i].mine,
                                  !.taken = @ \/ (F.unique /\ F.blanks = {} /\ calls[i].current)]
      rest == RemoveAt(calls, i)
  IN /\ F.ends # "signsIn"
     /\ calls[i].served = "done" /\ calls[i].step = Len(F.steps)
     /\ CASE F.ends = "shows" ->
               /\ modal' = IF calls[i].mine
                           THEN [unlocked EXCEPT !.shows = TRUE] ELSE modal
               /\ calls' = rest
          [] F.ends = "closes" /\ F.kept ->
               /\ modal' = [unlocked EXCEPT !.open = FALSE]
               /\ calls' = [j \in DOMAIN rest |->
                              [rest[j] EXCEPT !.here = FALSE,
                                              !.current = @ /\ F.blanks = {}]]
          [] OTHER ->
               /\ modal' = NoModal
               /\ calls' = [j \in DOMAIN rest |->
                              [rest[j] EXCEPT !.mine = FALSE, !.here = FALSE,
                                              !.current = FALSE]]
     /\ UNCHANGED form

\* A login or a registration that the server accepted: its answer signs in.
Accepted ==
  /\ F.ends = "signsIn"
  /\ \E i \in DOMAIN calls : calls[i].served = "done"

\* A refusal, or no answer at all: the dialog stays, with its fields.
Fail(i) ==
  /\ modal' = [modal EXCEPT
       !.locked = @ /\ ~calls[i].mine,
       !.lost = IF Unanswered(calls[i]) THEN @ + 1 ELSE @]
  /\ calls' = RemoveAt(calls, i)
  /\ UNCHANGED form

FormStep ==
  \/ OpenForm \/ FillIn \/ NameTaken \/ NameFreed \/ Submit \/ CloseForm
  \/ \E i \in DOMAIN calls :
       \/ Serve(i)
       \/ NextRequest(i)
       \/ Succeed(i)
       \/ Fail(i)

-----------------------------------------------------------------------------
(* Properties.                                                             *)

\* A form whose submission is one write, under a lock, and that does not
\* offer the same content again after the answer.
WritesOnce ==
  /\ F.locks
  /\ \A k \in DOMAIN F.steps : F.steps[k] = "write" <=> k = Len(F.steps)
  /\ F.unique \/ F.asks \cap F.blanks # {} \/ ~F.kept \/ F.ends = "signsIn"

\* The same content is written again only when the answer to its writing was
\* lost, or the lists have shown it gone; and no component has two submissions
\* under way.
FormsAskOnce ==
  /\ WritesOnce => modal.writes <= 1 + modal.lost
  /\ F.locks => Cardinality({i \in DOMAIN calls : calls[i].mine}) <= 1

\* Answers to a guarded form find the opening they were sent from: the user
\* cannot be typing into a later one that they would blank and close.
AnswersFindTheirForm ==
  F.guarded => \A i \in DOMAIN calls : calls[i].here

=============================================================================
