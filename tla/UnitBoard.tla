----------------------------- MODULE UnitBoard ------------------------------
(* The boards on which a manager works on several units at once: the rooms *)
(* tab and the dorm cards of RoomsDormsView, the zone workspace, and the   *)
(* fixtures of a washroom.  Picks, the checkout dialog and the lock of a   *)
(* card are local state; the units come from the context, which changes    *)
(* them behind the user's back.                                            *)
EXTENDS Naturals, Sequences, SequencesExt, FiniteSets

CONSTANTS
  Units,        \* the units of the board
  NoUnit,       \* the checkout dialog is closed
  MaxCommands   \* commands of one board in flight at a time

ASSUME NoUnitAssumption == NoUnit \notin Units

VARIABLES
  board,      \* local state and the units as the board shows them
  commands    \* the commands sent from this board, oldest first

boardVars == <<board, commands>>

Kinds == {"rooms", "dorm", "zone", "fixtures"}

\* A unit is free, has a guest, or is being cleaned; occupancy and cleaning
\* exclude each other here, and a fixture is always free.
Conditions == {"free", "guest", "cleaning"}

Boards ==
  [kind : Kinds, condition : [Units -> Conditions], listed : SUBSET Units,
   picked : SUBSET Units, busy : SUBSET Units, dialog : Units \cup {NoUnit}]

Commands == [units : SUBSET Units, card : BOOLEAN]

EmptyBoard(kind) ==
  [kind |-> kind, condition |-> [u \in Units |-> "free"], listed |-> Units,
   picked |-> {}, busy |-> {}, dialog |-> NoUnit]

Send(units, card) ==
  /\ Len(commands) < MaxCommands
  /\ commands' = Append(commands, [units |-> units, card |-> card])

Guests(units) == {u \in units : board.condition[u] = "guest"}

\* Cleaning can be queued for every unit that is not operationally busy.
Cleanable(units) == {u \in units : board.condition[u] # "cleaning"}

-----------------------------------------------------------------------------
(* What happens to the board from outside.                                 *)

\* A refresh, a moved unit, or a filter of the user: other units are listed.
\* The washroom prunes its picks, the other boards keep them.
ListOther ==
  /\ \E listed \in SUBSET Units :
       board' = [board EXCEPT
                   !.listed = listed,
                   !.picked = IF board.kind = "fixtures" THEN @ \cap listed ELSE @]
  /\ UNCHANGED commands

ShowOther ==
  /\ board.kind # "fixtures"
  /\ \E u \in Units, c \in Conditions :
       board' = [board EXCEPT !.condition[u] = c]
  /\ UNCHANGED commands

\* The work of a container ended: its units are released from the picks.
Deselect ==
  /\ board.kind # "fixtures"
  /\ \E units \in (SUBSET Units) \ {{}} :
       board' = [board EXCEPT !.picked = @ \ units]
  /\ UNCHANGED commands

-----------------------------------------------------------------------------
(* Picking.                                                                *)

Toggle ==
  /\ \E u \in board.listed :
       board' = [board EXCEPT
                   !.picked = IF u \in @ THEN @ \ {u} ELSE @ \cup {u}]
  /\ UNCHANGED commands

\* The tick of the rooms toolbar, of a dorm card and of a zone's dorm.
ToggleAll ==
  /\ board.kind # "fixtures" /\ board.listed # {}
  /\ board' = [board EXCEPT
                 !.picked = IF board.listed \subseteq @ THEN @ \ board.listed
                            ELSE @ \cup board.listed]
  /\ UNCHANGED commands

\* The quick filters of the zone workspace replace the picks.
SelectAll ==
  /\ board.kind = "zone"
  /\ \E units \in {board.listed, Guests(board.listed),
                   board.listed \ Cleanable(board.listed)} :
       board' = [board EXCEPT !.picked = units]
  /\ UNCHANGED commands

ClearPicks ==
  /\ board' = [board EXCEPT !.picked = {}]
  /\ UNCHANGED commands

-----------------------------------------------------------------------------
(* Bulk commands.                                                          *)

\* The toolbar of the rooms, of a dorm card and of the fixtures works on the
\* picks that are listed, and waits for the answer.
BulkListed ==
  /\ board.kind # "zone" /\ board.picked \cap board.listed # {}
  /\ Send(board.picked \cap board.listed, FALSE)
  /\ UNCHANGED board

\* The toolbar of a zone sends every pick and clears the picks at once.
BulkPicked ==
  /\ board.kind = "zone" /\ board.picked # {}
  /\ Send(board.picked, FALSE)
  /\ board' = [board EXCEPT !.picked = {}]

\* The buttons of a zone's dorm work on its picks, and on the whole dorm
\* when there are none; the picks stay.
DormScope ==
  IF board.picked \cap board.listed # {} THEN board.picked \cap board.listed
  ELSE board.listed

DormCommand ==
  /\ board.kind = "zone"
  /\ \E units \in {DormScope, Guests(DormScope), Cleanable(DormScope)} \ {{}} :
       Send(units, FALSE)
  /\ UNCHANGED board

-----------------------------------------------------------------------------
(* The commands of one card.                                               *)

\* runUnitAction: a card is locked while its command is under way.
RunUnitAction(u, b) ==
  /\ u \notin board.busy
  /\ Send({u}, TRUE)
  /\ board' = [b EXCEPT !.busy = @ \cup {u}]

CheckIn ==
  /\ board.kind # "fixtures"
  /\ \E u \in board.listed :
       board.condition[u] = "free" /\ RunUnitAction(u, board)

SendToClean ==
  /\ board.kind # "fixtures"
  /\ \E u \in Cleanable(board.listed) : RunUnitAction(u, board)

RequestCheckout ==
  /\ board.kind # "fixtures"
  /\ \E u \in Guests(board.listed) \ board.busy :
       board' = [board EXCEPT !.dialog = u]
  /\ UNCHANGED commands

\* The dialog names the unit it was opened for; confirming looks at the lock
\* and at nothing else.
ConfirmCheckout ==
  /\ board.dialog \in Units
  /\ RunUnitAction(board.dialog, [board EXCEPT !.dialog = NoUnit])

CancelCheckout ==
  /\ board.dialog # NoUnit
  /\ board' = [board EXCEPT !.dialog = NoUnit]
  /\ UNCHANGED commands

\* As it would be if a dorm card cleared its picks like the rooms do.
AnsweredClearing(i) ==
  LET c == commands[i] IN
  /\ board' = [board EXCEPT
       !.busy = IF c.card THEN @ \ c.units ELSE @,
       !.picked = IF c.card THEN @ ELSE {}]
  /\ commands' = RemoveAt(commands, i)

\* An answer, good or bad.  The room actions clear every pick, also those
\* made meanwhile; the fixtures, set one after the other, keep theirs when one
\* fails; a dorm card takes back the beds it sent.
Answered(i) ==
  LET c == commands[i]
      kept == CASE ~c.card /\ board.kind = "rooms"    -> {{}}
                [] ~c.card /\ board.kind = "fixtures" -> {{}, board.picked}
                [] ~c.card /\ board.kind = "dorm"     -> {board.picked \ c.units}
                [] OTHER -> {board.picked}
  IN
  /\ \E picked \in kept :
       board' = [board EXCEPT !.busy = IF c.card THEN @ \ c.units ELSE @,
                              !.picked = picked]
  /\ commands' = RemoveAt(commands, i)

\* The open dialog covers the board.
BoardStep ==
  \/ ListOther \/ ShowOther \/ Deselect
  \/ /\ board.dialog = NoUnit
     /\ \/ Toggle \/ ToggleAll \/ SelectAll \/ ClearPicks
        \/ BulkListed \/ BulkPicked \/ DormCommand
        \/ CheckIn \/ SendToClean \/ RequestCheckout
  \/ ConfirmCheckout \/ CancelCheckout
  \/ \E i \in DOMAIN commands : Answered(i)

-----------------------------------------------------------------------------
(* Properties.                                                             *)

CardCommands == {i \in DOMAIN commands : commands[i].card}

\* No card has two commands under way, and a card is locked exactly as long
\* as its command is under way.
BoardAsksOnce ==
  /\ board.busy = UNION {commands[i].units : i \in CardCommands}
  /\ \A i, j \in CardCommands :
       i # j => commands[i].units \cap commands[j].units = {}

\* A fixture that is picked exists.
PicksExist == board.kind = "fixtures" => board.picked \subseteq board.listed

\* An answer to a dorm card takes back picks it sent, and no pick the user
\* made while it was under way.
DormPicksKept ==
  (board.kind = "dorm" /\ board'.kind = "dorm" /\ Len(commands') < Len(commands))
    => \E i \in DOMAIN commands :
         /\ commands' = RemoveAt(commands, i)
         /\ board.picked \ board'.picked \subseteq commands[i].units

=============================================================================
