\* Two rooms and two tasks that may be moved between them.
CONSTANTS
  Rooms = {r1, r2}
  Tasks = {t1, t2}
  Tickets = {}
  Names = {n1}
  Works <- Written
  NoRoom = NoRoom
SYMMETRY RoomSymmetry
SPECIFICATION Spec
PROPERTIES
  NoStranding
  StayContract
