\* One room, two task rows and two tickets: every order of the handlers.
CONSTANTS
  Rooms = {r1}
  Tasks = {t1, t2}
  Tickets = {m1, m2}
  Names = {n1}
  Works <- Written
  NoRoom = NoRoom
SYMMETRY RowSymmetry
SPECIFICATION Spec
INVARIANTS
  TypeOK
  OccupancyProjection
PROPERTIES
  TicketAuthority
  WorkAuthority
  CleanRelease
