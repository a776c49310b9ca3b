\* The handlers that lock the room before they read it.
CONSTANTS
  Txns = {x1, x2, x3}
  Tickets = {m1, m2}
  Handlers = {"check_in", "check_out", "close_ticket", "start_task", "approve_task", "transition"}
  Nobody = Nobody
SYMMETRY Requests
SPECIFICATION Spec
INVARIANTS
  OccupiedHasGuest
  DeadlockFree
