\* Tickets are raised and never closed, while the other handlers go on.
CONSTANTS
  Txns = {x1, x2, x3}
  Tickets = {m1, m2}
  Handlers = {"check_in", "check_out", "create_ticket", "start_task", "approve_task"}
  Nobody = Nobody
SYMMETRY Requests
SPECIFICATION Spec
INVARIANTS
  TicketFlagged
