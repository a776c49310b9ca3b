\* Every handler, two requests at a time.
CONSTANTS
  Txns = {x1, x2}
  Tickets = {m1}
  Handlers = {"check_in", "check_out", "bulk_checkout", "bulk_cleaning", "bulk_release", "create_ticket", "close_ticket", "start_task", "approve_task", "transition"}
  Nobody = Nobody
SYMMETRY Requests
SPECIFICATION Spec
INVARIANTS
  TypeOK
  NeverSoldTwice
