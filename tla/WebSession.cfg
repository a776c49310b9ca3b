\* Two sign-ins, two requests at a time, one reload.
CONSTANTS
  Nobody = Nobody
  Sessions = {a, b}
  Calls = {c1, c2}
  MaxTokens = 2
  MaxReloads = 1
SPECIFICATION Spec
INVARIANTS
  OwnTokens
PROPERTIES
  ExchangeIsSingleFlight
  KeptWhileGranted
  CallsEnd
CHECK_DEADLOCK FALSE
