SPECIFICATION Spec
CONSTANTS
  Properties = {p1, p2}
  NoProperty = NoProperty
  MaxCalls = 2
  MaxWrites = 3
  Units = {u1, u2}
  NoUnit = NoUnit
  MaxCommands = 2
  Tasks = {t1, t2}
  NoTask = NoTask
  MaxStage = 3
  MaxRequests = 2
  Reviews = {v1, v2}
  MaxHops = 5
SYMMETRY Symmetry
INVARIANTS
  TypeOK
  FormsHonest
  DrawerHonest
  RedirectsEnd
PROPERTY
  PicksHonest
