\* One template of any shape, the scheduler, the manual trigger, one crash.
CONSTANTS
  Templates = {p}
  Targets = {"room", "zone"}
  Schedules = {"recurring", "once"}
  Faulty = {}
  Workers = {w1, w2}
  Triggers = {w2}
  Horizon = 2
  DayLength = 2
  MaxCrashes = 1
  NoTemplate = NoTemplate
SPECIFICATION Spec
INVARIANTS
  TypeOK
PROPERTIES
  GeneratedOnce
  NoLostOccurrence
  DeadOccurrencesClose
  CatchUp
