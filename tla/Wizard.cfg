\* Two areas, two zones, two rooms, a dorm with a bed, a washroom.
CONSTANTS
  a1 = a1
  a2 = a2
  z1 = z1
  z2 = z2
  r1 = r1
  r2 = r2
  d1 = d1
  b1 = b1
  w1 = w1
  Areas = {a1, a2}
  Zones = {z1, z2}
  Rooms = {r1, r2}
  Dorms = {d1}
  Beds = {b1}
  Washrooms = {w1}
  Nowhere = Nowhere
  ZoneOf <- Zoned
  AreaOf <- InAreas
  DormOf <- Bedded
  Modes = {"automatic", "team"}
  ScheduleKinds = {"recurring"}
  Frequencies = {"daily", "weekly"}
SPECIFICATION WizardSpec
INVARIANTS
  MeansWhatItSays
  StepsChecked
