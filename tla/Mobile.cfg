\* A task, and a ticket from its form on; two requests at a time, one photo.
CONSTANTS
  Kinds = {"task", "new"}
  Calls = {c1, c2}
  Photos = {p1}
  MinPhotos = 0
  MaxPhotos = 1
  MaxVersions = 2
  MaxKills = 1
  None = None
SPECIFICATION Spec
INVARIANTS
  SpinnersHonest
PROPERTIES
  RefreshIsSingleFlight
  ShownNeverOlder
  RequestsEnd
