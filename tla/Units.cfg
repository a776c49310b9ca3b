\* Rooms and tasks, two operations at a time, two changes, a lost request, a tab hidden at will.
CONSTANTS
  Lists <- RoomsAndTasks
  Units <- RoomsOnly
  Polled <- RoomsAndTasks
  Commands <- RoomTaskCommands
  Calls = {c1, c2}
  MaxChanges = 2
  MaxLosses = 1
  Guess = Guess
  Unread = Unread
  Asked = Asked
  NoScope = NoScope
SPECIFICATION Spec
PROPERTIES
  Converges
  RefreshIsSingleFlight
  PollEnds
CHECK_DEADLOCK FALSE
