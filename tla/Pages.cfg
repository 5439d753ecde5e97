SPECIFICATION Spec
CONSTANTS
  Questions = {1, 2}
  Banks = 2
  Files = {1, 2}
  MaxResumes = 2
  Keywords = {0, 1}
  Jobs = {1, 2}
  Sessions = {1, 2}
  Polls = 2
  MaxLogins = 2
  Moves = 3
  InFlight = 2
  Scenarios <- Everything
INVARIANTS
  PagesTypeOK
  RoomIsReady
  ProtectedNeedsLogin
  NeverStuck
  NothingHangs
  OneStart
PROPERTIES
  FreshList
  ReportSettles
CHECK_DEADLOCK FALSE
