\* A small room: one text, one answer, the candidate at the switches.
SPECIFICATION FairSpec
CONSTANTS
  Sockets = {1, 2}
  Retries = 1
  Texts = 1
  MaxAnswers = 1
  Readings = {1, 2}
  MaxSegments = 1
  EnoughFrames = 1
  Scenarios <- Switched
PROPERTY ClosingLeads
CHECK_DEADLOCK FALSE
