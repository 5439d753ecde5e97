SPECIFICATION FairSpec
CONSTANTS
  Sockets = {1, 2}
  Retries = 1
  Texts = 2
  MaxAnswers = 2
  Readings = {1, 2}
  MaxSegments = 2
  EnoughFrames = 2
  Scenarios <- MCScenarios
INVARIANTS TypeOK OneSocket AnsweredOnce NothingDropped ShowsPending QuietMeansStale CameraReleased OneMicrophone
PROPERTY EndNoticed
CHECK_DEADLOCK FALSE
