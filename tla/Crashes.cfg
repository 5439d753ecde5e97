\* One tab and one caller whose handlers may fail or die at any statement.
CONSTANTS
    c1 = c1
    c2 = c2
    h1 = h1
    h2 = h2
    Conns = {c1}
    Callers = {h1}
    Allowed <- Everything
    Unreliable = {c1, h1}
    StateExpires = TRUE
    QuestionCounts = {1}
    MaxRows = 6
    NoLive = NoLive
    ModelActions = {"follow_up", "next_question", "finish", "", "other"}
    MaxTurns = 5
    PersonaLimit = 1
SPECIFICATION Spec
INVARIANTS
    TurnCountNeverAhead
    PendingWasRecorded
    AskedUpToCurrent
    FirstQuestionOnce
PROPERTY
    ImplementsLifecycle
CHECK_DEADLOCK FALSE
