\* Two tabs and one caller, everything reliable.
CONSTANTS
    c1 = c1
    c2 = c2
    h1 = h1
    h2 = h2
    Conns = {c1, c2}
    Callers = {h1}
    Allowed <- NoRetry
    Unreliable = {}
    StateExpires = FALSE
    QuestionCounts = {1}
    MaxRows = 4
    NoLive = NoLive
    ModelActions = {"follow_up", "next_question", "finish", "", "other"}
    MaxTurns = 5
    PersonaLimit = 1
SPECIFICATION Spec
INVARIANTS
    TypeOK
    TurnCountNeverAhead
    PendingWasRecorded
    AskedUpToCurrent
    DecideNeverPanics
    FirstQuestionOnce
PROPERTY ImplementsLifecycle
SYMMETRY Tabs
CHECK_DEADLOCK FALSE
