\* Two callers start the same session, and one of them ends it.
CONSTANTS
    c1 = c1
    c2 = c2
    h1 = h1
    h2 = h2
    Conns = {c1}
    Callers = {h1, h2}
    Allowed <- StartAndEnd
    Unreliable = {}
    StateExpires = FALSE
    QuestionCounts = {1, 2}
    MaxRows = 5
    NoLive = NoLive
    ModelActions = {"follow_up", "next_question", "finish", "", "other"}
    MaxTurns = 6
    PersonaLimit = 1
SPECIFICATION FairSpec
INVARIANTS
    TurnCountNeverAhead
    PendingWasRecorded
PROPERTIES
    EveryoneIsTold
CHECK_DEADLOCK FALSE
