\* Two callers start the same session.
CONSTANTS
    c1 = c1
    c2 = c2
    h1 = h1
    h2 = h2
    Conns = {c1}
    Callers = {h1, h2}
    Allowed <- TwoStarters
    Unreliable = {}
    StateExpires = FALSE
    QuestionCounts = {1}
    MaxRows = 6
    NoLive = NoLive
    ModelActions = {"follow_up", "next_question", "finish", ""}
    MaxTurns = 6
    PersonaLimit = 1
SPECIFICATION Spec
PROPERTY InProgressOnlyEnds
CHECK_DEADLOCK FALSE
