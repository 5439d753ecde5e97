\* Two tabs answer the same question.
CONSTANTS
    c1 = c1
    c2 = c2
    h1 = h1
    h2 = h2
    Conns = {c1, c2}
    Callers = {}
    Allowed <- NoCallers
    Unreliable = {}
    StateExpires = FALSE
    QuestionCounts = {1}
    MaxRows = 5
    NoLive = NoLive
    ModelActions = {"follow_up", "next_question", "finish", ""}
    MaxTurns = 9
    PersonaLimit = 2
SPECIFICATION Spec
INVARIANT FollowUpsCapped
SYMMETRY Tabs
CHECK_DEADLOCK FALSE
