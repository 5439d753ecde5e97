\* The model may answer with an action outside its contract.
CONSTANTS
    c1 = c1
    c2 = c2
    h1 = h1
    h2 = h2
    Conns = {c1}
    Callers = {}
    Allowed <- NoCallers
    Unreliable = {}
    StateExpires = FALSE
    QuestionCounts = {1}
    MaxRows = 9
    NoLive = NoLive
    ModelActions = {"follow_up", "next_question", "finish", "", "other"}
    MaxTurns = 4
    PersonaLimit = 1
SPECIFICATION Spec
INVARIANT TranscriptBounded
CHECK_DEADLOCK FALSE
