\* The connection's handler dies while entering the room.
CONSTANTS
    c1 = c1
    c2 = c2
    h1 = h1
    h2 = h2
    Conns = {c1}
    Callers = {}
    Allowed <- NoCallers
    Unreliable = {c1}
    StateExpires = FALSE
    QuestionCounts = {1}
    MaxRows = 4
    NoLive = NoLive
    ModelActions = {"follow_up", "next_question", "finish", ""}
    MaxTurns = 9
    PersonaLimit = 2
SPECIFICATION Spec
INVARIANT ReconnectKeepsPending
CHECK_DEADLOCK FALSE
