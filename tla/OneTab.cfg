\* One patient candidate with one tab, one caller that may issue everything, a model within its contract.
CONSTANTS
    c1 = c1
    c2 = c2
    h1 = h1
    h2 = h2
    Conns = {c1}
    Callers = {h1}
    Allowed <- Everything
    Unreliable = {}
    StateExpires = FALSE
    QuestionCounts = {1, 2}
    MaxRows = 14
    NoLive = NoLive
    ModelActions = {"follow_up", "next_question", "finish", ""}
    MaxTurns = 8
    PersonaLimit = 2
SPECIFICATION PatientSpec
INVARIANTS
    LiveMatchesTranscript
    TranscriptBounded
PROPERTIES
    ImplementsDialogue
    InterviewEnds
    EndedIsEvaluated
CHECK_DEADLOCK FALSE
