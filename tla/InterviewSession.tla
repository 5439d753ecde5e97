-------------------------- MODULE InterviewSession --------------------------
(***************************************************************************)
(* One interview session of the backend: its MySQL rows, its live state in *)
(* Redis, and the request handlers that change them concurrently           *)
(* (backend/internal/interview/service.go and repo.go, ws/handler.go,      *)
(* ws/hub.go, sessionredis/store.go, analysis/service.go).                 *)
(*                                                                         *)
(* Every WebSocket connection runs its messages one after the other in a   *)
(* goroutine of its own, and every HTTP call has a goroutine.  There is no *)
(* lock and no transaction across a handler, so each SQL statement, Redis  *)
(* command and LLM call is one step here, and steps of all handlers        *)
(* interleave.  A request that fails a check before its first effect       *)
(* changes nothing and is not a step.                                      *)
(***************************************************************************)
EXTENDS Integers, Sequences, FiniteSets, DecideRules

CONSTANTS
    Conns,           \* WebSocket connections opened by the candidate's tabs
    Callers,         \* HTTP callers, each with one request at a time
    Allowed,         \* Allowed[c]: the HTTP operations caller c may issue
    Unreliable,      \* the workers whose statements may fail
    StateExpires,    \* may Redis drop the live state after its 48 h TTL
    QuestionCounts,  \* how many questions follow the opening: 5..8
    MaxRows,         \* bound: no new message once the transcript is this long
    NoLive           \* Redis has no live state for the session

Workers == Conns \union Callers

HttpOps == {"start", "end", "delete", "retry"}

ASSUME SessionAssumption ==
    /\ Conns \intersect Callers = {}
    /\ Allowed \in [Callers -> SUBSET HttpOps]
    /\ Unreliable \subseteq Workers
    /\ StateExpires \in BOOLEAN
    /\ QuestionCounts \subseteq Nat \ {0}
    /\ MaxRows \in Nat

VARIABLES
    status,     \* interview_sessions.status, or "deleted"
    questions,  \* interview_questions of the session, in order of seq
    turns,      \* interview_turns of the session, in order of seq
    feedback,   \* feedback_json: how many turns the stored score has seen
    failed,     \* raw_feedback holds an evaluation error
    live,       \* Redis: LiveState or NoLive
    late,       \* started_at + MaxDuration has passed
    joined,     \* connections in the read loop of Serve
    told,       \* connections that were sent done or closing
    pc, op,     \* per worker: next statement, and the request it serves
    mine,       \* per worker: its copy of the live state
    kinds,      \* per worker: the question list it loaded
    turn, seq,  \* per worker: the turn it appends, and the seq it computed
    result      \* per worker: outcome of its evaluation

db    == <<status, questions, turns, feedback, failed>>
room  == <<joined, told>>
local == <<op, mine, kinds, turn, seq, result>>
vars  == <<db, live, late, room, pc, local>>
------------------------------------------------------------------------------
Status == {"draft", "ready", "in_progress", "completed", "failed", "deleted"}

QuestionKinds == {"self_intro", "bank", "generated"}

(* A question's text is identified by its seq; 0 stands for other texts. *)
Question == [kind : QuestionKinds, asked : BOOLEAN]

Turn == [kind : {"question", "follow_up", "answer", "closing"}, text : Nat]

(* PendingKind is "question" or "follow_up". *)
LiveState == [qi : Nat, fu : Nat, tc : Nat,
              kind : {"question", "follow_up"}, text : Nat]

ASSUME NoLiveAssumption == NoLive \notin LiveState

NoFeedback == -1
Feedback   == Nat \union {NoFeedback}

QuestionTurn(s) == [kind |-> "question", text |-> s]
FollowUpTurn    == [kind |-> "follow_up", text |-> 0]
AnswerTurn      == [kind |-> "answer", text |-> 0]
ClosingTurn     == [kind |-> "closing", text |-> 0]

Phases == {"idle", "list", "cas", "reread", "reconnect", "get", "decide",
           "pick", "mark", "max", "insert", "save", "complete", "clear",
           "hasfb", "evaluate", "savefb", "notify", "generate"}

Ops == {"none", "begin", "rejoin", "answer", "skip"} \union HttpOps

RowExists == status # "deleted"

(* seq 1 is the self-introduction opening, the others follow in order. *)
Arrange(n, kind) ==
    [i \in 1..n+1 |-> [kind  |-> IF i = 1 THEN "self_intro" ELSE kind,
                       asked |-> FALSE]]

(* Create leaves a draft without questions; CreateFromBank inserts the    *)
(* row and its questions in one transaction, already "ready".             *)
Init ==
    /\ \/ status = "draft" /\ questions = <<>>
       \/ /\ status = "ready"
          /\ \E n \in QuestionCounts : questions = Arrange(n, "bank")
    /\ turns = <<>>
    /\ feedback = NoFeedback /\ failed = FALSE
    /\ live = NoLive /\ late = FALSE
    /\ joined = {} /\ told = {}
    /\ pc = [w \in Workers |-> "idle"]
    /\ op = [w \in Workers |-> "none"]
    /\ mine = [w \in Workers |-> NoLive]
    /\ kinds = [w \in Workers |-> <<>>]
    /\ turn = [w \in Workers |-> AnswerTurn]
    /\ seq = [w \in Workers |-> 0]
    /\ result = [w \in Workers |-> NoFeedback]
------------------------------------------------------------------------------
Goto(w, p) == pc' = [pc EXCEPT ![w] = p]

Request(w, o, p) ==
    /\ pc[w] = "idle"
    /\ op' = [op EXCEPT ![w] = o]
    /\ Goto(w, p)

(* The handler returns; nothing it held in memory survives. *)
Return(w) ==
    /\ Goto(w, "idle")
    /\ op' = [op EXCEPT ![w] = "none"]
    /\ mine' = [mine EXCEPT ![w] = NoLive]
    /\ kinds' = [kinds EXCEPT ![w] = <<>>]
    /\ turn' = [turn EXCEPT ![w] = AnswerTurn]
    /\ seq' = [seq EXCEPT ![w] = 0]
    /\ result' = [result EXCEPT ![w] = NoFeedback]

AppendTurn(w, t) ==
    /\ turn' = [turn EXCEPT ![w] = t]
    /\ Goto(w, "max")
    /\ UNCHANGED <<op, mine, kinds, seq, result>>
------------------------------------------------------------------------------
(* Entering the room: Serve registers the connection with the hub, then   *)
(* calls BeginLive, whose loadOwnedSession reads the row ...              *)
BeginLive(w) ==
    /\ w \notin joined
    /\ \/ status = "ready" /\ Request(w, "begin", "list")
       \/ status = "in_progress" /\ Request(w, "rejoin", "list")
    /\ told' = told \ {w}
    /\ UNCHANGED <<db, live, late, joined, mine, kinds, turn, seq, result>>

(* ... and then the question list.  BeginLive refuses an empty one. *)
ListQuestions(w) ==
    /\ pc[w] = "list"
    /\ IF op[w] \in {"begin", "rejoin"}
       THEN \/ /\ questions = <<>>
               /\ Return(w)
            \/ /\ questions # <<>>
               /\ Goto(w, IF op[w] = "begin" THEN "cas" ELSE "reconnect")
               /\ UNCHANGED local
       ELSE /\ kinds' = [kinds EXCEPT ![w] =
                            [i \in 1..Len(questions) |-> questions[i].kind]]
            /\ Goto(w, "get")
            /\ UNCHANGED <<op, mine, turn, seq, result>>
    /\ UNCHANGED <<db, live, late, room>>

(* UPDATE ... SET status = 'in_progress' WHERE status = 'ready' *)
CanBeginUnguarded == RowExists  \* mutant: no condition on the status
CanBegin == status = "ready"

BeginSession(w) ==
    /\ pc[w] = "cas"
    /\ \/ /\ CanBegin
          /\ status' = "in_progress"
          /\ Goto(w, "pick")
       \/ /\ ~CanBegin
          /\ UNCHANGED status
          /\ Goto(w, "reread")
    /\ UNCHANGED <<questions, turns, feedback, failed, live, late, room, local>>

(* The loser of the race looks at the row again. *)
Reread(w) ==
    /\ pc[w] = "reread"
    /\ \/ /\ status = "in_progress"
          /\ Goto(w, "reconnect")
          /\ UNCHANGED local
       \/ /\ status # "in_progress"
          /\ Return(w)
    /\ UNCHANGED <<db, live, late, room>>

(* reconnectLive sends the pending text; without live state it refuses. *)
ReconnectOrReask(w) ==  \* mutant: without live state start over
    /\ pc[w] = "reconnect"
    /\ IF live = NoLive
       THEN /\ Goto(w, "pick")
            /\ op' = [op EXCEPT ![w] = "begin"]
            /\ UNCHANGED <<joined, mine, kinds, turn, seq, result>>
       ELSE Return(w) /\ joined' = joined \union {w}
    /\ UNCHANGED <<db, live, late, told>>

ReconnectLive(w) ==
    /\ pc[w] = "reconnect"
    /\ joined' = IF live = NoLive THEN joined ELSE joined \union {w}
    /\ Return(w)
    /\ UNCHANGED <<db, live, late, told>>

(* The client goes away; the read loop ends and the hub forgets it. *)
Disconnect(w) ==
    /\ pc[w] = "idle"
    /\ w \in joined
    /\ joined' = joined \ {w}
    /\ told' = told \ {w}
    /\ UNCHANGED <<db, live, late, pc, local>>
------------------------------------------------------------------------------
(* The read loop takes the next client message: answer or skip_question. *)
Message(w, o) ==
    /\ w \in joined
    /\ status = "in_progress"
    /\ Len(turns) < MaxRows
    /\ Request(w, o, "list")
    /\ UNCHANGED <<db, live, late, room, mine, kinds, turn, seq, result>>

HandleAnswer(w) == Message(w, "answer")
SkipQuestion(w) == Message(w, "skip")

(* The seq of the question asked next: the first, or the one after the    *)
(* current (QuestionIndex is 0-based, seq is 1-based).                    *)
NextSeq(w) == IF op[w] = "begin" THEN 1 ELSE mine[w].qi + 2

HasNext(w) == mine[w].qi + 1 < Len(kinds[w])

(* store.Get.  An answer is stored first; a skip goes on directly, and    *)
(* ends the session on the last question.                                 *)
GetState(w) ==
    /\ pc[w] = "get"
    /\ \/ live = NoLive /\ Return(w)
       \/ /\ live # NoLive
          /\ mine' = [mine EXCEPT ![w] = live]
          /\ IF op[w] = "answer"
             THEN /\ turn' = [turn EXCEPT ![w] = AnswerTurn]
                  /\ Goto(w, "max")
             ELSE /\ UNCHANGED turn
                  /\ Goto(w, IF live.qi + 1 < Len(kinds[w])
                             THEN "pick" ELSE "complete")
          /\ UNCHANGED <<op, kinds, seq, result>>
    /\ UNCHANGED <<db, live, late, room>>

(* decideNext: the self-introduction never asks the model; otherwise the  *)
(* rules are applied to whatever it answered.  An index past the loaded   *)
(* list panics, and the panic closes the connection.  An action outside   *)
(* the contract is an error, after the answer was stored.                 *)
Decision(w, m) ==
    IF kinds[w][mine[w].qi + 1] = "self_intro"
    THEN "next_question"
    ELSE ApplyDecideRules([total |-> Len(kinds[w]), qi |-> mine[w].qi,
                           fu |-> mine[w].fu, tc |-> mine[w].tc,
                           late |-> late, action |-> m])

Decide(w) ==
    /\ pc[w] = "decide"
    /\ IF mine[w].qi >= Len(kinds[w])
       THEN Return(w) /\ joined' = joined \ {w} /\ told' = told \ {w}
       ELSE /\ \E m \in ModelActions :
                 LET d == Decision(w, m)
                 IN \/ d = "follow_up" /\ AppendTurn(w, FollowUpTurn)
                    \/ /\ d = "next_question" /\ HasNext(w)
                       /\ Goto(w, "pick")
                       /\ UNCHANGED local
                    \/ /\ \/ d = "finish"
                          \/ d = "next_question" /\ ~HasNext(w)
                       /\ AppendTurn(w, ClosingTurn)
                    \/ d = "other" /\ Return(w)
            /\ UNCHANGED room
    /\ UNCHANGED <<db, live, late>>
------------------------------------------------------------------------------
(* Asking a main question: GetQuestionByIndex, MarkQuestionAsked,         *)
(* AppendTurn, and store.Save.                                            *)
PickQuestion(w) ==
    /\ pc[w] = "pick"
    /\ IF NextSeq(w) \in 1..Len(questions)
       THEN /\ turn' = [turn EXCEPT ![w] = QuestionTurn(NextSeq(w))]
            /\ Goto(w, "mark")
            /\ UNCHANGED <<op, mine, kinds, seq, result>>
       ELSE Return(w)
    /\ UNCHANGED <<db, live, late, room>>

MarkedIndex(w) == turn[w].text - 1  \* mutant: the index, not the seq
MarkedSeq(w) == turn[w].text

MarkQuestionAsked(w) ==
    /\ pc[w] = "mark"
    /\ questions' = [i \in 1..Len(questions) |->
                        IF i = MarkedSeq(w)
                        THEN [questions[i] EXCEPT !.asked = TRUE]
                        ELSE questions[i]]
    /\ Goto(w, "max")
    /\ UNCHANGED <<status, turns, feedback, failed, live, late, room, local>>

(* AppendTurn, first half: SELECT MAX(seq). *)
ReadMaxSeq(w) ==
    /\ pc[w] = "max"
    /\ seq' = [seq EXCEPT ![w] = Len(turns) + 1]
    /\ Goto(w, "insert")
    /\ UNCHANGED <<db, live, late, room, op, mine, kinds, turn, result>>

(* The turn counter of the copy moves with every turn the handler adds. *)
CountTwice(s) == [s EXCEPT !.tc = @ + 2]  \* mutant
CountDown(s) == [s EXCEPT !.tc = @ - 1]   \* mutant
CountTurn(s) == [s EXCEPT !.tc = @ + 1]

AfterInsert(kind) == CASE kind = "answer"  -> "decide"
                       [] kind = "closing" -> "complete"
                       [] OTHER            -> "save"

(* AppendTurn, second half: INSERT, which the unique key (session_id, seq) *)
(* and the foreign key to the session may refuse.                          *)
InsertTurn(w) ==
    /\ pc[w] = "insert"
    /\ IF RowExists /\ seq[w] > Len(turns)
       THEN /\ turns' = Append(turns, turn[w])
            /\ Goto(w, AfterInsert(turn[w].kind))
            /\ mine' = [mine EXCEPT ![w] = IF turn[w].kind = "answer"
                                           THEN CountTurn(@) ELSE @]
            /\ UNCHANGED <<op, kinds, turn, seq, result>>
       ELSE Return(w) /\ UNCHANGED turns
    /\ UNCHANGED <<status, questions, feedback, failed, live, late, room>>

(* The live state after the question or follow-up just recorded. *)
Opening(w) ==
    [qi |-> 0, fu |-> 0, tc |-> 1, kind |-> "question", text |-> turn[w].text]

FollowedUpByIndex(s) == [s EXCEPT !.qi = @ + 1]  \* mutant
FollowedUp(s) == [s EXCEPT !.fu = @ + 1]

MovedOnKeepingCount(s) == [s EXCEPT !.qi = @ + 1]  \* mutant: no reset
MovedOn(s) == [s EXCEPT !.qi = @ + 1, !.fu = 0]

ShownLate(w) == turn[w].text + 1  \* mutant: the question after this one
Shown(w) == turn[w].text

Pending(w) ==
    IF op[w] = "begin" THEN Opening(w)
    ELSE LET s == IF turn[w].kind = "follow_up"
                  THEN FollowedUp(mine[w]) ELSE MovedOn(mine[w])
         IN [CountTurn(s) EXCEPT !.kind = turn[w].kind, !.text = Shown(w)]

SaveState(w) ==
    /\ pc[w] = "save"
    /\ live' = Pending(w)
    /\ joined' = joined \union {w}
    /\ Return(w)
    /\ UNCHANGED <<db, late, told>>
------------------------------------------------------------------------------
(* Finish, its synchronous evaluation, and the hub's broadcast. *)
CompleteSession(w) ==
    /\ pc[w] = "complete"
    /\ status' = IF RowExists THEN "completed" ELSE status
    /\ Goto(w, "clear")
    /\ UNCHANGED <<questions, turns, feedback, failed, live, late, room, local>>

(* store.Delete; its error is discarded. *)
ClearState(w) ==
    /\ pc[w] = "clear"
    /\ \/ live' = NoLive
       \/ w \in Unreliable /\ UNCHANGED live
    /\ IF op[w] = "delete"
       THEN Return(w)
       ELSE Goto(w, "hasfb") /\ UNCHANGED local
    /\ UNCHANGED <<db, late, room>>

Unscored == feedback = NoFeedback  \* mutant of Scored
Scored == feedback # NoFeedback

HasFeedback(w) ==
    /\ pc[w] = "hasfb"
    /\ \/ ~Scored /\ Goto(w, "evaluate")
       \/ /\ \/ Scored
             \/ w \in Unreliable
          /\ Goto(w, "notify")
    /\ UNCHANGED <<db, live, late, room, local>>

(* evaluate reads the transcript; without an answer a fixed score is      *)
(* given, otherwise the model is asked and may fail.                      *)
Answered == \E i \in 1..Len(turns) : turns[i].kind = "answer"

Evaluate(w) ==
    /\ pc[w] = "evaluate"
    /\ \/ RowExists /\ result' = [result EXCEPT ![w] = Len(turns)]
       \/ /\ ~RowExists \/ Answered \/ w \in Unreliable
          /\ result' = [result EXCEPT ![w] = NoFeedback]
    /\ Goto(w, "savefb")
    /\ UNCHANGED <<db, live, late, room, op, mine, kinds, turn, seq>>

(* evaluateAsync writes only into an empty column, Retry always. *)
MayAlwaysWrite(w) == TRUE  \* mutant: SaveEvaluationSuccess instead
MayWriteScore(w) == op[w] = "retry" \/ feedback = NoFeedback

SaveEvaluation(w) ==
    /\ pc[w] = "savefb"
    /\ \/ /\ result[w] = NoFeedback
          /\ failed' = RowExists
          /\ UNCHANGED feedback
       \/ /\ result[w] # NoFeedback
          /\ IF RowExists /\ MayWriteScore(w)
             THEN feedback' = result[w] /\ failed' = FALSE
             ELSE UNCHANGED <<feedback, failed>>
       \/ w \in Unreliable /\ UNCHANGED <<feedback, failed>>
    /\ IF op[w] = "retry"
       THEN Return(w)
       ELSE Goto(w, "notify") /\ UNCHANGED local
    /\ UNCHANGED <<status, questions, turns, live, late, room>>

(* A connection is registered before BeginLive and until it is closed. *)
RegisteredLate == joined  \* mutant: registered after BeginLive
Registered == joined \union {c \in Conns : op[c] \in {"begin", "rejoin"}}

Broadcast(w) ==
    /\ pc[w] = "notify"
    /\ told' = told \union Registered
    /\ Return(w)
    /\ UNCHANGED <<db, live, late, joined>>
------------------------------------------------------------------------------
(* HTTP: start, end, delete, report/retry. *)
StartableAgain == status # "completed"  \* mutant: only completed is refused
Startable == status \in {"draft", "failed"}

Start(w) ==
    /\ "start" \in Allowed[w]
    /\ Startable
    /\ Request(w, "start", "generate")
    /\ UNCHANGED <<db, live, late, room, mine, kinds, turn, seq, result>>

(* The model generated a valid list (or not), and StartSession replaces   *)
(* the questions and sets "ready" without looking at the status again.    *)
StartSession(w) ==
    /\ pc[w] = "generate"
    /\ \/ /\ RowExists
          /\ \E n \in QuestionCounts : questions' = Arrange(n, "generated")
          /\ status' = "ready"
       \/ UNCHANGED <<status, questions>>
    /\ Return(w)
    /\ UNCHANGED <<turns, feedback, failed, live, late, room>>

(* ForceEnd finishes with or without live state in Redis. *)
ForceEnd(w) ==
    /\ "end" \in Allowed[w]
    /\ status = "in_progress"
    /\ Request(w, "end", "complete")
    /\ UNCHANGED <<db, live, late, room, mine, kinds, turn, seq, result>>

(* The row goes, and the cascades take questions and turns with it. *)
Delete(w) ==
    /\ "delete" \in Allowed[w]
    /\ RowExists
    /\ status' = "deleted"
    /\ questions' = <<>> /\ turns' = <<>>
    /\ feedback' = NoFeedback /\ failed' = FALSE
    /\ Request(w, "delete", "clear")
    /\ UNCHANGED <<live, late, room, mine, kinds, turn, seq, result>>

Retry(w) ==
    /\ "retry" \in Allowed[w]
    /\ status = "completed"
    /\ Request(w, "retry", "evaluate")
    /\ UNCHANGED <<db, live, late, room, mine, kinds, turn, seq, result>>
------------------------------------------------------------------------------
(* A statement fails, or the process dies, and the handler ends here. *)
Fail(w) ==
    /\ w \in Unreliable
    /\ pc[w] # "idle"
    /\ Return(w)
    /\ UNCHANGED <<db, live, late, room>>

(* Sixty minutes after started_at. *)
TimePasses ==
    /\ status = "in_progress" /\ ~late
    /\ late' = TRUE
    /\ UNCHANGED <<db, live, room, pc, local>>

(* liveStateTTL: 48 h without a Save, so no handler is still running, and *)
(* the 60 minutes are over too (started_at is never set twice).           *)
ExpireState ==
    /\ StateExpires /\ live # NoLive
    /\ \A w \in Workers : pc[w] = "idle"
    /\ live' = NoLive /\ late' = TRUE
    /\ UNCHANGED <<db, room, pc, local>>

(* The next statement of the handler w is running. *)
Step(w) ==
    \/ ListQuestions(w)     \/ BeginSession(w)     \/ Reread(w)
    \/ ReconnectLive(w)     \/ GetState(w)         \/ Decide(w)
    \/ PickQuestion(w)      \/ MarkQuestionAsked(w)
    \/ ReadMaxSeq(w)        \/ InsertTurn(w)       \/ SaveState(w)
    \/ CompleteSession(w)   \/ ClearState(w)       \/ HasFeedback(w)
    \/ Evaluate(w)          \/ SaveEvaluation(w)   \/ Broadcast(w)
    \/ StartSession(w)

Next ==
    \/ \E w \in Conns : \/ BeginLive(w)    \/ HandleAnswer(w)
                        \/ SkipQuestion(w) \/ Disconnect(w)
    \/ \E w \in Callers : Start(w) \/ ForceEnd(w) \/ Delete(w) \/ Retry(w)
    \/ \E w \in Workers : Step(w) \/ Fail(w)
    \/ TimePasses
    \/ ExpireState

Spec == Init /\ [][Next]_vars

(* Once a request is accepted its handler runs to its end: every          *)
(* statement returns, and LLM calls are bounded by timeouts.              *)
HandlersRun == \A w \in Workers : WF_vars(Step(w))

FairSpec == Spec /\ HandlersRun
------------------------------------------------------------------------------
TypeOK ==
    /\ status \in Status
    /\ questions \in Seq(Question)
    /\ turns \in Seq(Turn)
    /\ feedback \in Feedback /\ failed \in BOOLEAN
    /\ live \in LiveState \union {NoLive}
    /\ late \in BOOLEAN
    /\ joined \subseteq Conns /\ told \subseteq Conns
    /\ pc \in [Workers -> Phases]
    /\ op \in [Workers -> Ops]
    /\ mine \in [Workers -> LiveState \union {NoLive}]
    /\ kinds \in [Workers -> Seq(QuestionKinds)]
    /\ turn \in [Workers -> Turn]
    /\ seq \in [Workers -> Nat]
    /\ result \in [Workers -> Feedback]

------------------------------------------------------------------------------
(* PROPERTIES.  Those that need at most one caller that may Start, or one *)
(* connection, or reliable workers, say so; the runs choose instances.    *)

Quiet == \A w \in Workers : pc[w] = "idle"

(* The turn counter in Redis, which triggers the limit of MaxTurns, never *)
(* runs ahead of the transcript in MySQL: HandleAnswer and SkipQuestion   *)
(* count only turns whose INSERT succeeded, whatever else interleaves.    *)
TurnCountNeverAhead ==
    RowExists /\ live # NoLive => live.tc <= Len(turns)

(* What reconnectLive would show the candidate as pending is a turn that  *)
(* the transcript really holds: Save comes after the INSERT.              *)
PendingWasRecorded ==
    RowExists /\ live # NoLive =>
        \E i \in 1..Len(turns) :
            turns[i] = [kind |-> live.kind, text |-> live.text]

(* With at most one Start: the current question exists, and it and all    *)
(* questions before it are flagged as asked.                              *)
AskedUpToCurrent ==
    RowExists /\ live # NoLive =>
        /\ live.qi < Len(questions)
        /\ \A i \in 1..live.qi+1 : questions[i].asked

(* With at most one Start: decideNext never indexes the loaded questions  *)
(* out of range with the index it loaded later from Redis.                *)
DecideNeverPanics ==
    \A w \in Workers : pc[w] = "decide" => mine[w].qi < Len(kinds[w])

(* With at most one Start: however many connections enter at once, the    *)
(* compare-and-set of BeginSession lets one of them ask the opening.      *)
FirstQuestionOnce ==
    Cardinality({i \in 1..Len(turns) : turns[i] = QuestionTurn(1)}) <= 1

(* With at most one Start: the handlers implement the session lifecycle.  *)
Lifecycle == INSTANCE SessionLifecycle WITH
    phase <- status, score <- feedback,
    MayRescore <- \E c \in Callers : "retry" \in Allowed[c]

ImplementsLifecycle == Lifecycle!Spec
------------------------------------------------------------------------------
(* One connection, reliable workers, a model that keeps to its contract.  *)

Mains == Cardinality({i \in 1..Len(turns) : turns[i].kind = "question"})

FollowUps ==
    Cardinality({i \in 1..Len(turns) :
                    /\ turns[i].kind = "follow_up"
                    /\ \A j \in i..Len(turns) : turns[j].kind # "question"})

DialoguePhase ==
    IF ~RowExists THEN "gone"
    ELSE IF turns = <<>> THEN "lobby"
    ELSE CASE turns[Len(turns)].kind = "answer"  -> "deciding"
           [] turns[Len(turns)].kind = "closing" -> "over"
           [] OTHER                              -> "waiting"

LongestInterview == CHOOSE n \in {k + 1 : k \in QuestionCounts} :
                        \A k \in QuestionCounts : k < n

Dialogue == INSTANCE InterviewDialogue WITH
    phase <- DialoguePhase, main <- Mains, follow <- FollowUps,
    MaxMain <- LongestInterview, MaxFollowUps <- FollowUpCap

(* The transcript grows only as the conversation of the design allows. *)
ImplementsDialogue == Dialogue!Spec

(* Between two messages the live state agrees with the transcript: number *)
(* of turns, main question, follow-ups on it, and what is pending.        *)
LiveMatchesTranscript ==
    Quiet /\ RowExists /\ live # NoLive =>
        /\ live.tc = Len(turns)
        /\ live.qi + 1 = Mains
        /\ live.fu = FollowUps
        /\ turns[Len(turns)] = [kind |-> live.kind, text |-> live.text]

(* The limit on turns bounds the transcript.  The answer that reaches it  *)
(* and the closing come on top, and skipping is not counted against it.   *)
TranscriptBounded == Len(turns) <= MaxTurns + 2 + LongestInterview
------------------------------------------------------------------------------
(* Liveness, for reliable workers. *)

(* An interview that ended gets a score or a recorded evaluation error. *)
EndedIsEvaluated ==
    status = "completed" ~>
        feedback # NoFeedback \/ failed \/ status # "completed"

(* Every connection in the room when the session is over is sent done or  *)
(* closing, also one that was still inside BeginLive at the broadcast.    *)
EveryoneIsTold ==
    \A c \in Conns :
        status = "completed" /\ c \in joined ~>
            c \in told \/ c \notin joined \/ status # "completed"

(* A candidate who keeps coming back and answering reaches the end: the   *)
(* follow-up limit and the finite list leave the model no way to prevent  *)
(* it.                                                                    *)
Patient == \A c \in Conns : /\ WF_vars(BeginLive(c))
                            /\ SF_vars(HandleAnswer(c))

PatientSpec == FairSpec /\ Patient

InterviewEnds == status = "in_progress" ~> status \in {"completed", "deleted"}
------------------------------------------------------------------------------
(* What the documents and comments say, and concurrent or failing         *)
(* handlers do not respect.                                               *)

(* MVP design, section 4.3: in_progress only ever ends (or fails). *)
InProgressOnlyEnds ==
    [][status = "in_progress" =>
          status' \in {"in_progress", "completed", "failed", "deleted"}]_vars

(* MVP design, section 5.4: at most two follow-ups per question (here the *)
(* persona's limit).                                                      *)
FollowUpsCapped == FollowUps <= FollowUpCap

(* MVP design, acceptance A6: reconnecting does not lose what is pending. *)
ReconnectKeepsPending ==
    Quiet /\ status = "in_progress" => live # NoLive

(* Comment in Service.Delete: no orphan live state stays behind. *)
NoOrphanState == Quiet /\ status = "deleted" => live = NoLive
==============================================================================
