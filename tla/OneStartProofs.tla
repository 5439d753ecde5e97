--------------------------- MODULE OneStartProofs ---------------------------
(***************************************************************************)
(* Theorems about InterviewSession when at most one caller issues Start.   *)
(* The run StartRace shows that they fail with two.                        *)
(***************************************************************************)
EXTENDS InterviewSessionProofs, FiniteSetTheorems

OneStarter ==
    \A a, b \in Callers :
        "start" \in Allowed[a] /\ "start" \in Allowed[b] => a = b

------------------------------------------------------------------------------
(* The course of a session.  Before it begins nobody has done anything    *)
(* that could be overwritten by StartSession or begun a second time; once *)
(* it is being finished, nothing brings it back.                          *)

Early  == {"idle", "list", "cas", "generate"}
Ending == {"clear", "hasfb", "evaluate", "savefb", "notify"}

NotBegun ==
    /\ turns = <<>> /\ live = NoLive /\ feedback = NoFeedback
    /\ \A w \in Workers : /\ pc[w] \in Early
                          /\ pc[w] = "list" => op[w] = "begin"
                          /\ status = "draft" => pc[w] \in {"idle", "generate"}

InPlace(w) ==
    /\ pc[w] = "generate" => /\ w \in Callers /\ "start" \in Allowed[w]
                             /\ status \in {"draft", "deleted"}
    /\ pc[w] \in Ending => status \in {"completed", "deleted"}
    /\ op[w] = "retry" => w \in Callers /\ "retry" \in Allowed[w]

Course ==
    /\ status # "failed"
    /\ status \in {"draft", "ready"} => NotBegun
    /\ \A w \in Workers : InPlace(w)

LEMMA InitCourse == Init => Course
  BY DEF Init, Course, NotBegun, InPlace, Early, Ending

LEMMA ReturnCourse ==
    ASSUME TypeInv, Course, NEW w \in Workers, Return(w),
           UNCHANGED status,
           status \in {"draft", "ready"} => UNCHANGED <<turns, live, feedback>>
    PROVE  Course'
<1>1. /\ \A v \in Workers \ {w} : pc'[v] = pc[v] /\ op'[v] = op[v]
      /\ pc'[w] = "idle" /\ op'[w] = "none"
  BY DEF TypeInv, LocalOK, Return, Goto
<1> QED BY <1>1 DEF Course, NotBegun, InPlace, Early, Ending

(* Whoever is past the beginning works on a session that has begun. *)
LEMMA Begun == ASSUME Course, NEW w \in Workers, pc[w] \notin Early
               PROVE  status \notin {"draft", "ready"}
<1>1. NotBegun => pc[w] \in Early BY DEF NotBegun
<1> QED BY <1>1 DEF Course

LEMMA NextCourse ==
    ASSUME OneStarter
    PROVE  TypeInv /\ TypeInv' /\ Course /\ [Next]_vars => Course'
<1> SUFFICES ASSUME TypeInv, TypeInv', Course, [Next]_vars PROVE Course'
  OBVIOUS
<1> USE DEF Workers
<1>1. ASSUME NEW w \in Conns, BeginLive(w) PROVE Course'
  BY ZenonT(40), <1>1
  DEF BeginLive, db, Request, Goto, TypeInv, LocalOK, Course, NotBegun,
     InPlace, Early, Ending
<1>2. ASSUME NEW w \in Conns, HandleAnswer(w) PROVE Course'
  BY <1>2
  DEF HandleAnswer, Message, db, Request, Goto, TypeInv, LocalOK, Course,
     NotBegun, InPlace, Early, Ending
<1>3. ASSUME NEW w \in Conns, SkipQuestion(w) PROVE Course'
  BY <1>3
  DEF SkipQuestion, Message, db, Request, Goto, TypeInv, LocalOK, Course,
     NotBegun, InPlace, Early, Ending
<1>4. ASSUME NEW w \in Conns, Disconnect(w) PROVE Course'
  BY <1>4
  DEF Disconnect, local, db, TypeInv, LocalOK, Course, NotBegun, InPlace,
     Early, Ending
<1>5. ASSUME NEW w \in Callers, Start(w) PROVE Course'
  BY <1>5
  DEF Start, Startable, db, Request, Goto, TypeInv, LocalOK, Course,
     NotBegun, InPlace, Early, Ending
<1>6. ASSUME NEW w \in Callers, ForceEnd(w) PROVE Course'
  BY <1>6
  DEF ForceEnd, db, Request, Goto, TypeInv, LocalOK, Course, NotBegun,
     InPlace, Early, Ending
<1>7. ASSUME NEW w \in Callers, Delete(w) PROVE Course'
  BY <1>7
  DEF Delete, RowExists, Request, Goto, TypeInv, LocalOK, Course, NotBegun,
     InPlace, Early, Ending
<1>8. ASSUME NEW w \in Callers, Retry(w) PROVE Course'
  BY <1>8
  DEF Retry, db, Request, Goto, TypeInv, LocalOK, Course, NotBegun, InPlace,
     Early, Ending
<1>9. ASSUME NEW w \in Workers, ListQuestions(w) PROVE Course'
  <2>1. CASE Return(w) BY <1>9, <2>1, ReturnCourse DEF ListQuestions, db
  <2>2. CASE /\ UNCHANGED op
             /\ \E p \in {"cas", "reconnect", "get"} :
                   /\ pc' = [pc EXCEPT ![w] = p]
                   /\ p = "cas" <=> op[w] = "begin"
    BY <1>9, <2>2
    DEF ListQuestions, db, TypeInv, LocalOK, Course, NotBegun, InPlace, Early,
        Ending
  <2> QED BY <1>9, <2>1, <2>2 DEF ListQuestions, Goto, local
<1>10. ASSUME NEW w \in Workers, BeginSession(w) PROVE Course'
  BY <1>10
  DEF BeginSession, CanBegin, local, Goto, TypeInv, LocalOK, Course,
     NotBegun, InPlace, Early, Ending
<1>11. ASSUME NEW w \in Workers, Reread(w) PROVE Course'
  BY <1>11, ReturnCourse
  DEF Reread, local, db, Goto, TypeInv, LocalOK, Course, NotBegun, InPlace,
     Early, Ending
<1>12. ASSUME NEW w \in Workers, ReconnectLive(w) PROVE Course'
  BY <1>12, ReturnCourse
  DEF ReconnectLive, db, TypeInv, LocalOK, Course, NotBegun, InPlace, Early,
     Ending
<1>13. ASSUME NEW w \in Workers, GetState(w) PROVE Course'
  BY SMTT(30), <1>13, ReturnCourse
  DEF GetState, db, Goto, TypeInv, LocalOK, Course, NotBegun, InPlace,
     Early, Ending
<1>14. ASSUME NEW w \in Workers, Decide(w) PROVE Course'
  BY <1>14, ReturnCourse
  DEF Decide, local, db, AppendTurn, Goto, TypeInv, LocalOK, Course,
     NotBegun, InPlace, Early, Ending
<1>15. ASSUME NEW w \in Workers, PickQuestion(w) PROVE Course'
  BY <1>15, ReturnCourse
  DEF PickQuestion, db, Goto, TypeInv, LocalOK, Course, NotBegun, InPlace,
     Early, Ending
<1>16. ASSUME NEW w \in Workers, MarkQuestionAsked(w) PROVE Course'
  BY <1>16
  DEF MarkQuestionAsked, local, Goto, TypeInv, LocalOK, Course, NotBegun,
     InPlace, Early, Ending
<1>17. ASSUME NEW w \in Workers, ReadMaxSeq(w) PROVE Course'
  BY <1>17
  DEF ReadMaxSeq, db, Goto, TypeInv, LocalOK, Course, NotBegun, InPlace,
     Early, Ending
<1>18. ASSUME NEW w \in Workers, InsertTurn(w) PROVE Course'
  <2>1. status \notin {"draft", "ready"}
    BY <1>18, Begun DEF InsertTurn, Early
  <2>2. CASE Return(w)
    BY <1>18, <2>1, <2>2, ReturnCourse DEF InsertTurn
  <2>3. CASE RowExists /\ seq[w] > Len(turns)
    <3>1. AfterInsert(turn[w].kind) \in {"decide", "complete", "save"}
      BY DEF AfterInsert, TypeInv, LocalOK, Turn
    <3>2. /\ UNCHANGED <<status, op>>
          /\ pc' = [pc EXCEPT ![w] = AfterInsert(turn[w].kind)]
      BY <1>18, <2>3 DEF InsertTurn, Goto
    <3> QED
      BY <2>1, <3>1, <3>2 DEF TypeInv, LocalOK, Course, InPlace, Ending
  <2> QED BY <1>18, <2>2, <2>3 DEF InsertTurn
<1>19. ASSUME NEW w \in Workers, SaveState(w) PROVE Course'
  <2>1. status \notin {"draft", "ready"}
    BY <1>19, Begun DEF SaveState, Early
  <2> QED BY <1>19, <2>1, ReturnCourse DEF SaveState, db
<1>20. ASSUME NEW w \in Workers, CompleteSession(w) PROVE Course'
  <2>1. status \notin {"draft", "ready"}
    BY <1>20, Begun DEF CompleteSession, Early
  <2>2. status' \in {"completed", "deleted"} /\ (status = "deleted" => UNCHANGED status)
    BY <1>20 DEF CompleteSession, RowExists
  <2>3. pc' = [pc EXCEPT ![w] = "clear"] /\ UNCHANGED op
    BY <1>20 DEF CompleteSession, Goto, local
  <2> QED BY <2>1, <2>2, <2>3 DEF TypeInv, LocalOK, Course, InPlace, Ending
<1>21. ASSUME NEW w \in Workers, ClearState(w) PROVE Course'
  BY <1>21, ReturnCourse
  DEF ClearState, local, db, Goto, TypeInv, LocalOK, Course, NotBegun,
     InPlace, Early, Ending
<1>22. ASSUME NEW w \in Workers, HasFeedback(w) PROVE Course'
  BY <1>22
  DEF HasFeedback, local, db, Goto, TypeInv, LocalOK, Course, NotBegun,
     InPlace, Early, Ending
<1>23. ASSUME NEW w \in Workers, Evaluate(w) PROVE Course'
  BY <1>23
  DEF Evaluate, RowExists, db, Goto, TypeInv, LocalOK, Course, NotBegun,
     InPlace, Early, Ending
<1>24. ASSUME NEW w \in Workers, SaveEvaluation(w) PROVE Course'
  BY <1>24, ReturnCourse
  DEF SaveEvaluation, RowExists, local, Goto, TypeInv, LocalOK, Course,
     NotBegun, InPlace, Early, Ending
<1>25. ASSUME NEW w \in Workers, Broadcast(w) PROVE Course'
  BY <1>25, ReturnCourse
  DEF Broadcast, db, TypeInv, LocalOK, Course, NotBegun, InPlace, Early,
     Ending
<1>26. ASSUME NEW w \in Workers, StartSession(w) PROVE Course'
  <2>1. /\ w \in Callers /\ "start" \in Allowed[w]
        /\ status \in {"draft", "deleted"}
    BY <1>26 DEF StartSession, Course, InPlace
  <2>2. \A v \in Workers \ {w} : pc[v] # "generate"
    BY <2>1 DEF Course, InPlace, OneStarter
  <2>3. /\ \A v \in Workers \ {w} : pc'[v] = pc[v] /\ op'[v] = op[v]
        /\ pc'[w] = "idle" /\ op'[w] = "none"
    BY <1>26 DEF StartSession, Return, Goto, TypeInv, LocalOK
  <2>4. /\ UNCHANGED <<turns, live, feedback>>
        /\ \/ UNCHANGED status
           \/ RowExists /\ status' = "ready"
    BY <1>26 DEF StartSession
  <2> QED
    BY <2>1, <2>2, <2>3, <2>4
    DEF Course, NotBegun, InPlace, Early, Ending, RowExists
<1>27. ASSUME NEW w \in Workers, Fail(w) PROVE Course'
  BY <1>27, ReturnCourse
  DEF Fail, db, TypeInv, LocalOK, Course, NotBegun, InPlace, Early, Ending
<1>28. CASE TimePasses
  BY <1>28 DEF TimePasses, db, local, Course, NotBegun, InPlace
<1>29. CASE ExpireState
  BY <1>29 DEF ExpireState, db, local, Course, NotBegun, InPlace
<1>30. CASE UNCHANGED vars
  BY <1>30 DEF vars, db, local, Course, NotBegun, InPlace
<1> QED
  BY <1>1, <1>2, <1>3, <1>4, <1>5, <1>6, <1>7, <1>8, <1>9, <1>10, <1>11,
     <1>12,
     <1>13, <1>14, <1>15, <1>16, <1>17, <1>18, <1>19, <1>20, <1>21, <1>22, <1>23,
     <1>24, <1>25, <1>26, <1>27, <1>28, <1>29, <1>30
  DEF Next, Step
------------------------------------------------------------------------------
(* The handlers implement SessionLifecycle. *)
LEMMA CourseRefines ==
    TypeInv /\ TypeInv' /\ Course /\ [Next]_vars =>
        [Lifecycle!Next]_<<status, feedback>>
<1> SUFFICES ASSUME TypeInv, TypeInv', Course, [Next]_vars
             PROVE  \/ Lifecycle!Next
                    \/ UNCHANGED <<status, feedback>>
  OBVIOUS
<1> USE DEF Workers
<1>1. CASE UNCHANGED <<status, feedback>> BY <1>1
<1>2. ASSUME NEW w \in Workers, BeginSession(w), status' # status
      PROVE  Lifecycle!Next
  BY <1>2
  DEF BeginSession, CanBegin, Lifecycle!Next, Lifecycle!Open,
     Lifecycle!Advance
<1>3. ASSUME NEW w \in Workers, CompleteSession(w), status' # status
      PROVE  Lifecycle!Next
  <2>1. status \in Status /\ status # "failed"
    BY DEF TypeInv, StoreOK, Course
  <2>2. status \notin {"draft", "ready", "deleted"}
    BY <1>3, Begun DEF CompleteSession, Early, RowExists
  <2>3. status' = "completed" /\ UNCHANGED feedback
    BY <1>3, <2>2 DEF CompleteSession, RowExists
  <2>4. status = "in_progress" BY <1>3, <2>1, <2>2, <2>3 DEF Status
  <2> QED
    BY <2>3, <2>4 DEF Lifecycle!Next, Lifecycle!Close, Lifecycle!Advance
<1>4. ASSUME NEW w \in Workers, SaveEvaluation(w), feedback' # feedback
      PROVE  Lifecycle!Next
  <2>1. /\ RowExists /\ MayWriteScore(w) /\ feedback' = result[w]
        /\ result[w] # NoFeedback /\ UNCHANGED status
    BY <1>4 DEF SaveEvaluation
  <2>2. status = "completed"
    BY <1>4, <2>1 DEF SaveEvaluation, Course, InPlace, Ending, RowExists
  <2>3. feedback = NoFeedback \/ \E c \in Callers : "retry" \in Allowed[c]
    BY <2>1 DEF MayWriteScore, Course, InPlace
  <2>4. feedback' \in Nat BY <2>1 DEF TypeInv, LocalOK, Feedback
  <2> QED
    BY <2>1, <2>2, <2>3, <2>4
    DEF Lifecycle!Next, Lifecycle!Score, Lifecycle!NoScore, NoFeedback
<1>5. ASSUME NEW w \in Workers, StartSession(w), status' # status
      PROVE  Lifecycle!Next
  <2>1. status' = "ready" /\ UNCHANGED feedback /\ RowExists
    BY <1>5 DEF StartSession
  <2>2. status = "draft"
    BY <1>5, <2>1 DEF StartSession, Course, InPlace, RowExists
  <2> QED
    BY <2>1, <2>2 DEF Lifecycle!Next, Lifecycle!Prepare, Lifecycle!Advance
<1>6. ASSUME NEW w \in Callers, Delete(w) PROVE Lifecycle!Next
  BY <1>6
  DEF Delete, RowExists, Lifecycle!Next, Lifecycle!Remove, Lifecycle!NoScore,
      NoFeedback
<1>7. ASSUME NEW w \in Workers, Step(w)
      PROVE  Lifecycle!Next \/ UNCHANGED <<status, feedback>>
  BY <1>2, <1>3, <1>4, <1>5, <1>7
  DEF Step, ListQuestions, BeginSession, Reread, ReconnectLive, GetState,
     Decide,
      PickQuestion, MarkQuestionAsked, ReadMaxSeq, InsertTurn, SaveState,
      CompleteSession, ClearState, HasFeedback, Evaluate, SaveEvaluation,
      Broadcast, StartSession, db
<1>8. \A w \in Conns : BeginLive(w) \/ HandleAnswer(w) \/ SkipQuestion(w)
                          \/ Disconnect(w) => UNCHANGED <<status, feedback>>
  BY DEF BeginLive, HandleAnswer, SkipQuestion, Message, Disconnect, db
<1>9. \A w \in Callers : Start(w) \/ ForceEnd(w) \/ Retry(w) =>
                            UNCHANGED <<status, feedback>>
  BY DEF Start, ForceEnd, Retry, db
<1>10. (\E w \in Workers : Fail(w)) \/ TimePasses \/ ExpireState
          \/ UNCHANGED vars => UNCHANGED <<status, feedback>>
  BY DEF Fail, TimePasses, ExpireState, vars, db
<1> QED BY <1>6, <1>7, <1>8, <1>9, <1>10 DEF Next

(* With at most one Start the status walks its course once, the stored    *)
(* score is replaced only by a retry, and a deletion is final.            *)
THEOREM LifecycleImplemented ==
    ASSUME OneStarter
    PROVE  Spec => ImplementsLifecycle
<1>1. Init => Lifecycle!Init
  BY DEF Init, Lifecycle!Init, Lifecycle!NoScore, NoFeedback
<1> QED
  BY <1>1, InitType, NextType, InitCourse, NextCourse, CourseRefines, PTL
  DEF Spec, ImplementsLifecycle, Lifecycle!Spec
------------------------------------------------------------------------------
(* The opening question.  The compare-and-set of BeginSession hands out    *)
(* the right to ask it once: while one handler holds it, no other does and *)
(* the question is not in the transcript.                                  *)

Numbered ==
    \A w \in Workers :
        pc[w] \in Recording /\ turn[w].kind = "question" =>
            turn[w].text = NextSeq(w)

LEMMA InitNumbered == Init => Numbered
  BY DEF Init, Numbered, Recording

LEMMA NumberedKept ==
    ASSUME Numbered, NEW w \in Workers, Elsewhere(w),
           pc'[w] \in Recording /\ turn'[w].kind = "question" =>
               turn'[w].text = NextSeq(w)'
    PROVE  Numbered'
  BY DEF Numbered, Elsewhere, NextSeq

LEMMA NextNumbered == TypeInv /\ TypeInv' /\ Numbered /\ [Next]_vars => Numbered'
<1> SUFFICES ASSUME TypeInv, TypeInv', Numbered, [Next]_vars PROVE Numbered'
  OBVIOUS
<1> USE DEF Workers
<1>1. ASSUME NEW w \in Conns, BeginLive(w) PROVE Numbered'
  BY SMTT(30), <1>1, NumberedKept
  DEF BeginLive, Request, Goto, TypeInv, LocalOK, Elsewhere, Recording
<1>2. ASSUME NEW w \in Conns, HandleAnswer(w) PROVE Numbered'
  BY <1>2, NumberedKept
  DEF HandleAnswer, Message, Request, Goto, TypeInv, LocalOK, Elsewhere,
     Recording
<1>3. ASSUME NEW w \in Conns, SkipQuestion(w) PROVE Numbered'
  BY <1>3, NumberedKept
  DEF SkipQuestion, Message, Request, Goto, TypeInv, LocalOK, Elsewhere,
     Recording
<1>4. ASSUME NEW w \in Conns, Disconnect(w) PROVE Numbered'
  BY <1>4, NumberedKept
  DEF Disconnect, local, TypeInv, LocalOK, Elsewhere, Recording
<1>5. ASSUME NEW w \in Callers, Start(w) PROVE Numbered'
  BY <1>5, NumberedKept
  DEF Start, Request, Goto, TypeInv, LocalOK, Elsewhere, Recording
<1>6. ASSUME NEW w \in Callers, ForceEnd(w) PROVE Numbered'
  BY <1>6, NumberedKept
  DEF ForceEnd, Request, Goto, TypeInv, LocalOK, Elsewhere, Recording
<1>7. ASSUME NEW w \in Callers, Delete(w) PROVE Numbered'
  BY <1>7, NumberedKept
  DEF Delete, Request, Goto, TypeInv, LocalOK, Elsewhere, Recording
<1>8. ASSUME NEW w \in Callers, Retry(w) PROVE Numbered'
  BY <1>8, NumberedKept
  DEF Retry, Request, Goto, TypeInv, LocalOK, Elsewhere, Recording
<1>9. ASSUME NEW w \in Workers, ListQuestions(w) PROVE Numbered'
  <2>1. CASE Return(w)
    BY <2>1, ReturnElsewhere, NumberedKept DEF Recording
  <2>2. CASE \E p \in {"cas", "reconnect", "get"} :
               Goto(w, p) /\ UNCHANGED <<op, mine, turn, seq, result>>
    <3>1. Elsewhere(w)
      BY <1>9, <2>2
      DEF ListQuestions, local, Goto, TypeInv, LocalOK, Elsewhere
    <3>2. pc'[w] \notin Recording
      BY <2>2 DEF Goto, TypeInv, LocalOK, Recording
    <3> QED BY <3>1, <3>2, NumberedKept
  <2> QED BY <1>9, <2>1, <2>2 DEF ListQuestions, local
<1>10. ASSUME NEW w \in Workers, BeginSession(w) PROVE Numbered'
  BY ZenonT(40), <1>10, NumberedKept
  DEF BeginSession, local, Goto, TypeInv, LocalOK, Elsewhere, Recording
<1>11. ASSUME NEW w \in Workers, Reread(w) PROVE Numbered'
  BY ZenonT(40), <1>11, ReturnElsewhere, NumberedKept
  DEF Reread, local, Goto, TypeInv, LocalOK, Elsewhere, Recording
<1>12. ASSUME NEW w \in Workers, ReconnectLive(w) PROVE Numbered'
  BY <1>12, ReturnElsewhere, NumberedKept
  DEF ReconnectLive, TypeInv, LocalOK, Elsewhere, Recording
<1>13. ASSUME NEW w \in Workers, GetState(w) PROVE Numbered'
  <2>1. CASE Return(w)
    BY <2>1, ReturnElsewhere, NumberedKept DEF Recording
  <2>2. CASE live # NoLive
    <3>1. Elsewhere(w)
      BY <1>13, <2>2 DEF GetState, Goto, Elsewhere, TypeInv, LocalOK
    <3>2. pc'[w] \in Recording => turn'[w] = AnswerTurn
      BY <1>13, <2>2 DEF GetState, Goto, TypeInv, LocalOK, Recording
    <3> QED BY <3>1, <3>2, NumberedKept DEF AnswerTurn
  <2> QED BY <1>13, <2>1, <2>2 DEF GetState
<1>14. ASSUME NEW w \in Workers, Decide(w) PROVE Numbered'
  <2>1. CASE Return(w)
    BY <2>1, ReturnElsewhere, NumberedKept DEF Recording
  <2>2. CASE \E t \in {FollowUpTurn, ClosingTurn} : AppendTurn(w, t)
    <3>1. Elsewhere(w)
      BY <2>2 DEF AppendTurn, Goto, TypeInv, LocalOK, Elsewhere
    <3>2. turn'[w].kind # "question"
      BY <2>2 DEF AppendTurn, FollowUpTurn, ClosingTurn, TypeInv, LocalOK
    <3> QED BY <3>1, <3>2, NumberedKept
  <2>3. CASE Goto(w, "pick") /\ UNCHANGED local
    BY <2>3, NumberedKept
    DEF Goto, local, TypeInv, LocalOK, Elsewhere, Recording
  <2> QED BY <1>14, <2>1, <2>2, <2>3 DEF Decide
<1>15. ASSUME NEW w \in Workers, PickQuestion(w) PROVE Numbered'
  <2>1. CASE Return(w)
    BY <2>1, ReturnElsewhere, NumberedKept DEF Recording
  <2>2. CASE /\ turn' = [turn EXCEPT ![w] = QuestionTurn(NextSeq(w))]
             /\ Goto(w, "mark") /\ UNCHANGED <<op, mine, kinds, seq, result>>
    <3>1. Elsewhere(w)
      BY <1>15, <2>2 DEF PickQuestion, Goto, Elsewhere, TypeInv, LocalOK
    <3>2. turn'[w].text = NextSeq(w)
      BY <2>2 DEF QuestionTurn, TypeInv, LocalOK
    <3>3. turn'[w].text = NextSeq(w)'
      BY <2>2, <3>2 DEF NextSeq
    <3> QED BY <3>1, <3>3, NumberedKept DEF Workers
  <2> QED BY <1>15, <2>1, <2>2 DEF PickQuestion
<1>16. ASSUME NEW w \in Workers, MarkQuestionAsked(w) PROVE Numbered'
  BY <1>16, NumberedKept
  DEF MarkQuestionAsked, local, Goto, Numbered, NextSeq, TypeInv, LocalOK,
     Elsewhere,
      Recording
<1>17. ASSUME NEW w \in Workers, ReadMaxSeq(w) PROVE Numbered'
  BY <1>17, NumberedKept
  DEF ReadMaxSeq, Goto, Numbered, NextSeq, TypeInv, LocalOK, Elsewhere,
     Recording
<1>18. ASSUME NEW w \in Workers, InsertTurn(w) PROVE Numbered'
  <2>1. CASE Return(w)
    BY <2>1, ReturnElsewhere, NumberedKept DEF Recording
  <2>2. CASE /\ UNCHANGED <<op, turn>> /\ Goto(w, AfterInsert(turn[w].kind))
             /\ mine' = [mine EXCEPT ![w] = IF turn[w].kind = "answer"
                                            THEN CountTurn(@) ELSE @]
    <3>1. Elsewhere(w) BY <2>2 DEF Goto, Elsewhere, TypeInv, LocalOK
    <3>2. turn[w].kind = "question" => mine'[w] = mine[w]
      BY <2>2 DEF TypeInv, LocalOK
    <3> QED
      BY <1>18, <2>2, <3>1, <3>2, NumberedKept
      DEF InsertTurn, Numbered, NextSeq, Recording
  <2> QED BY <1>18, <2>1, <2>2 DEF InsertTurn
<1>19. ASSUME NEW w \in Workers, SaveState(w) PROVE Numbered'
  BY <1>19, ReturnElsewhere, NumberedKept
  DEF SaveState, TypeInv, LocalOK, Elsewhere, Recording
<1>20. ASSUME NEW w \in Workers, CompleteSession(w) PROVE Numbered'
  BY <1>20, NumberedKept
  DEF CompleteSession, local, Goto, TypeInv, LocalOK, Elsewhere, Recording
<1>21. ASSUME NEW w \in Workers, ClearState(w) PROVE Numbered'
  <2>1. CASE Return(w)
    BY <2>1, ReturnElsewhere, NumberedKept DEF Recording
  <2>2. CASE Goto(w, "hasfb") /\ UNCHANGED local
    BY <2>2, NumberedKept
    DEF local, Goto, TypeInv, LocalOK, Elsewhere, Recording
  <2> QED BY <1>21, <2>1, <2>2 DEF ClearState
<1>22. ASSUME NEW w \in Workers, HasFeedback(w) PROVE Numbered'
  BY ZenonT(40), <1>22, NumberedKept
  DEF HasFeedback, local, Goto, TypeInv, LocalOK, Elsewhere, Recording
<1>23. ASSUME NEW w \in Workers, Evaluate(w) PROVE Numbered'
  BY <1>23, NumberedKept
  DEF Evaluate, Goto, TypeInv, LocalOK, Elsewhere, Recording
<1>24. ASSUME NEW w \in Workers, SaveEvaluation(w) PROVE Numbered'
  <2>1. CASE Return(w)
    BY <2>1, ReturnElsewhere, NumberedKept DEF Recording
  <2>2. CASE Goto(w, "notify") /\ UNCHANGED local
    BY <2>2, NumberedKept
    DEF local, Goto, TypeInv, LocalOK, Elsewhere, Recording
  <2> QED BY <1>24, <2>1, <2>2 DEF SaveEvaluation
<1>25. ASSUME NEW w \in Workers, Broadcast(w) PROVE Numbered'
  BY <1>25, ReturnElsewhere, NumberedKept
  DEF Broadcast, TypeInv, LocalOK, Elsewhere, Recording
<1>26. ASSUME NEW w \in Workers, StartSession(w) PROVE Numbered'
  BY <1>26, ReturnElsewhere, NumberedKept
  DEF StartSession, TypeInv, LocalOK, Elsewhere, Recording
<1>27. ASSUME NEW w \in Workers, Fail(w) PROVE Numbered'
  BY <1>27, ReturnElsewhere, NumberedKept
  DEF Fail, TypeInv, LocalOK, Elsewhere, Recording
<1>28. CASE TimePasses
  BY <1>28 DEF TimePasses, local, Numbered, NextSeq
<1>29. CASE ExpireState
  BY <1>29 DEF ExpireState, local, Numbered, NextSeq
<1>30. CASE UNCHANGED vars
  BY <1>30 DEF vars, local, Numbered, NextSeq
<1> QED
  BY <1>1, <1>2, <1>3, <1>4, <1>5, <1>6, <1>7, <1>8, <1>9, <1>10, <1>11,
     <1>12,
     <1>13, <1>14, <1>15, <1>16, <1>17, <1>18, <1>19, <1>20, <1>21, <1>22, <1>23,
     <1>24, <1>25, <1>26, <1>27, <1>28, <1>29, <1>30
  DEF Next, Step

Opener(w) == op[w] = "begin" /\ pc[w] \in {"pick", "mark", "max", "insert"}

OpeningOK ==
    /\ \A v, w \in Workers : Opener(v) /\ Opener(w) => v = w
    /\ \A w \in Workers : Opener(w) =>
          \A i \in 1..Len(turns) : turns[i] # QuestionTurn(1)
    /\ \A i, j \in 1..Len(turns) :
          turns[i] = QuestionTurn(1) /\ turns[j] = QuestionTurn(1) => i = j

LEMMA InitOpening == Init => OpeningOK
  BY DEF Init, OpeningOK, Opener

LEMMA OpeningKept ==
    ASSUME OpeningOK, NEW w \in Workers, Elsewhere(w), UNCHANGED turns,
           Opener(w)' => Opener(w)
    PROVE  OpeningOK'
<1>1. \A v \in Workers : Opener(v)' => Opener(v)
  BY DEF Opener, Elsewhere
<1> QED BY <1>1 DEF OpeningOK

LEMMA NextOpening ==
    TypeInv /\ TypeInv' /\ Course /\ Numbered /\ OpeningOK /\ [Next]_vars =>
        OpeningOK'
<1> SUFFICES ASSUME TypeInv, TypeInv', Course, Numbered, OpeningOK, [Next]_vars
             PROVE  OpeningOK'
  OBVIOUS
<1> USE DEF Workers
<1>1. ASSUME NEW w \in Conns, BeginLive(w) PROVE OpeningOK'
  <2>1. Elsewhere(w) /\ UNCHANGED turns
    BY <1>1 DEF BeginLive, db, Request, Goto, Elsewhere, TypeInv, LocalOK
  <2>2. pc'[w] = "list"
    BY <1>1 DEF BeginLive, Request, Goto, TypeInv, LocalOK
  <2> QED BY <2>1, <2>2, OpeningKept DEF Opener
<1>2. ASSUME NEW w \in Conns, HandleAnswer(w) PROVE OpeningOK'
  BY <1>2, OpeningKept
  DEF HandleAnswer, Message, db, Request, Goto, Opener, Elsewhere, TypeInv,
     LocalOK
<1>3. ASSUME NEW w \in Conns, SkipQuestion(w) PROVE OpeningOK'
  BY <1>3, OpeningKept
  DEF SkipQuestion, Message, db, Request, Goto, Opener, Elsewhere, TypeInv,
     LocalOK
<1>4. ASSUME NEW w \in Conns, Disconnect(w) PROVE OpeningOK'
  BY <1>4, OpeningKept
  DEF Disconnect, local, db, Opener, Elsewhere, TypeInv, LocalOK
<1>5. ASSUME NEW w \in Callers, Start(w) PROVE OpeningOK'
  BY <1>5, OpeningKept
  DEF Start, db, Request, Goto, Opener, Elsewhere, TypeInv, LocalOK
<1>6. ASSUME NEW w \in Callers, ForceEnd(w) PROVE OpeningOK'
  BY <1>6, OpeningKept
  DEF ForceEnd, db, Request, Goto, Opener, Elsewhere, TypeInv, LocalOK
<1>7. ASSUME NEW w \in Callers, Delete(w) PROVE OpeningOK'
  <2>1. turns' = <<>> /\ \A v \in Workers : Opener(v)' => Opener(v)
    BY <1>7 DEF Delete, Request, Goto, Opener, TypeInv, LocalOK
  <2> QED BY <2>1 DEF OpeningOK
<1>8. ASSUME NEW w \in Callers, Retry(w) PROVE OpeningOK'
  BY <1>8, OpeningKept
  DEF Retry, db, Request, Goto, Opener, Elsewhere, TypeInv, LocalOK
<1>9. ASSUME NEW w \in Workers, ListQuestions(w) PROVE OpeningOK'
  <2>1. CASE Return(w)
    BY <1>9, <2>1, ReturnElsewhere, OpeningKept DEF ListQuestions, db, Opener
  <2>2. CASE \E p \in {"cas", "reconnect", "get"} :
               Goto(w, p) /\ UNCHANGED <<op, mine, turn, seq, result>>
    <3>1. Elsewhere(w) /\ UNCHANGED turns
      BY <1>9, <2>2
      DEF ListQuestions, local, db, Goto, TypeInv, LocalOK, Elsewhere
    <3>2. pc'[w] \in {"cas", "reconnect", "get"}
      BY <2>2 DEF Goto, TypeInv, LocalOK
    <3> QED BY <3>1, <3>2, OpeningKept DEF Opener
  <2> QED BY <1>9, <2>1, <2>2 DEF ListQuestions, local
<1>10. ASSUME NEW w \in Workers, BeginSession(w) PROVE OpeningOK'
  <2>1. CASE CanBegin
    <3>1. turns = <<>> /\ \A v \in Workers : pc[v] \in Early
      BY <2>1 DEF CanBegin, Course, NotBegun
    <3>2. UNCHANGED turns /\ \A v \in Workers \ {w} : pc'[v] = pc[v]
      BY <1>10 DEF BeginSession, Goto, TypeInv, LocalOK
    <3>3. \A v \in Workers \ {w} : ~Opener(v)'
      BY <3>1, <3>2 DEF Opener, Early
    <3> QED BY <3>1, <3>2, <3>3 DEF OpeningOK
  <2>2. CASE Goto(w, "reread")
    BY <1>10, <2>2, OpeningKept
    DEF BeginSession, Goto, local, Opener, Elsewhere, TypeInv, LocalOK
  <2> QED BY <1>10, <2>1, <2>2 DEF BeginSession
<1>11. ASSUME NEW w \in Workers, Reread(w) PROVE OpeningOK'
  BY <1>11, ReturnElsewhere, OpeningKept
  DEF Reread, local, db, Goto, Opener, Elsewhere, TypeInv, LocalOK
<1>12. ASSUME NEW w \in Workers, ReconnectLive(w) PROVE OpeningOK'
  BY <1>12, ReturnElsewhere, OpeningKept
  DEF ReconnectLive, db, Opener, Elsewhere, TypeInv, LocalOK
<1>13. ASSUME NEW w \in Workers, GetState(w) PROVE OpeningOK'
  <2>1. op[w] # "begin" BY <1>13 DEF GetState, TypeInv, Handlers, HandlerOK
  <2>2. CASE Return(w)
    BY <1>13, <2>2, ReturnElsewhere, OpeningKept DEF GetState, db, Opener
  <2>3. CASE live # NoLive
    <3>1. Elsewhere(w) /\ UNCHANGED <<op, turns>>
      BY <1>13, <2>3 DEF GetState, db, Goto, Elsewhere, TypeInv, LocalOK
    <3> QED BY <2>1, <3>1, OpeningKept DEF Opener
  <2> QED BY <1>13, <2>2, <2>3 DEF GetState
<1>14. ASSUME NEW w \in Workers, Decide(w) PROVE OpeningOK'
  <2>1. op[w] = "answer" BY <1>14 DEF Decide, TypeInv, Handlers, HandlerOK
  <2>2. CASE Return(w)
    BY <1>14, <2>2, ReturnElsewhere, OpeningKept DEF Decide, db, Opener
  <2>3. CASE \E t \in {FollowUpTurn, ClosingTurn} : AppendTurn(w, t)
    BY <1>14, <2>1, <2>3, OpeningKept
    DEF Decide, db, AppendTurn, Goto, Opener, Elsewhere, TypeInv, LocalOK
  <2>4. CASE Goto(w, "pick") /\ UNCHANGED local
    BY <1>14, <2>1, <2>4, OpeningKept
    DEF Decide, db, local, Goto, Opener, Elsewhere, TypeInv, LocalOK
  <2> QED BY <1>14, <2>2, <2>3, <2>4 DEF Decide
<1>15. ASSUME NEW w \in Workers, PickQuestion(w) PROVE OpeningOK'
  <2>1. CASE Return(w)
    BY <1>15, <2>1, ReturnElsewhere, OpeningKept DEF PickQuestion, db, Opener
  <2>2. CASE /\ turn' = [turn EXCEPT ![w] = QuestionTurn(NextSeq(w))]
             /\ Goto(w, "mark") /\ UNCHANGED <<op, mine, kinds, seq, result>>
    <3>1. Elsewhere(w) /\ UNCHANGED <<op, turns>>
      BY <1>15, <2>2 DEF PickQuestion, db, Goto, Elsewhere, TypeInv, LocalOK
    <3> QED BY <1>15, <3>1, OpeningKept DEF PickQuestion, Opener
  <2> QED BY <1>15, <2>1, <2>2 DEF PickQuestion
<1>16. ASSUME NEW w \in Workers, MarkQuestionAsked(w) PROVE OpeningOK'
  BY <1>16, OpeningKept
  DEF MarkQuestionAsked, local, Goto, Opener, Elsewhere, TypeInv, LocalOK
<1>17. ASSUME NEW w \in Workers, ReadMaxSeq(w) PROVE OpeningOK'
  BY <1>17, OpeningKept
  DEF ReadMaxSeq, db, Goto, Opener, Elsewhere, TypeInv, LocalOK
<1>18. ASSUME NEW w \in Workers, InsertTurn(w) PROVE OpeningOK'
  <2>1. CASE Return(w) /\ UNCHANGED turns
    BY <1>18, <2>1, ReturnElsewhere, OpeningKept DEF Opener
  <2>2. CASE RowExists /\ seq[w] > Len(turns)
    <3>1. /\ turns' = Append(turns, turn[w]) /\ UNCHANGED <<op, turn>>
          /\ pc[w] = "insert" /\ Elsewhere(w)
          /\ pc'[w] = AfterInsert(turn[w].kind)
      BY <1>18, <2>2 DEF InsertTurn, Goto, Elsewhere, TypeInv, LocalOK
    <3>2. turns \in Seq(Turn) /\ turn[w] \in Turn
      BY DEF TypeInv, StoreOK, LocalOK
    <3>3. /\ Len(turns') = Len(turns) + 1 /\ Len(turns) \in Nat
          /\ turns'[Len(turns) + 1] = turn[w]
          /\ \A i \in 1..Len(turns) : turns'[i] = turns[i]
      BY <3>1, <3>2
    <3>4. /\ ~Opener(w)'
          /\ \A v \in Workers \ {w} : Opener(v)' => Opener(v)
      BY <3>1, <3>2 DEF AfterInsert, Opener, Elsewhere, Turn
    <3>5. CASE turn[w] = QuestionTurn(1)
      <4>1. NextSeq(w) = 1
        BY <3>1, <3>5 DEF Numbered, QuestionTurn, Recording
      <4>2. op[w] = "begin"
        <5> SUFFICES ASSUME op[w] # "begin" PROVE FALSE
          OBVIOUS
        <5>1. mine[w] \in LiveState
          BY <3>1 DEF TypeInv, Handlers, HandlerOK, Asking, Recording
        <5> QED BY <4>1, <5>1 DEF NextSeq, LiveState
      <4>3. Opener(w) BY <3>1, <4>2 DEF Opener
      <4>4. /\ \A v \in Workers : ~Opener(v)'
            /\ \A i \in 1..Len(turns) : turns[i] # QuestionTurn(1)
        BY <3>4, <4>3 DEF OpeningOK
      <4> QED BY <3>3, <4>4 DEF OpeningOK
    <3>6. CASE turn[w] # QuestionTurn(1)
      BY <3>3, <3>4, <3>6 DEF OpeningOK
    <3> QED BY <3>5, <3>6
  <2> QED BY <1>18, <2>1, <2>2 DEF InsertTurn
<1>19. ASSUME NEW w \in Workers, SaveState(w) PROVE OpeningOK'
  BY <1>19, ReturnElsewhere, OpeningKept
  DEF SaveState, db, Opener, Elsewhere, TypeInv, LocalOK
<1>20. ASSUME NEW w \in Workers, CompleteSession(w) PROVE OpeningOK'
  BY <1>20, OpeningKept
  DEF CompleteSession, local, Goto, Opener, Elsewhere, TypeInv, LocalOK
<1>21. ASSUME NEW w \in Workers, ClearState(w) PROVE OpeningOK'
  <2>1. CASE Return(w)
    BY <1>21, <2>1, ReturnElsewhere, OpeningKept DEF ClearState, db, Opener
  <2>2. CASE Goto(w, "hasfb") /\ UNCHANGED local
    BY <1>21, <2>2, OpeningKept
    DEF ClearState, local, db, Goto, Opener, Elsewhere, TypeInv, LocalOK
  <2> QED BY <1>21, <2>1, <2>2 DEF ClearState
<1>22. ASSUME NEW w \in Workers, HasFeedback(w) PROVE OpeningOK'
  BY ZenonT(40), <1>22, OpeningKept
  DEF HasFeedback, local, db, Goto, Opener, Elsewhere, TypeInv, LocalOK
<1>23. ASSUME NEW w \in Workers, Evaluate(w) PROVE OpeningOK'
  BY <1>23, OpeningKept
  DEF Evaluate, db, Goto, Opener, Elsewhere, TypeInv, LocalOK
<1>24. ASSUME NEW w \in Workers, SaveEvaluation(w) PROVE OpeningOK'
  <2>1. CASE Return(w)
    BY <1>24, <2>1, ReturnElsewhere, OpeningKept DEF SaveEvaluation, Opener
  <2>2. CASE Goto(w, "notify") /\ UNCHANGED local
    BY <1>24, <2>2, OpeningKept
    DEF SaveEvaluation, local, Goto, Opener, Elsewhere, TypeInv, LocalOK
  <2> QED BY <1>24, <2>1, <2>2 DEF SaveEvaluation
<1>25. ASSUME NEW w \in Workers, Broadcast(w) PROVE OpeningOK'
  BY <1>25, ReturnElsewhere, OpeningKept
  DEF Broadcast, db, Opener, Elsewhere, TypeInv, LocalOK
<1>26. ASSUME NEW w \in Workers, StartSession(w) PROVE OpeningOK'
  BY <1>26, ReturnElsewhere, OpeningKept
  DEF StartSession, Opener, Elsewhere, TypeInv, LocalOK
<1>27. ASSUME NEW w \in Workers, Fail(w) PROVE OpeningOK'
  BY <1>27, ReturnElsewhere, OpeningKept
  DEF Fail, db, Opener, Elsewhere, TypeInv, LocalOK
<1>28. CASE TimePasses
  BY <1>28 DEF TimePasses, db, local, OpeningOK, Opener
<1>29. CASE ExpireState
  BY <1>29 DEF ExpireState, db, local, OpeningOK, Opener
<1>30. CASE UNCHANGED vars
  BY <1>30 DEF vars, db, local, OpeningOK, Opener
<1> QED
  BY <1>1, <1>2, <1>3, <1>4, <1>5, <1>6, <1>7, <1>8, <1>9, <1>10, <1>11,
     <1>12,
     <1>13, <1>14, <1>15, <1>16, <1>17, <1>18, <1>19, <1>20, <1>21, <1>22, <1>23,
     <1>24, <1>25, <1>26, <1>27, <1>28, <1>29, <1>30
  DEF Next, Step

(* With at most one Start the opening question is asked at most once,     *)
(* however many connections enter, crash and come back.                   *)
THEOREM FirstQuestionCorrect ==
    ASSUME OneStarter
    PROVE  Spec => []FirstQuestionOnce
<1>1. TypeInv /\ OpeningOK => FirstQuestionOnce
  <2> SUFFICES ASSUME TypeInv, OpeningOK PROVE FirstQuestionOnce OBVIOUS
  <2> DEFINE Q == {i \in 1..Len(turns) : turns[i] = QuestionTurn(1)}
  <2>1. CASE Q = {}
    BY <2>1, FS_EmptySet DEF FirstQuestionOnce
  <2>2. CASE Q # {}
    <3>1. PICK i \in Q : TRUE BY <2>2
    <3>2. Q = {i} BY <3>1 DEF OpeningOK
    <3>3. Cardinality({i}) = 1 BY FS_Singleton
    <3>4. Cardinality(Q) <= 1
      <4> HIDE DEF Q
      <4> QED BY <3>2, <3>3
    <3> QED BY <3>4 DEF FirstQuestionOnce
  <2> QED BY <2>1, <2>2
<1> QED
  BY <1>1, InitType, NextType, InitCourse, NextCourse, InitNumbered,
     NextNumbered,
     InitOpening, NextOpening, PTL
  DEF Spec
------------------------------------------------------------------------------
(* The questions asked so far.  The questions up to the current one are   *)
(* flagged, in Redis and in every copy of the live state, and the list a  *)
(* handler loaded is as long as the session's.                            *)

Through(qs, n) == n <= Len(qs) /\ \A i \in 1..n : qs[i].asked

HandlerAsked(w) ==
    /\ pc[w] \in Asking \union {"decide"} /\ op[w] # "begin" =>
          Through(questions, mine[w].qi + 1)
    /\ pc[w] = "mark" => turn[w].text <= Len(questions)
    /\ pc[w] \in {"max", "insert", "save"} /\ turn[w].kind = "question" =>
          Through(questions, turn[w].text)
    /\ pc[w] = "get" => Len(kinds[w]) = Len(questions)
    /\ pc[w] \in {"max", "insert"} /\ turn[w].kind = "answer" =>
          mine[w].qi < Len(kinds[w])

Asked ==
    /\ DecideNeverPanics
    /\ RowExists => /\ live # NoLive => Through(questions, live.qi + 1)
                    /\ \A w \in Workers : HandlerAsked(w)

Others(w) ==
    /\ Elsewhere(w)
    /\ \A v \in Workers \ {w} : kinds'[v] = kinds[v]

LEMMA ReturnOthers ==
    ASSUME TypeInv, NEW w \in Workers, Return(w)
    PROVE  Others(w) /\ pc'[w] = "idle"
  BY ReturnElsewhere DEF TypeInv, LocalOK, Return, Others

(* Flags are only set while the session exists. *)
MoreAsked ==
    /\ Len(questions') = Len(questions)
    /\ \A i \in 1..Len(questions) : questions[i].asked => questions'[i].asked

LEMMA ThroughKept ==
    ASSUME TypeInv, MoreAsked, NEW n \in Nat, Through(questions, n)
    PROVE  Through(questions', n)
  BY DEF Through, MoreAsked, TypeInv, StoreOK

LEMMA AskedKept ==
    ASSUME TypeInv, Asked, NEW w \in Workers, Others(w),
           RowExists => MoreAsked, live' \in {live, NoLive},
           RowExists' => RowExists, RowExists => HandlerAsked(w)',
           pc'[w] = "decide" => mine'[w].qi < Len(kinds'[w])
    PROVE  Asked'
<1>1. DecideNeverPanics'
  BY DEF Asked, DecideNeverPanics, Others, Elsewhere
<1> SUFFICES ASSUME RowExists, RowExists'
             PROVE  /\ live' # NoLive => Through(questions', live'.qi + 1)
                    /\ \A v \in Workers : HandlerAsked(v)'
  BY <1>1 DEF Asked
<1>2. ASSUME live' # NoLive PROVE Through(questions', live'.qi + 1)
  <2>1. live' = live /\ live \in LiveState /\ Through(questions, live.qi + 1)
    BY <1>2 DEF Asked, TypeInv, StoreOK
  <2> QED BY <2>1, ThroughKept DEF LiveState
<1>3. ASSUME NEW v \in Workers, v # w PROVE HandlerAsked(v)'
  <2>1. HandlerAsked(v) BY DEF Asked
  <2>2. /\ pc'[v] = pc[v] /\ op'[v] = op[v] /\ mine'[v] = mine[v]
        /\ turn'[v] = turn[v] /\ kinds'[v] = kinds[v]
    BY <1>3 DEF Others, Elsewhere
  <2>3. /\ turn[v].text \in Nat
        /\ pc[v] \in Asking \union {"decide"} /\ op[v] # "begin" =>
              mine[v].qi + 1 \in Nat
    BY DEF TypeInv, LocalOK, Turn, Handlers, HandlerOK, LiveState
  <2>4. Len(questions') = Len(questions) BY DEF MoreAsked
  <2>5. /\ pc[v] \in Asking \union {"decide"} /\ op[v] # "begin" =>
              Through(questions', mine[v].qi + 1)
        /\ pc[v] \in {"max", "insert", "save"} /\ turn[v].kind = "question" =>
              Through(questions', turn[v].text)
    BY <2>1, <2>3, ThroughKept DEF HandlerAsked
  <2> QED BY <2>1, <2>2, <2>4, <2>5 DEF HandlerAsked
<1> QED BY <1>2, <1>3

LEMMA AskedIdle ==
    ASSUME TypeInv, Asked, NEW w \in Workers, Others(w), UNCHANGED questions,
           live' \in {live, NoLive}, RowExists' => RowExists,
           pc'[w] \notin Asking \union {"decide", "get"}
    PROVE  Asked'
<1>1. MoreAsked BY DEF MoreAsked
<1>2. HandlerAsked(w)' BY DEF HandlerAsked, Asking, Recording
<1> QED BY <1>1, <1>2, AskedKept

(* The current question after a Save, and the text of a question in       *)
(* flight.                                                                *)
LEMMA PendingIndex ==
    ASSUME TypeInv, NEW w \in Workers, pc[w] = "save"
    PROVE  /\ op[w] = "begin" => Pending(w).qi = 0
           /\ op[w] # "begin" => /\ mine[w] \in LiveState
                                 /\ turn[w].kind = "follow_up" =>
                                       Pending(w).qi = mine[w].qi
                                 /\ turn[w].kind = "question" =>
                                       Pending(w).qi = mine[w].qi + 1
<1>1. CASE op[w] = "begin" BY <1>1 DEF Pending, Opening
<1>2. CASE op[w] # "begin"
  <2>1. mine[w] \in LiveState
    BY <1>2 DEF TypeInv, Handlers, HandlerOK, Asking, Recording
  <2>2. Pending(w).qi = (IF turn[w].kind = "follow_up" THEN FollowedUp(mine[w])
                         ELSE MovedOn(mine[w])).qi
    BY <1>2, <2>1 DEF Pending, FollowedUp, MovedOn, CountTurn, LiveState
  <2>3. /\ FollowedUp(mine[w]).qi = mine[w].qi
        /\ MovedOn(mine[w]).qi = mine[w].qi + 1
    BY <2>1 DEF FollowedUp, MovedOn, LiveState
  <2> QED BY <1>2, <2>1, <2>2, <2>3
<1> QED BY <1>1, <1>2

LEMMA InitAsked == Init => Asked
  BY DEF Init, Asked, DecideNeverPanics, HandlerAsked, Asking, Recording

LEMMA NextAsked ==
    TypeInv /\ TypeInv' /\ Course /\ Numbered /\ Asked /\ [Next]_vars => Asked'
<1> SUFFICES ASSUME TypeInv, TypeInv', Course, Numbered, Asked, [Next]_vars
             PROVE  Asked'
  OBVIOUS
<1> USE DEF Workers
<1>1. ASSUME NEW w \in Conns, BeginLive(w) PROVE Asked'
  <2>1. Others(w) /\ pc'[w] = "list" /\ UNCHANGED <<questions, status, live>>
    BY <1>1
    DEF BeginLive, db, Request, Goto, Others, Elsewhere, TypeInv, LocalOK
  <2> QED BY <2>1, AskedIdle DEF RowExists, Asking, Recording
<1>2. ASSUME NEW w \in Conns, HandleAnswer(w) PROVE Asked'
  BY <1>2, AskedIdle
  DEF HandleAnswer, Message, db, Request, Goto, Others, Elsewhere, TypeInv,
     LocalOK, RowExists, Asking, Recording
<1>3. ASSUME NEW w \in Conns, SkipQuestion(w) PROVE Asked'
  BY <1>3, AskedIdle
  DEF SkipQuestion, Message, db, Request, Goto, Others, Elsewhere, TypeInv,
     LocalOK, RowExists, Asking, Recording
<1>4. ASSUME NEW w \in Conns, Disconnect(w) PROVE Asked'
  BY <1>4, AskedIdle
  DEF Disconnect, db, local, Others, Elsewhere, RowExists, Asking, Recording
<1>5. ASSUME NEW w \in Callers, Start(w) PROVE Asked'
  BY <1>5, AskedIdle
  DEF Start, db, Request, Goto, Others, Elsewhere, TypeInv, LocalOK,
     RowExists, Asking, Recording
<1>6. ASSUME NEW w \in Callers, ForceEnd(w) PROVE Asked'
  BY <1>6, AskedIdle
  DEF ForceEnd, db, Request, Goto, Others, Elsewhere, TypeInv, LocalOK,
     RowExists, Asking, Recording
<1>7. ASSUME NEW w \in Callers, Delete(w) PROVE Asked'
  <2>1. /\ ~RowExists' /\ UNCHANGED <<mine, kinds>>
        /\ \A v \in Workers : pc'[v] = "decide" => pc[v] = "decide"
    BY <1>7 DEF Delete, Request, Goto, RowExists, TypeInv, LocalOK
  <2> QED BY <2>1 DEF Asked, DecideNeverPanics
<1>8. ASSUME NEW w \in Callers, Retry(w) PROVE Asked'
  BY <1>8, AskedIdle
  DEF Retry, db, Request, Goto, Others, Elsewhere, TypeInv, LocalOK,
     RowExists, Asking, Recording
<1>9. ASSUME NEW w \in Workers, ListQuestions(w) PROVE Asked'
  <2>1. CASE Return(w)
    BY <1>9, <2>1, ReturnOthers, AskedIdle
    DEF ListQuestions, db, RowExists, Asking, Recording
  <2>2. CASE \E p \in {"cas", "reconnect"} : Goto(w, p) /\ UNCHANGED local
    BY <1>9, <2>2, AskedIdle
    DEF ListQuestions, db, local, Goto, Others, Elsewhere, TypeInv,
       LocalOK, RowExists, Asking, Recording
  <2>3. CASE /\ Goto(w, "get")
             /\ kinds' = [kinds EXCEPT ![w] =
                             [i \in 1..Len(questions) |-> questions[i].kind]]
             /\ UNCHANGED <<op, mine, turn, seq, result>>
    <3>1. Others(w) /\ pc'[w] = "get" /\ UNCHANGED <<questions, status, live>>
      BY <1>9, <2>3
      DEF ListQuestions, db, Goto, Others, Elsewhere, TypeInv, LocalOK
    <3>2. Len(kinds'[w]) = Len(questions)
      <4>1. kinds'[w] = [i \in 1..Len(questions) |-> questions[i].kind]
        BY <2>3 DEF TypeInv, LocalOK
      <4>2. Len(questions) \in Nat BY DEF TypeInv, StoreOK
      <4> QED BY <4>1, <4>2
    <3>3. HandlerAsked(w)'
      BY <3>1, <3>2 DEF HandlerAsked, Asking, Recording
    <3> QED BY <3>1, <3>3, AskedKept DEF MoreAsked, RowExists
  <2> QED BY <1>9, <2>1, <2>2, <2>3 DEF ListQuestions
<1>10. ASSUME NEW w \in Workers, BeginSession(w) PROVE Asked'
  <2>1. /\ Others(w) /\ UNCHANGED <<questions, live, op>>
        /\ RowExists' => RowExists
    BY <1>10
    DEF BeginSession, CanBegin, local, Goto, Others, Elsewhere, TypeInv,
       LocalOK,
        RowExists
  <2>2. op[w] = "begin" /\ pc'[w] \in {"pick", "reread"}
    BY <1>10
    DEF BeginSession, Goto, TypeInv, LocalOK, Handlers, HandlerOK
  <2>3. HandlerAsked(w)' BY <2>1, <2>2 DEF HandlerAsked
  <2> QED BY <2>1, <2>2, <2>3, AskedKept DEF MoreAsked
<1>11. ASSUME NEW w \in Workers, Reread(w) PROVE Asked'
  <2>1. CASE Return(w)
    BY <1>11, <2>1, ReturnOthers, AskedIdle
    DEF Reread, db, RowExists, Asking, Recording
  <2>2. CASE Goto(w, "reconnect") /\ UNCHANGED local
    BY <1>11, <2>2, AskedIdle
    DEF Reread, db, local, Goto, Others, Elsewhere, TypeInv, LocalOK,
       RowExists, Asking, Recording
  <2> QED BY <1>11, <2>1, <2>2 DEF Reread
<1>12. ASSUME NEW w \in Workers, ReconnectLive(w) PROVE Asked'
  BY <1>12, ReturnOthers, AskedIdle
  DEF ReconnectLive, db, RowExists, Asking, Recording
<1>13. ASSUME NEW w \in Workers, GetState(w) PROVE Asked'
  <2>1. CASE Return(w)
    BY <1>13, <2>1, ReturnOthers, AskedIdle
    DEF GetState, db, RowExists, Asking, Recording
  <2>2. CASE live # NoLive /\ mine' = [mine EXCEPT ![w] = live]
    <3>1. /\ mine'[w] = live /\ live \in LiveState /\ pc[w] = "get"
          /\ UNCHANGED <<op, kinds, questions, status, live>>
          /\ op[w] \in {"answer", "skip"}
      BY <1>13, <2>2
      DEF GetState, db, Return, TypeInv, StoreOK, LocalOK, Handlers, HandlerOK
    <3>2. \/ Goto(w, "max") /\ turn' = [turn EXCEPT ![w] = AnswerTurn]
          \/ Goto(w, "pick") /\ UNCHANGED turn
          \/ Goto(w, "complete") /\ UNCHANGED turn
      BY <1>13, <2>2 DEF GetState
    <3>3. /\ Others(w)
          /\ pc'[w] \in {"max", "pick", "complete"}
          /\ pc'[w] = "max" => turn'[w].kind = "answer"
      BY <2>2, <3>1, <3>2
      DEF Goto, AnswerTurn, Others, Elsewhere, TypeInv, LocalOK
    <3>4. RowExists => /\ Through(questions, live.qi + 1)
                       /\ Len(kinds[w]) = Len(questions)
      BY <2>2, <3>1 DEF Asked, HandlerAsked
    <3>5. RowExists => live.qi < Len(kinds[w])
      BY <3>1, <3>4 DEF Through, LiveState, TypeInv, StoreOK
    <3>6. RowExists => HandlerAsked(w)'
      BY <3>1, <3>3, <3>4, <3>5 DEF HandlerAsked
    <3> QED BY <3>1, <3>3, <3>6, AskedKept DEF MoreAsked, RowExists
  <2> QED BY <1>13, <2>1, <2>2 DEF GetState
<1>14. ASSUME NEW w \in Workers, Decide(w) PROVE Asked'
  <2>1. CASE Return(w)
    BY <1>14, <2>1, ReturnOthers, AskedIdle
    DEF Decide, db, RowExists, Asking, Recording
  <2>2. ASSUME ~Return(w) PROVE Asked'
    <3>1. \/ \E t \in {FollowUpTurn, ClosingTurn} : AppendTurn(w, t)
          \/ Goto(w, "pick") /\ UNCHANGED local
      BY <1>14, <2>2 DEF Decide
    <3>2. /\ Others(w) /\ pc'[w] \in {"max", "pick"}
          /\ UNCHANGED <<op, mine, kinds>>
          /\ pc'[w] = "max" => turn'[w].kind \in {"follow_up", "closing"}
      BY <3>1
      DEF AppendTurn, FollowUpTurn, ClosingTurn, local, Goto, Others,
         Elsewhere,
          TypeInv, LocalOK
    <3>3. UNCHANGED <<questions, status, live>> /\ pc[w] = "decide"
      BY <1>14 DEF Decide, db
    <3>4. RowExists => HandlerAsked(w)'
      BY <3>2, <3>3 DEF Asked, HandlerAsked
    <3> QED BY <3>2, <3>3, <3>4, AskedKept DEF MoreAsked, RowExists
  <2> QED BY <2>1, <2>2
<1>15. ASSUME NEW w \in Workers, PickQuestion(w) PROVE Asked'
  <2>1. CASE Return(w)
    BY <1>15, <2>1, ReturnOthers, AskedIdle
    DEF PickQuestion, db, RowExists, Asking, Recording
  <2>2. ASSUME ~Return(w) PROVE Asked'
    <3>1. /\ NextSeq(w) \in 1..Len(questions)
          /\ turn' = [turn EXCEPT ![w] = QuestionTurn(NextSeq(w))]
          /\ Goto(w, "mark")
          /\ UNCHANGED <<op, mine, kinds, questions, status, live>>
          /\ pc[w] = "pick"
      BY <1>15, <2>2 DEF PickQuestion, db
    <3>2. Others(w) /\ pc'[w] = "mark" /\ turn'[w] = QuestionTurn(NextSeq(w))
      BY <3>1 DEF Goto, Others, Elsewhere, TypeInv, LocalOK
    <3>3. turn'[w].text <= Len(questions)
      BY <3>1, <3>2 DEF QuestionTurn
    <3>4. RowExists => HandlerAsked(w)'
      BY <3>1, <3>2, <3>3 DEF Asked, HandlerAsked, Asking
    <3> QED BY <3>1, <3>2, <3>4, AskedKept DEF MoreAsked, RowExists
  <2> QED BY <2>1, <2>2
<1>16. ASSUME NEW w \in Workers, MarkQuestionAsked(w) PROVE Asked'
  <2>1. /\ Others(w) /\ pc[w] = "mark" /\ pc'[w] = "max"
        /\ UNCHANGED <<op, mine, turn, kinds, status, live>>
        /\ questions' = [i \in 1..Len(questions) |->
                            IF i = turn[w].text
                            THEN [questions[i] EXCEPT !.asked = TRUE]
                            ELSE questions[i]]
    BY <1>16
    DEF MarkQuestionAsked, MarkedSeq, local, Goto, Others, Elsewhere, TypeInv,
        LocalOK
  <2>2. /\ Len(questions) \in Nat
        /\ \A i \in 1..Len(questions) : questions[i] \in Question
        /\ turn[w].text \in Nat /\ turn[w].kind = "question"
    BY <2>1 DEF TypeInv, StoreOK, LocalOK, Turn, Handlers, HandlerOK
  <2>3. /\ Len(questions') = Len(questions)
        /\ \A i \in 1..Len(questions) :
              /\ questions[i].asked => questions'[i].asked
              /\ i = turn[w].text => questions'[i].asked
    BY <2>1, <2>2 DEF Question
  <2>4. MoreAsked BY <2>3 DEF MoreAsked
  <2>5. ASSUME RowExists PROVE HandlerAsked(w)'
    <3>1. HandlerAsked(w) BY <2>5 DEF Asked
    <3>2. turn[w].text <= Len(questions) BY <2>1, <3>1 DEF HandlerAsked
    <3>3. turn[w].text = NextSeq(w)
      BY <2>1, <2>2 DEF Numbered, Recording
    <3>4. CASE op[w] = "begin"
      <4>1. turn[w].text = 1 BY <3>3, <3>4 DEF NextSeq
      <4>2. Through(questions', turn[w].text)
        BY <2>2, <2>3, <3>2, <4>1 DEF Through
      <4> QED BY <2>1, <2>2, <3>4, <4>2 DEF HandlerAsked
    <3>5. CASE op[w] # "begin"
      <4>1. mine[w] \in LiveState /\ Through(questions, mine[w].qi + 1)
        BY <2>1, <3>1, <3>5
        DEF HandlerAsked, Asking, Recording, TypeInv, Handlers, HandlerOK
      <4>2. mine[w].qi \in Nat /\ turn[w].text = mine[w].qi + 2
        BY <3>3, <3>5, <4>1 DEF NextSeq, LiveState
      <4>3. Through(questions', mine[w].qi + 1)
        BY <2>4, <4>1, <4>2, ThroughKept
      <4>4. Through(questions', turn[w].text)
        BY <2>2, <2>3, <3>2, <4>2, <4>3 DEF Through
      <4> QED BY <2>1, <2>2, <4>3, <4>4 DEF HandlerAsked
    <3> QED BY <3>4, <3>5
  <2> QED BY <2>1, <2>4, <2>5, AskedKept DEF RowExists
<1>17. ASSUME NEW w \in Workers, ReadMaxSeq(w) PROVE Asked'
  <2>1. /\ Others(w) /\ pc[w] = "max" /\ pc'[w] = "insert"
        /\ UNCHANGED <<op, mine, turn, kinds, questions, status, live>>
    BY <1>17 DEF ReadMaxSeq, db, Goto, Others, Elsewhere, TypeInv, LocalOK
  <2>2. RowExists => HandlerAsked(w)'
    BY <2>1 DEF Asked, HandlerAsked, Asking, Recording
  <2> QED BY <2>1, <2>2, AskedKept DEF MoreAsked, RowExists
<1>18. ASSUME NEW w \in Workers, InsertTurn(w) PROVE Asked'
  <2>1. CASE Return(w)
    BY <1>18, <2>1, ReturnOthers, AskedIdle
    DEF InsertTurn, RowExists, Asking, Recording
  <2>2. CASE RowExists /\ seq[w] > Len(turns)
    <3>1. /\ Others(w) /\ pc[w] = "insert"
          /\ pc'[w] = AfterInsert(turn[w].kind)
          /\ mine'[w] = IF turn[w].kind = "answer" THEN CountTurn(mine[w])
                        ELSE mine[w]
          /\ UNCHANGED <<op, turn, kinds, questions, status, live>>
      BY <1>18, <2>2 DEF InsertTurn, Goto, Others, Elsewhere, TypeInv, LocalOK
    <3>2. HandlerAsked(w) BY <2>2 DEF Asked
    <3>3. turn[w].kind \in {"question", "follow_up", "answer", "closing"}
      BY DEF TypeInv, LocalOK, Turn
    <3>4. CASE turn[w].kind = "answer"
      <4>1. /\ op[w] = "answer" /\ mine[w] \in LiveState
            /\ CountTurn(mine[w]).qi = mine[w].qi
        BY <3>1, <3>4, CountedType DEF CountTurn, LiveState
      <4>2. pc'[w] = "decide" /\ mine'[w].qi = mine[w].qi
        BY <3>1, <3>4, <4>1 DEF AfterInsert
      <4>3. /\ Through(questions, mine[w].qi + 1)
            /\ mine[w].qi < Len(kinds[w])
        BY <3>1, <3>2, <3>4, <4>1 DEF HandlerAsked, Asking, Recording
      <4>4. HandlerAsked(w)'
        BY <3>1, <4>2, <4>3 DEF HandlerAsked
      <4> QED
        BY <3>1, <4>2, <4>3, <4>4, AskedKept DEF MoreAsked, RowExists
    <3>5. CASE turn[w].kind # "answer"
      <4>1. /\ pc'[w] \in {"complete", "save"} /\ mine'[w] = mine[w]
            /\ pc'[w] = "complete" <=> turn[w].kind = "closing"
        BY <3>1, <3>3, <3>5 DEF AfterInsert
      <4>2. HandlerAsked(w)'
        BY <3>1, <3>2, <4>1 DEF HandlerAsked, Asking, Recording
      <4> QED BY <3>1, <4>1, <4>2, AskedKept DEF MoreAsked, RowExists
    <3> QED BY <3>4, <3>5
  <2> QED BY <1>18, <2>1, <2>2 DEF InsertTurn
<1>19. ASSUME NEW w \in Workers, SaveState(w) PROVE Asked'
  <2>1. /\ Others(w) /\ pc[w] = "save" /\ pc'[w] = "idle"
        /\ live' = Pending(w) /\ UNCHANGED <<questions, status>>
    BY <1>19, ReturnOthers DEF SaveState, db
  <2>2. ASSUME RowExists PROVE Through(questions, Pending(w).qi + 1)
    <3>1. HandlerAsked(w) BY <2>2 DEF Asked
    <3>2. turn[w].kind \in {"question", "follow_up"}
      BY <2>1 DEF TypeInv, Handlers, HandlerOK
    <3>3. CASE op[w] = "begin"
      <4>1. turn[w] = QuestionTurn(1)
        BY <2>1, <3>3 DEF TypeInv, Handlers, HandlerOK, Recording
      <4>2. Pending(w).qi + 1 = 1 BY <2>1, <3>3, PendingIndex
      <4> QED BY <2>1, <3>1, <4>1, <4>2 DEF HandlerAsked, QuestionTurn
    <3>4. CASE op[w] # "begin" /\ turn[w].kind = "follow_up"
      BY <2>1, <3>1, <3>4, PendingIndex DEF HandlerAsked, Asking, Recording
    <3>5. CASE op[w] # "begin" /\ turn[w].kind = "question"
      <4>1. mine[w] \in LiveState /\ Pending(w).qi = mine[w].qi + 1
        BY <2>1, <3>5, PendingIndex
      <4>2. turn[w].text = mine[w].qi + 2
        BY <2>1, <3>5 DEF Numbered, NextSeq, Recording
      <4>3. turn[w].text = Pending(w).qi + 1
        BY <4>1, <4>2 DEF LiveState
      <4> QED BY <2>1, <3>1, <3>5, <4>3 DEF HandlerAsked
    <3> QED BY <3>2, <3>3, <3>4, <3>5
  <2>3. ASSUME NEW v \in Workers, RowExists PROVE HandlerAsked(v)'
    <3>1. CASE v = w BY <2>1, <3>1 DEF HandlerAsked, Asking, Recording
    <3>2. CASE v # w
      BY <2>1, <2>3, <3>2 DEF Asked, HandlerAsked, Others, Elsewhere
    <3> QED BY <3>1, <3>2
  <2>4. DecideNeverPanics'
    BY <2>1 DEF Asked, DecideNeverPanics, Others, Elsewhere
  <2> QED BY <2>1, <2>2, <2>3, <2>4 DEF Asked, RowExists
<1>20. ASSUME NEW w \in Workers, CompleteSession(w) PROVE Asked'
  BY <1>20, AskedIdle
  DEF CompleteSession, local, Goto, Others, Elsewhere, TypeInv, LocalOK,
     RowExists, Asking, Recording
<1>21. ASSUME NEW w \in Workers, ClearState(w) PROVE Asked'
  <2>1. CASE Return(w)
    BY <1>21, <2>1, ReturnOthers, AskedIdle
    DEF ClearState, db, RowExists, Asking, Recording
  <2>2. CASE Goto(w, "hasfb") /\ UNCHANGED local
    BY <1>21, <2>2, AskedIdle
    DEF ClearState, db, local, Goto, Others, Elsewhere, TypeInv, LocalOK,
       RowExists, Asking, Recording
  <2> QED BY <1>21, <2>1, <2>2 DEF ClearState
<1>22. ASSUME NEW w \in Workers, HasFeedback(w) PROVE Asked'
  BY ZenonT(40), <1>22, AskedIdle
  DEF HasFeedback, db, local, Goto, Others, Elsewhere, TypeInv, LocalOK,
     RowExists, Asking, Recording
<1>23. ASSUME NEW w \in Workers, Evaluate(w) PROVE Asked'
  BY <1>23, AskedIdle
  DEF Evaluate, db, Goto, Others, Elsewhere, TypeInv, LocalOK, RowExists,
     Asking, Recording
<1>24. ASSUME NEW w \in Workers, SaveEvaluation(w) PROVE Asked'
  <2>1. CASE Return(w)
    BY <1>24, <2>1, ReturnOthers, AskedIdle
    DEF SaveEvaluation, RowExists, RowExists, Asking, Recording
  <2>2. CASE Goto(w, "notify") /\ UNCHANGED local
    BY <1>24, <2>2, AskedIdle
    DEF SaveEvaluation, RowExists, local, Goto, Others, Elsewhere,
       TypeInv, LocalOK, RowExists, Asking, Recording
  <2> QED BY <1>24, <2>1, <2>2 DEF SaveEvaluation
<1>25. ASSUME NEW w \in Workers, Broadcast(w) PROVE Asked'
  BY <1>25, ReturnOthers, AskedIdle
  DEF Broadcast, db, RowExists, Asking, Recording
<1>26. ASSUME NEW w \in Workers, StartSession(w) PROVE Asked'
  <2>1. CASE UNCHANGED <<status, questions>>
    BY <1>26, <2>1, ReturnOthers, AskedIdle
    DEF StartSession, RowExists, Asking, Recording
  <2>2. CASE RowExists
    <3>1. status = "draft"
      BY <1>26, <2>2 DEF StartSession, RowExists, Course, InPlace
    <3>2. live = NoLive /\ \A v \in Workers : pc[v] \in Early
      BY <3>1 DEF Course, NotBegun
    <3>3. Others(w) /\ pc'[w] = "idle" /\ UNCHANGED live
      BY <1>26, ReturnOthers DEF StartSession
    <3>4. \A v \in Workers : pc'[v] \in Early
      BY <3>2, <3>3 DEF Others, Elsewhere, Early
    <3> QED
      BY <3>2, <3>3, <3>4
      DEF Asked, DecideNeverPanics, HandlerAsked, Asking, Recording, Early
  <2> QED BY <1>26, <2>1, <2>2 DEF StartSession
<1>27. ASSUME NEW w \in Workers, Fail(w) PROVE Asked'
  BY <1>27, ReturnOthers, AskedIdle
  DEF Fail, db, RowExists, Asking, Recording
<1>28. CASE TimePasses
  BY <1>28 DEF TimePasses, db, local, Asked, DecideNeverPanics, HandlerAsked,
     RowExists
<1>29. CASE ExpireState
  BY <1>29 DEF ExpireState, db, local, Asked, DecideNeverPanics, HandlerAsked,
     RowExists
<1>30. CASE UNCHANGED vars
  BY <1>30 DEF vars, db, local, Asked, DecideNeverPanics, HandlerAsked,
     RowExists
<1> QED
  BY <1>1, <1>2, <1>3, <1>4, <1>5, <1>6, <1>7, <1>8, <1>9, <1>10, <1>11,
     <1>12,
     <1>13, <1>14, <1>15, <1>16, <1>17, <1>18, <1>19, <1>20, <1>21, <1>22,
     <1>23, <1>24, <1>25, <1>26, <1>27, <1>28, <1>29, <1>30
  DEF Next, Step

(* With at most one Start the current question exists, and it and all     *)
(* questions before it are flagged as asked ...                           *)
THEOREM AskedCorrect ==
    ASSUME OneStarter
    PROVE  Spec => []AskedUpToCurrent
<1>1. TypeInv /\ Asked => AskedUpToCurrent
  BY DEF Asked, AskedUpToCurrent, Through, TypeInv, StoreOK, LiveState
<1> QED
  BY <1>1, InitType, NextType, InitCourse, NextCourse, InitNumbered,
     NextNumbered,
     InitAsked, NextAsked, PTL
  DEF Spec

(* ... and the index decideNext takes from the live state it read is      *)
(* within the questions it had loaded before.                             *)
THEOREM DecideSafe ==
    ASSUME OneStarter
    PROVE  Spec => []DecideNeverPanics
<1>1. Asked => DecideNeverPanics
  BY DEF Asked
<1> QED
  BY <1>1, InitType, NextType, InitCourse, NextCourse, InitNumbered,
     NextNumbered,
     InitAsked, NextAsked, PTL
  DEF Spec
=============================================================================
