----------------------- MODULE InterviewSessionProofs -----------------------
(***************************************************************************)
(* Theorems about InterviewSession for any number of connections, callers, *)
(* starts, crashes and questions: the types, and the agreement of the live *)
(* state in Redis with the transcript in MySQL.                            *)
(***************************************************************************)
EXTENDS InterviewSession, TLAPS

------------------------------------------------------------------------------
(* Types.  TypeOK is not inductive: a handler computes the live state it  *)
(* saves from its copy of the live state, which is there because GetState *)
(* loaded it.  Handlers says where a handler may be for the request it    *)
(* serves, and what it has loaded by then.                                *)

Recording == {"mark", "max", "insert", "save"}
Asking    == Recording \union {"pick"}
InRoom    == Asking \union {"list", "cas", "reread", "reconnect", "get",
                            "decide"}
RoomOps   == {"begin", "rejoin", "answer", "skip"}

HandlerOK(w) ==
    /\ op[w] \in RoomOps => w \in Conns
    /\ pc[w] \in InRoom => op[w] \in RoomOps
    /\ pc[w] = "cas" => op[w] = "begin"
    /\ pc[w] = "get" => op[w] \in {"answer", "skip"}
    /\ pc[w] = "decide" => op[w] = "answer"
    /\ pc[w] \in Asking => op[w] \in {"begin", "answer", "skip"}
    /\ pc[w] \in Asking \union {"decide"} /\ op[w] # "begin" =>
          mine[w] \in LiveState
    /\ pc[w] \in Recording /\ op[w] = "begin" => turn[w] = QuestionTurn(1)
    /\ pc[w] \in Recording /\ op[w] = "skip" => turn[w].kind = "question"
    /\ pc[w] = "mark" => turn[w].kind = "question"
    /\ pc[w] = "save" => turn[w].kind \in {"question", "follow_up"}

Handlers == \A w \in Workers : HandlerOK(w)

StoreOK ==
    /\ status \in Status
    /\ questions \in Seq(Question)
    /\ turns \in Seq(Turn)
    /\ feedback \in Feedback /\ failed \in BOOLEAN
    /\ live \in LiveState \union {NoLive}
    /\ late \in BOOLEAN
    /\ joined \subseteq Conns /\ told \subseteq Conns

LocalOK ==
    /\ pc \in [Workers -> Phases]
    /\ op \in [Workers -> Ops]
    /\ mine \in [Workers -> LiveState \union {NoLive}]
    /\ kinds \in [Workers -> Seq(QuestionKinds)]
    /\ turn \in [Workers -> Turn]
    /\ seq \in [Workers -> Nat]
    /\ result \in [Workers -> Feedback]

TypeInv == StoreOK /\ LocalOK /\ Handlers

LEMMA FunIsSeq == ASSUME NEW S, NEW n \in Nat, NEW f \in [1..n -> S]
                  PROVE  f \in Seq(S) /\ Len(f) = n
  BY SMT

(* Arrange makes n + 1 questions. *)
LEMMA ArrangeType == ASSUME NEW n \in Nat, NEW k \in QuestionKinds
                     PROVE  /\ Arrange(n, k) \in Seq(Question)
                            /\ Len(Arrange(n, k)) = n + 1
<1> DEFINE f == [i \in 1..n+1 |-> [kind  |-> IF i = 1 THEN "self_intro" ELSE k,
                                   asked |-> FALSE]]
<1>1. f \in [1..n+1 -> Question] BY DEF Question, QuestionKinds
<1>2. n + 1 \in Nat BY SMT
<1>3. f \in Seq(Question) /\ Len(f) = n + 1 BY <1>1, <1>2, FunIsSeq
<1> QED BY <1>3 DEF Arrange

LEMMA TurnsTyped ==
    /\ AnswerTurn \in Turn /\ FollowUpTurn \in Turn /\ ClosingTurn \in Turn
    /\ \A s \in Nat : QuestionTurn(s) \in Turn
  BY DEF AnswerTurn, FollowUpTurn, ClosingTurn, QuestionTurn, Turn

LEMMA InitType == Init => TypeInv
<1> SUFFICES ASSUME Init PROVE TypeInv OBVIOUS
<1>1. questions \in Seq(Question)
  <2>1. CASE questions = <<>> BY <2>1
  <2>2. CASE \E n \in QuestionCounts : questions = Arrange(n, "bank")
    <3>1. PICK n \in QuestionCounts : questions = Arrange(n, "bank") BY <2>2
    <3>2. n \in Nat /\ "bank" \in QuestionKinds
      BY SessionAssumption DEF SessionAssumption, QuestionKinds
    <3> QED BY <3>1, <3>2, ArrangeType
  <2> QED BY <2>1, <2>2 DEF Init
<1>2. StoreOK
  <2>1. turns \in Seq(Turn) /\ status \in Status BY DEF Init, Status
  <2> QED BY <1>1, <2>1 DEF Init, StoreOK, Feedback, NoFeedback
<1>3. LocalOK
  BY TurnsTyped DEF Init, LocalOK, Phases, Ops, Feedback, NoFeedback
<1>4. Handlers
  BY DEF Init, Handlers, HandlerOK, Recording, Asking, InRoom, RoomOps
<1> QED BY <1>2, <1>3, <1>4 DEF TypeInv

(* The two ways a step ends: the handler goes on, or it returns. *)
LEMMA GotoType == ASSUME LocalOK, NEW w \in Workers, NEW p \in Phases, Goto(w, p)
                  PROVE  pc' \in [Workers -> Phases]
  BY DEF LocalOK, Goto

LEMMA ReturnType == ASSUME TypeInv, NEW w \in Workers, Return(w)
                    PROVE  LocalOK' /\ Handlers'
<1>1. LocalOK'
  BY TurnsTyped
  DEF TypeInv, LocalOK, Return, Goto, Phases, Ops, Feedback, NoFeedback
<1>2. Handlers'
  BY DEF TypeInv, LocalOK, Handlers, HandlerOK, Return, Goto,
         Recording, Asking, InRoom, RoomOps
<1> QED BY <1>1, <1>2

(* The handlers of a room belong to connections. *)
LEMMA RoomWorker == ASSUME TypeInv, NEW w \in Workers, pc[w] \in InRoom
                    PROVE  w \in Conns
  BY DEF TypeInv, Handlers, HandlerOK

(* What is pending after the Save is the turn just inserted, and at most  *)
(* one more turn is counted than before.                                  *)
LEMMA PendingFields ==
    ASSUME TypeInv, NEW w \in Workers, pc[w] \in {"insert", "save"},
           turn[w].kind \in {"question", "follow_up"}
    PROVE  /\ Pending(w) \in LiveState
           /\ [kind |-> Pending(w).kind, text |-> Pending(w).text] = turn[w]
           /\ op[w] = "begin" => Pending(w).tc = 1
           /\ op[w] # "begin" => Pending(w).tc = mine[w].tc + 1
<1>1. turn[w] \in Turn BY DEF TypeInv, LocalOK
<1>2. turn[w].text \in Nat BY <1>1 DEF Turn
<1>3. CASE op[w] = "begin"
  <2>1. turn[w] = QuestionTurn(1)
    BY <1>3 DEF TypeInv, Handlers, HandlerOK, Recording
  <2> QED BY <1>2, <1>3, <2>1 DEF Pending, Opening, LiveState, QuestionTurn
<1>4. CASE op[w] # "begin"
  <2>1. mine[w] \in LiveState
    BY <1>4 DEF TypeInv, Handlers, HandlerOK, Asking, Recording
  <2> DEFINE s == IF turn[w].kind = "follow_up"
                  THEN FollowedUp(mine[w]) ELSE MovedOn(mine[w])
  <2>2. /\ FollowedUp(mine[w]) \in LiveState
        /\ FollowedUp(mine[w]).tc = mine[w].tc
    BY <2>1 DEF FollowedUp, LiveState
  <2>3. MovedOn(mine[w]) \in LiveState /\ MovedOn(mine[w]).tc = mine[w].tc
    <3>1. /\ [mine[w] EXCEPT !.qi = @ + 1] \in LiveState
          /\ [mine[w] EXCEPT !.qi = @ + 1].tc = mine[w].tc
      BY <2>1 DEF LiveState
    <3>2. \A r \in LiveState : /\ [r EXCEPT !.fu = 0] \in LiveState
                               /\ [r EXCEPT !.fu = 0].tc = r.tc
      BY DEF LiveState
    <3> QED BY <3>1, <3>2 DEF MovedOn
  <2>4. s \in LiveState /\ s.tc = mine[w].tc BY <2>2, <2>3
  <2> HIDE DEF s
  <2>5. CountTurn(s) \in LiveState /\ CountTurn(s).tc = mine[w].tc + 1
    BY <2>4 DEF CountTurn, LiveState
  <2> DEFINE p == [CountTurn(s) EXCEPT !.kind = turn[w].kind, !.text = turn[w].text]
  <2>6. /\ p \in LiveState /\ p.tc = mine[w].tc + 1
        /\ p.kind = turn[w].kind /\ p.text = turn[w].text
    BY <1>2, <2>5 DEF LiveState
  <2>7. Pending(w) = p BY <1>4 DEF Pending, Shown, s
  <2> HIDE DEF p
  <2>8. [kind |-> p.kind, text |-> p.text] = turn[w] BY <1>1, <2>6 DEF Turn
  <2> QED BY <1>4, <2>6, <2>7, <2>8
<1> QED BY <1>3, <1>4

(* What a handler saves is a live state. *)
LEMMA PendingType == ASSUME TypeInv, NEW w \in Workers, pc[w] = "save"
                     PROVE  Pending(w) \in LiveState
<1>1. turn[w].kind \in {"question", "follow_up"}
  BY DEF TypeInv, Handlers, HandlerOK
<1> QED BY <1>1, PendingFields

(* The answer whose insertion is counted belongs to a loaded state. *)
LEMMA CountedType == ASSUME TypeInv, NEW w \in Workers, pc[w] = "insert",
                            turn[w].kind = "answer"
                     PROVE  /\ op[w] = "answer"
                            /\ mine[w] \in LiveState
                            /\ CountTurn(mine[w]) \in LiveState
<1>1. op[w] = "answer"
  BY DEF TypeInv, Handlers, HandlerOK, Asking, Recording, QuestionTurn
<1>2. mine[w] \in LiveState
  BY <1>1 DEF TypeInv, Handlers, HandlerOK, Asking, Recording
<1> QED BY <1>1, <1>2 DEF CountTurn, LiveState

LEMMA NextType == TypeInv /\ [Next]_vars => TypeInv'
<1> SUFFICES ASSUME TypeInv, [Next]_vars PROVE TypeInv' OBVIOUS
<1> USE SessionAssumption DEF SessionAssumption, Workers, TypeInv
<1>1. ASSUME NEW w \in Conns, BeginLive(w) PROVE TypeInv'
  <2>1. StoreOK' BY <1>1 DEF BeginLive, StoreOK, db
  <2>2. LocalOK'
    BY <1>1 DEF BeginLive, LocalOK, Request, Goto, Phases, Ops, HttpOps
  <2>3. Handlers'
    <3>1. pc' = [pc EXCEPT ![w] = "list"] /\ UNCHANGED <<mine, turn>>
      BY <1>1 DEF BeginLive, Request, Goto
    <3>2. \E o \in {"begin", "rejoin"} : op' = [op EXCEPT ![w] = o]
      BY <1>1 DEF BeginLive, Request
    <3> QED BY <3>1, <3>2 DEF TypeInv, LocalOK, Handlers, HandlerOK,
               Recording, Asking, InRoom, RoomOps
  <2> QED BY <2>1, <2>2, <2>3 DEF TypeInv
<1>2. ASSUME NEW w \in Conns, HandleAnswer(w) PROVE TypeInv'
  <2>1. StoreOK' BY <1>2 DEF HandleAnswer, Message, StoreOK, db, room
  <2>2. LocalOK'
    BY <1>2
    DEF HandleAnswer, Message, LocalOK, Request, Goto, Phases, Ops,
       HttpOps
  <2>3. Handlers'
    BY <1>2
    DEF HandleAnswer, Message, LocalOK, Handlers, HandlerOK, Request,
       Goto, Recording, Asking, InRoom, RoomOps
  <2> QED BY <2>1, <2>2, <2>3 DEF TypeInv
<1>3. ASSUME NEW w \in Conns, SkipQuestion(w) PROVE TypeInv'
  <2>1. StoreOK' BY <1>3 DEF SkipQuestion, Message, StoreOK, db, room
  <2>2. LocalOK'
    BY <1>3
    DEF SkipQuestion, Message, LocalOK, Request, Goto, Phases, Ops,
       HttpOps
  <2>3. Handlers'
    BY <1>3
    DEF SkipQuestion, Message, LocalOK, Handlers, HandlerOK, Request,
       Goto, Recording, Asking, InRoom, RoomOps
  <2> QED BY <2>1, <2>2, <2>3 DEF TypeInv
<1>4. ASSUME NEW w \in Conns, Disconnect(w) PROVE TypeInv'
  <2>1. StoreOK' BY <1>4 DEF Disconnect, StoreOK, db
  <2>2. LocalOK' BY <1>4 DEF Disconnect, LocalOK, local
  <2>3. Handlers'
    BY <1>4
    DEF Disconnect, LocalOK, Handlers, HandlerOK, local, Recording,
       Asking, InRoom, RoomOps
  <2> QED BY <2>1, <2>2, <2>3 DEF TypeInv
<1>5. ASSUME NEW w \in Callers, Start(w) PROVE TypeInv'
  <2>1. StoreOK' BY <1>5 DEF Start, StoreOK, db, room
  <2>2. LocalOK'
    BY <1>5 DEF Start, LocalOK, Request, Goto, Phases, Ops, HttpOps
  <2>3. Handlers'
    BY <1>5
    DEF Start, LocalOK, Handlers, HandlerOK, Request, Goto, Recording,
       Asking, InRoom, RoomOps
  <2> QED BY <2>1, <2>2, <2>3 DEF TypeInv
<1>6. ASSUME NEW w \in Callers, ForceEnd(w) PROVE TypeInv'
  <2>1. StoreOK' BY <1>6 DEF ForceEnd, StoreOK, db, room
  <2>2. LocalOK'
    BY <1>6 DEF ForceEnd, LocalOK, Request, Goto, Phases, Ops, HttpOps
  <2>3. Handlers'
    BY <1>6
    DEF ForceEnd, LocalOK, Handlers, HandlerOK, Request, Goto, Recording,
       Asking, InRoom, RoomOps
  <2> QED BY <2>1, <2>2, <2>3 DEF TypeInv
<1>7. ASSUME NEW w \in Callers, Delete(w) PROVE TypeInv'
  <2>1. StoreOK'
    <3>1. status' \in Status /\ questions' \in Seq(Question) /\ turns' \in Seq(Turn)
      BY <1>7 DEF Delete, Status
    <3>2. feedback' \in Feedback /\ failed' \in BOOLEAN
      BY <1>7 DEF Delete, Feedback, NoFeedback
    <3> QED BY <1>7, <3>1, <3>2 DEF Delete, TypeInv, StoreOK, room
  <2>2. LocalOK'
    BY <1>7 DEF Delete, LocalOK, Request, Goto, Phases, Ops, HttpOps
  <2>3. Handlers'
    BY <1>7
    DEF Delete, LocalOK, Handlers, HandlerOK, Request, Goto, Recording,
       Asking, InRoom, RoomOps
  <2> QED BY <2>1, <2>2, <2>3 DEF TypeInv
<1>8. ASSUME NEW w \in Callers, Retry(w) PROVE TypeInv'
  <2>1. StoreOK' BY <1>8 DEF Retry, StoreOK, db, room
  <2>2. LocalOK'
    BY <1>8 DEF Retry, LocalOK, Request, Goto, Phases, Ops, HttpOps
  <2>3. Handlers'
    BY <1>8
    DEF Retry, LocalOK, Handlers, HandlerOK, Request, Goto, Recording,
       Asking, InRoom, RoomOps
  <2> QED BY <2>1, <2>2, <2>3 DEF TypeInv
<1>9. ASSUME NEW w \in Workers, ListQuestions(w) PROVE TypeInv'
  <2>1. StoreOK' BY <1>9 DEF ListQuestions, StoreOK, db, room
  <2>2. LocalOK'
    <3>1. CASE op[w] \in {"begin", "rejoin"} /\ questions # <<>>
      <4>1. pc' \in [Workers -> Phases]
        BY <1>9, <3>1 DEF ListQuestions, TypeInv, LocalOK, Goto, Phases
      <4> QED BY <1>9, <3>1, <4>1 DEF ListQuestions, local, TypeInv, LocalOK
    <3>2. CASE Return(w) BY <3>2, ReturnType
    <3>3. CASE op[w] \notin {"begin", "rejoin"}
      <4> DEFINE k == [i \in 1..Len(questions) |-> questions[i].kind]
      <4>1. questions \in Seq(Question) BY DEF TypeInv, StoreOK
      <4>2. \A i \in 1..Len(questions) : questions[i] \in Question BY <4>1
      <4>5. k \in [1..Len(questions) -> QuestionKinds] BY <4>2 DEF Question
      <4>3. k \in Seq(QuestionKinds) BY <4>1, <4>5, FunIsSeq
      <4> HIDE DEF k
      <4>4. kinds' = [kinds EXCEPT ![w] = k]
        BY <1>9, <3>3 DEF ListQuestions, k
      <4> QED
        BY <1>9, <3>3, <4>3, <4>4
        DEF ListQuestions, TypeInv, LocalOK, Goto, Phases
    <3> QED BY <1>9, <3>1, <3>2, <3>3 DEF ListQuestions
  <2>3. Handlers'
    BY <1>9, ReturnType
    DEF ListQuestions, LocalOK, Handlers, HandlerOK, local, Goto, HttpOps,
       Recording, Asking, InRoom, RoomOps
  <2> QED BY <2>1, <2>2, <2>3 DEF TypeInv
<1>10. ASSUME NEW w \in Workers, BeginSession(w) PROVE TypeInv'
  <2>1. StoreOK' BY <1>10 DEF BeginSession, StoreOK, room, Status
  <2>2. LocalOK' BY <1>10 DEF BeginSession, LocalOK, local, Goto, Phases
  <2>3. Handlers'
    BY <1>10
    DEF BeginSession, LocalOK, Handlers, HandlerOK, local, Goto,
       Recording, Asking, InRoom, RoomOps
  <2> QED BY <2>1, <2>2, <2>3 DEF TypeInv
<1>11. ASSUME NEW w \in Workers, Reread(w) PROVE TypeInv'
  <2>1. StoreOK' BY <1>11 DEF Reread, StoreOK, db, room
  <2>2. LocalOK' BY <1>11, ReturnType DEF Reread, LocalOK, local, Goto, Phases
  <2>3. Handlers'
    BY <1>11, ReturnType
    DEF Reread, LocalOK, Handlers, HandlerOK, local, Goto, Recording,
       Asking, InRoom, RoomOps
  <2> QED BY <2>1, <2>2, <2>3 DEF TypeInv
<1>12. ASSUME NEW w \in Workers, ReconnectLive(w) PROVE TypeInv'
  <2>1. StoreOK'
    <3>1. w \in Conns BY <1>12, RoomWorker DEF ReconnectLive, InRoom
    <3> QED BY <1>12, <3>1 DEF ReconnectLive, TypeInv, StoreOK, db
  <2>2. LocalOK' BY <1>12, ReturnType DEF ReconnectLive, LocalOK
  <2>3. Handlers'
    BY <1>12, ReturnType
    DEF ReconnectLive, LocalOK, Handlers, HandlerOK, Recording, Asking,
       InRoom, RoomOps
  <2> QED BY <2>1, <2>2, <2>3 DEF TypeInv
<1>13. ASSUME NEW w \in Workers, GetState(w) PROVE TypeInv'
  <2>1. StoreOK' BY <1>13 DEF GetState, StoreOK, db, room
  <2>2. LocalOK'
    <3>1. CASE Return(w) BY <3>1, ReturnType
    <3>2. CASE live # NoLive
      <4>1. live \in LiveState BY <3>2 DEF TypeInv, StoreOK
      <4>2. mine' \in [Workers -> LiveState \union {NoLive}]
        BY <1>13, <3>2, <4>1 DEF GetState, TypeInv, LocalOK, Return
      <4>3. \E p \in {"max", "pick", "complete"} : Goto(w, p)
        BY <1>13, <3>2 DEF GetState
      <4>4. pc' \in [Workers -> Phases]
        BY <4>3 DEF TypeInv, LocalOK, Goto, Phases
      <4>5. turn' \in [Workers -> Turn]
        BY <1>13, <3>2, TurnsTyped DEF GetState, TypeInv, LocalOK
      <4> QED BY <1>13, <3>2, <4>2, <4>4, <4>5 DEF GetState, TypeInv, LocalOK
    <3> QED BY <1>13, <3>1, <3>2 DEF GetState
  <2>3. Handlers'
    <3>1. CASE Return(w) BY <3>1, ReturnType
    <3>2. CASE live # NoLive
      <4>1. live \in LiveState BY <3>2 DEF TypeInv, StoreOK
      <4>2. /\ mine' = [mine EXCEPT ![w] = live]
            /\ op[w] \in {"answer", "skip"} /\ UNCHANGED op
        BY <1>13, <3>2 DEF GetState, TypeInv, Handlers, HandlerOK
      <4>3. \E p \in {"max", "pick", "complete"} :
                /\ pc' = [pc EXCEPT ![w] = p]
                /\ p = "max" => op[w] = "answer"
        BY <1>13, <3>2 DEF GetState, Goto
      <4>4. \A v \in Workers : v # w => turn'[v] = turn[v]
        BY <1>13, <3>2 DEF GetState, TypeInv, LocalOK
      <4> QED BY <4>1, <4>2, <4>3, <4>4
          DEF TypeInv, LocalOK, Handlers, HandlerOK, Recording,
             Asking, InRoom, RoomOps
    <3> QED BY <1>13, <3>1, <3>2 DEF GetState
  <2> QED BY <2>1, <2>2, <2>3 DEF TypeInv
<1>14. ASSUME NEW w \in Workers, Decide(w) PROVE TypeInv'
  <2>1. StoreOK' BY <1>14 DEF Decide, StoreOK, db, room
  <2>2. LocalOK'
    BY ZenonT(40), <1>14, ReturnType, TurnsTyped
    DEF Decide, LocalOK, local, AppendTurn, Goto, Phases
  <2>3. Handlers'
    BY <1>14, ReturnType
    DEF Decide, LocalOK, Handlers, HandlerOK, local, AppendTurn, Goto,
       Recording, Asking, InRoom, RoomOps
  <2> QED BY <2>1, <2>2, <2>3 DEF TypeInv
<1>15. ASSUME NEW w \in Workers, PickQuestion(w) PROVE TypeInv'
  <2>1. StoreOK' BY <1>15 DEF PickQuestion, StoreOK, db, room
  <2>2. LocalOK'
    <3>1. CASE Return(w) BY <3>1, ReturnType
    <3>2. CASE NextSeq(w) \in 1..Len(questions)
      <4>1. QuestionTurn(NextSeq(w)) \in Turn BY <3>2 DEF QuestionTurn, Turn
      <4> QED
        BY ZenonT(40), <1>15, <3>2, <4>1 DEF PickQuestion, TypeInv, LocalOK, Goto,
           Phases
    <3> QED BY <1>15, <3>1, <3>2 DEF PickQuestion
  <2>3. Handlers'
    <3>1. CASE Return(w) BY <3>1, ReturnType
    <3>2. CASE NextSeq(w) \in 1..Len(questions)
      <4>1. /\ pc' = [pc EXCEPT ![w] = "mark"]
            /\ turn' = [turn EXCEPT ![w] = QuestionTurn(NextSeq(w))]
            /\ pc[w] = "pick" /\ UNCHANGED <<op, mine>>
        BY <1>15, <3>2 DEF PickQuestion, Goto
      <4>2. op[w] = "begin" => QuestionTurn(NextSeq(w)) = QuestionTurn(1)
        BY DEF NextSeq
      <4>3. QuestionTurn(NextSeq(w)).kind = "question" BY DEF QuestionTurn
      <4> QED BY <4>1, <4>2, <4>3
          DEF TypeInv, LocalOK, Handlers, HandlerOK, Recording,
             Asking, InRoom, RoomOps
    <3> QED BY <1>15, <3>1, <3>2 DEF PickQuestion
  <2> QED BY <2>1, <2>2, <2>3 DEF TypeInv
<1>16. ASSUME NEW w \in Workers, MarkQuestionAsked(w) PROVE TypeInv'
  <2>1. StoreOK'
    <3> DEFINE Marked == [i \in 1..Len(questions) |->
                             IF i = MarkedSeq(w)
                             THEN [questions[i] EXCEPT !.asked = TRUE]
                             ELSE questions[i]]
    <3>1. questions \in Seq(Question) BY DEF TypeInv, StoreOK
    <3>2. \A i \in 1..Len(questions) : questions[i] \in Question BY <3>1
    <3>5. \A q \in Question : [q EXCEPT !.asked = TRUE] \in Question
      BY DEF Question
    <3>6. Marked \in [1..Len(questions) -> Question] BY <3>2, <3>5
    <3>3. Marked \in Seq(Question) BY <3>1, <3>6, FunIsSeq
    <3> HIDE DEF Marked
    <3>4. questions' = Marked BY <1>16 DEF MarkQuestionAsked, Marked
    <3> QED BY <1>16, <3>3, <3>4 DEF MarkQuestionAsked, TypeInv, StoreOK, room
  <2>2. LocalOK' BY <1>16 DEF MarkQuestionAsked, LocalOK, local, Goto, Phases
  <2>3. Handlers'
    BY <1>16
    DEF MarkQuestionAsked, LocalOK, Handlers, HandlerOK, local, Goto,
       Recording, Asking, InRoom, RoomOps
  <2> QED BY <2>1, <2>2, <2>3 DEF TypeInv
<1>17. ASSUME NEW w \in Workers, ReadMaxSeq(w) PROVE TypeInv'
  <2>1. StoreOK' BY <1>17 DEF ReadMaxSeq, StoreOK, db, room
  <2>2. LocalOK' BY <1>17 DEF ReadMaxSeq, LocalOK, Goto, Phases
  <2>3. Handlers'
    BY <1>17
    DEF ReadMaxSeq, LocalOK, Handlers, HandlerOK, Goto, HttpOps,
       Recording, Asking, InRoom, RoomOps
  <2> QED BY <2>1, <2>2, <2>3 DEF TypeInv
<1>18. ASSUME NEW w \in Workers, InsertTurn(w) PROVE TypeInv'
  <2>1. StoreOK'
    <3>1. turns \in Seq(Turn) /\ turn[w] \in Turn
      BY DEF TypeInv, StoreOK, LocalOK
    <3>2. turns' \in Seq(Turn) BY <1>18, <3>1 DEF InsertTurn
    <3> QED BY <1>18, <3>2 DEF InsertTurn, TypeInv, StoreOK, room
  <2>2. LocalOK'
    <3>1. CASE Return(w) BY <3>1, ReturnType
    <3>2. CASE RowExists /\ seq[w] > Len(turns)
      <4>1. turn[w] \in Turn BY DEF TypeInv, LocalOK
      <4>2. AfterInsert(turn[w].kind) \in Phases
        BY <4>1 DEF AfterInsert, Turn, Phases
      <4>3. pc' \in [Workers -> Phases]
        BY <1>18, <3>2, <4>2 DEF InsertTurn, TypeInv, LocalOK, Goto
      <4>4. turn[w].kind = "answer" => CountTurn(mine[w]) \in LiveState
        BY <1>18, CountedType DEF InsertTurn
      <4>5. mine' \in [Workers -> LiveState \union {NoLive}]
        BY <1>18, <3>2, <4>4 DEF InsertTurn, TypeInv, LocalOK
      <4> QED BY <1>18, <3>2, <4>3, <4>5 DEF InsertTurn, TypeInv, LocalOK
    <3> QED BY <1>18, <3>1, <3>2 DEF InsertTurn
  <2>3. Handlers'
    <3>1. CASE Return(w) BY <3>1, ReturnType
    <3>2. CASE RowExists /\ seq[w] > Len(turns)
      <4>1. turn[w] \in Turn BY DEF TypeInv, LocalOK
      <4>2. pc[w] = "insert" /\ UNCHANGED <<op, turn>>
            /\ pc' = [pc EXCEPT ![w] = AfterInsert(turn[w].kind)]
        BY <1>18, <3>2 DEF InsertTurn, Goto
      <4>3. op[w] \in {"begin", "answer", "skip"}
        BY <4>2 DEF TypeInv, Handlers, HandlerOK, Asking, Recording
      <4>4. CASE turn[w].kind = "answer"
        <5>1. op[w] = "answer" /\ CountTurn(mine[w]) \in LiveState
          BY <4>2, <4>4, CountedType
        <5>2. mine' = [mine EXCEPT ![w] = CountTurn(mine[w])]
          BY <1>18, <3>2, <4>4 DEF InsertTurn
        <5>3. pc' = [pc EXCEPT ![w] = "decide"] BY <4>2, <4>4 DEF AfterInsert
        <5> QED
          BY <4>2, <4>3, <5>1, <5>2, <5>3
          DEF TypeInv, LocalOK, Handlers, HandlerOK, Recording,
             Asking, InRoom, RoomOps
      <4>5. CASE turn[w].kind = "closing"
        <5>1. pc' = [pc EXCEPT ![w] = "complete"]
          BY <4>2, <4>5 DEF AfterInsert
        <5>2. mine' = mine
          BY <1>18, <3>2, <4>5 DEF InsertTurn, TypeInv, LocalOK
        <5> QED BY <4>2, <5>1, <5>2
            DEF TypeInv, LocalOK, Handlers, HandlerOK, Recording,
               Asking, InRoom, RoomOps
      <4>6. CASE turn[w].kind \in {"question", "follow_up"}
        <5>1. pc' = [pc EXCEPT ![w] = "save"] BY <4>2, <4>6 DEF AfterInsert
        <5>2. mine' = mine
          BY <1>18, <3>2, <4>6 DEF InsertTurn, TypeInv, LocalOK
        <5> QED BY <4>2, <4>3, <4>6, <5>1, <5>2
            DEF TypeInv, LocalOK, Handlers, HandlerOK, Recording,
               Asking, InRoom, RoomOps
      <4> QED BY <4>1, <4>4, <4>5, <4>6 DEF Turn
    <3> QED BY <1>18, <3>1, <3>2 DEF InsertTurn
  <2> QED BY <2>1, <2>2, <2>3 DEF TypeInv
<1>19. ASSUME NEW w \in Workers, SaveState(w) PROVE TypeInv'
  <2>1. StoreOK'
    <3>1. w \in Conns
      BY <1>19, RoomWorker DEF SaveState, InRoom, Asking, Recording
    <3>2. Pending(w) \in LiveState BY <1>19, PendingType DEF SaveState
    <3> QED BY <1>19, <3>1, <3>2 DEF SaveState, TypeInv, StoreOK, db
  <2>2. LocalOK' BY <1>19, ReturnType DEF SaveState, LocalOK
  <2>3. Handlers'
    BY <1>19, ReturnType
    DEF SaveState, LocalOK, Handlers, HandlerOK, Recording, Asking,
       InRoom, RoomOps
  <2> QED BY <2>1, <2>2, <2>3 DEF TypeInv
<1>20. ASSUME NEW w \in Workers, CompleteSession(w) PROVE TypeInv'
  <2>1. StoreOK' BY <1>20 DEF CompleteSession, StoreOK, room, Status
  <2>2. LocalOK' BY <1>20 DEF CompleteSession, LocalOK, local, Goto, Phases
  <2>3. Handlers'
    BY <1>20
    DEF CompleteSession, LocalOK, Handlers, HandlerOK, local, Goto,
       Recording, Asking, InRoom, RoomOps
  <2> QED BY <2>1, <2>2, <2>3 DEF TypeInv
<1>21. ASSUME NEW w \in Workers, ClearState(w) PROVE TypeInv'
  <2>1. StoreOK' BY <1>21 DEF ClearState, StoreOK, db, room
  <2>2. LocalOK'
    BY <1>21, ReturnType DEF ClearState, LocalOK, local, Goto, Phases
  <2>3. Handlers'
    BY <1>21, ReturnType
    DEF ClearState, LocalOK, Handlers, HandlerOK, local, Goto, HttpOps,
       Recording, Asking, InRoom, RoomOps
  <2> QED BY <2>1, <2>2, <2>3 DEF TypeInv
<1>22. ASSUME NEW w \in Workers, HasFeedback(w) PROVE TypeInv'
  <2>1. StoreOK' BY <1>22 DEF HasFeedback, StoreOK, db, room
  <2>2. LocalOK' BY <1>22 DEF HasFeedback, LocalOK, local, Goto, Phases
  <2>3. Handlers'
    BY <1>22
    DEF HasFeedback, LocalOK, Handlers, HandlerOK, local, Goto, Recording,
       Asking, InRoom, RoomOps
  <2> QED BY <2>1, <2>2, <2>3 DEF TypeInv
<1>23. ASSUME NEW w \in Workers, Evaluate(w) PROVE TypeInv'
  <2>1. StoreOK' BY <1>23 DEF Evaluate, StoreOK, db, room
  <2>2. LocalOK'
    <3>1. Len(turns) \in Nat BY DEF TypeInv, StoreOK
    <3>2. result' \in [Workers -> Feedback]
      BY <1>23, <3>1 DEF Evaluate, TypeInv, LocalOK, Feedback, NoFeedback
    <3> QED BY <1>23, <3>2 DEF Evaluate, TypeInv, LocalOK, Goto, Phases
  <2>3. Handlers'
    BY <1>23
    DEF Evaluate, LocalOK, Handlers, HandlerOK, Goto, HttpOps, Recording,
       Asking, InRoom, RoomOps
  <2> QED BY <2>1, <2>2, <2>3 DEF TypeInv
<1>24. ASSUME NEW w \in Workers, SaveEvaluation(w) PROVE TypeInv'
  <2>1. StoreOK'
    <3>1. result[w] \in Feedback /\ RowExists \in BOOLEAN
      BY DEF TypeInv, LocalOK, RowExists
    <3>2. feedback' \in Feedback /\ failed' \in BOOLEAN
      BY <1>24, <3>1 DEF SaveEvaluation, TypeInv, StoreOK
    <3> QED BY <1>24, <3>2 DEF SaveEvaluation, TypeInv, StoreOK, room
  <2>2. LocalOK'
    BY <1>24, ReturnType DEF SaveEvaluation, LocalOK, local, Goto, Phases
  <2>3. Handlers'
    BY <1>24, ReturnType
    DEF SaveEvaluation, LocalOK, Handlers, HandlerOK, local, Goto,
       HttpOps, Recording, Asking, InRoom, RoomOps
  <2> QED BY <2>1, <2>2, <2>3 DEF TypeInv
<1>25. ASSUME NEW w \in Workers, Broadcast(w) PROVE TypeInv'
  <2>1. StoreOK'
    <3>1. Registered \subseteq Conns BY DEF Registered, TypeInv, StoreOK
    <3> QED BY <1>25, <3>1 DEF Broadcast, TypeInv, StoreOK, db
  <2>2. LocalOK' BY <1>25, ReturnType DEF Broadcast, LocalOK
  <2>3. Handlers'
    BY <1>25, ReturnType
    DEF Broadcast, LocalOK, Handlers, HandlerOK, Recording, Asking,
       InRoom, RoomOps
  <2> QED BY <2>1, <2>2, <2>3 DEF TypeInv
<1>26. ASSUME NEW w \in Workers, StartSession(w) PROVE TypeInv'
  <2>1. StoreOK'
    <3>1. questions' \in Seq(Question) /\ status' \in Status
      <4>1. CASE UNCHANGED <<status, questions>> BY <4>1 DEF TypeInv, StoreOK
      <4>2. CASE /\ \E k \in QuestionCounts : questions' = Arrange(k, "generated")
                 /\ status' = "ready"
        <5>1. PICK k \in QuestionCounts : questions' = Arrange(k, "generated")
          BY <4>2
        <5>2. k \in Nat /\ "generated" \in QuestionKinds BY DEF QuestionKinds
        <5> QED BY <4>2, <5>1, <5>2, ArrangeType DEF Status
      <4> QED BY <1>26, <4>1, <4>2 DEF StartSession
    <3> QED BY <1>26, <3>1 DEF StartSession, TypeInv, StoreOK, room
  <2>2. LocalOK' BY <1>26, ReturnType DEF StartSession, LocalOK
  <2>3. Handlers'
    BY <1>26, ReturnType
    DEF StartSession, LocalOK, Handlers, HandlerOK, Recording, Asking,
       InRoom, RoomOps
  <2> QED BY <2>1, <2>2, <2>3 DEF TypeInv
<1>27. ASSUME NEW w \in Workers, Fail(w) PROVE TypeInv'
  <2>1. StoreOK' BY <1>27 DEF Fail, StoreOK, db, room
  <2>2. LocalOK' BY <1>27, ReturnType DEF Fail, LocalOK
  <2>3. Handlers'
    BY <1>27, ReturnType
    DEF Fail, LocalOK, Handlers, HandlerOK, Recording, Asking, InRoom,
       RoomOps
  <2> QED BY <2>1, <2>2, <2>3 DEF TypeInv
<1>28. CASE TimePasses
  BY <1>28
  DEF TimePasses, StoreOK, Handlers, HandlerOK, db, room, local, TypeInv,
     LocalOK, Goto, Request, AppendTurn, Phases, Ops, HttpOps
<1>29. CASE ExpireState
  BY <1>29
  DEF ExpireState, StoreOK, Handlers, HandlerOK, db, room, local, TypeInv,
     LocalOK, Goto, Request, AppendTurn, Phases, Ops, HttpOps
<1>30. CASE UNCHANGED vars
  BY <1>30
  DEF vars, StoreOK, Handlers, HandlerOK, db, room, local, TypeInv, LocalOK,
     Goto, Request, AppendTurn, Phases, Ops, HttpOps
<1> QED
  BY <1>1, <1>2, <1>3, <1>4, <1>5, <1>6, <1>7, <1>8, <1>9, <1>10, <1>11,
     <1>12, <1>13, <1>14, <1>15, <1>16, <1>17, <1>18, <1>19, <1>20, <1>21,
     <1>22, <1>23, <1>24, <1>25, <1>26, <1>27, <1>28, <1>29, <1>30
  DEF Next, Step

(* Every variable of the session keeps its type, whatever the handlers do  *)
(* concurrently: the copies of the live state they hold and the turns and *)
(* live states they write are always complete ones.                       *)
THEOREM TypeCorrect == Spec => []TypeOK
<1>1. TypeInv => TypeOK BY DEF TypeInv, StoreOK, LocalOK, TypeOK
<1> QED BY <1>1, InitType, NextType, PTL DEF Spec
------------------------------------------------------------------------------
(* The live state and the transcript.  A handler's copy counts only what  *)
(* the transcript holds, and what it is about to save as pending is in    *)
(* the transcript.  The transcript only grows while the session exists,   *)
(* so what one handler relies on is not disturbed by another.             *)

HandlerAgrees(w) ==
    /\ pc[w] \in Asking \union {"decide"} /\ op[w] # "begin" =>
          mine[w].tc <= Len(turns)
    /\ pc[w] = "save" =>
          /\ Pending(w).tc <= Len(turns)
          /\ \E i \in 1..Len(turns) :
                turns[i] = [kind |-> Pending(w).kind, text |-> Pending(w).text]

Agreement ==
    RowExists =>
        /\ TurnCountNeverAhead
        /\ PendingWasRecorded
        /\ \A w \in Workers : HandlerAgrees(w)

(* A step of w leaves the other handlers alone. *)
Elsewhere(w) ==
    \A v \in Workers \ {w} :
        /\ pc'[v] = pc[v] /\ op'[v] = op[v]
        /\ mine'[v] = mine[v] /\ turn'[v] = turn[v]

LEMMA ReturnElsewhere ==
    ASSUME TypeInv, NEW w \in Workers, Return(w)
    PROVE  Elsewhere(w) /\ pc'[w] = "idle"
  BY DEF TypeInv, LocalOK, Return, Goto, Elsewhere

(* Steps that leave the transcript alone, and the live state too or drop  *)
(* it, need only look at their own handler ...                            *)
LEMMA AgreementKept ==
    ASSUME TypeInv, Agreement, NEW w \in Workers, Elsewhere(w),
           UNCHANGED turns, live' \in {live, NoLive}, RowExists' => RowExists,
           RowExists => HandlerAgrees(w)'
    PROVE  Agreement'
<1> SUFFICES ASSUME RowExists, RowExists'
             PROVE  /\ TurnCountNeverAhead' /\ PendingWasRecorded'
                    /\ \A v \in Workers : HandlerAgrees(v)'
  BY DEF Agreement
<1>1. TurnCountNeverAhead' /\ PendingWasRecorded'
  BY DEF Agreement, TurnCountNeverAhead, PendingWasRecorded
<1>2. ASSUME NEW v \in Workers, v # w PROVE HandlerAgrees(v)'
  <2>1. HandlerAgrees(v) BY DEF Agreement
  <2>2. Pending(v)' = Pending(v)
    BY <1>2
    DEF Elsewhere, Pending, Opening, Shown, FollowedUp, MovedOn, CountTurn
  <2> QED BY <1>2, <2>1, <2>2 DEF Elsewhere, HandlerAgrees
<1> QED BY <1>1, <1>2

(* ... and a handler that is not asking anything agrees anyway. *)
LEMMA AgreementIdle ==
    ASSUME TypeInv, Agreement, NEW w \in Workers, Elsewhere(w),
           UNCHANGED turns, live' \in {live, NoLive}, RowExists' => RowExists,
           pc'[w] \notin Asking \union {"decide"} \/ op'[w] = "begin",
           pc'[w] # "save"
    PROVE  Agreement'
  BY AgreementKept DEF HandlerAgrees

(* Steps of no handler. *)
LEMMA AgreementQuiet ==
    ASSUME TypeInv, Agreement, UNCHANGED <<status, turns, pc, op, mine, turn>>,
           live' \in {live, NoLive}
    PROVE  Agreement'
<1>1. \A v \in Workers : HandlerAgrees(v) => HandlerAgrees(v)'
  BY DEF HandlerAgrees, Pending, Opening, Shown, FollowedUp, MovedOn,
     CountTurn
<1> QED
  BY <1>1 DEF Agreement, TurnCountNeverAhead, PendingWasRecorded, RowExists

LEMMA InitAgreement == Init => Agreement
  BY DEF Init, Agreement, TurnCountNeverAhead, PendingWasRecorded,
         HandlerAgrees, Asking, Recording

LEMMA NextAgreement == TypeInv /\ TypeInv' /\ Agreement /\ [Next]_vars => Agreement'
<1> SUFFICES ASSUME TypeInv, TypeInv', Agreement, [Next]_vars PROVE Agreement'
  OBVIOUS
<1> USE DEF Workers
<1>1. ASSUME NEW w \in Conns, BeginLive(w) PROVE Agreement'
  BY <1>1, AgreementIdle
  DEF BeginLive, Request, Goto, Elsewhere, TypeInv, LocalOK, db, RowExists,
     Asking, Recording
<1>2. ASSUME NEW w \in Conns, HandleAnswer(w) PROVE Agreement'
  BY <1>2, AgreementIdle
  DEF HandleAnswer, Message, Request, Goto, Elsewhere, TypeInv, LocalOK, db,
     RowExists, Asking, Recording
<1>3. ASSUME NEW w \in Conns, SkipQuestion(w) PROVE Agreement'
  BY <1>3, AgreementIdle
  DEF SkipQuestion, Message, Request, Goto, Elsewhere, TypeInv, LocalOK, db,
     RowExists, Asking, Recording
<1>4. ASSUME NEW w \in Conns, Disconnect(w) PROVE Agreement'
  BY <1>4, AgreementIdle
  DEF Disconnect, Elsewhere, db, local, RowExists, Asking, Recording
<1>5. ASSUME NEW w \in Callers, Start(w) PROVE Agreement'
  BY <1>5, AgreementIdle
  DEF Start, Request, Goto, Elsewhere, TypeInv, LocalOK, db, RowExists,
     Asking, Recording
<1>6. ASSUME NEW w \in Callers, ForceEnd(w) PROVE Agreement'
  BY <1>6, AgreementIdle
  DEF ForceEnd, Request, Goto, Elsewhere, TypeInv, LocalOK, db, RowExists,
     Asking, Recording
<1>7. ASSUME NEW w \in Callers, Delete(w) PROVE Agreement'
  BY <1>7 DEF Delete, Agreement, RowExists
<1>8. ASSUME NEW w \in Callers, Retry(w) PROVE Agreement'
  BY <1>8, AgreementIdle
  DEF Retry, Request, Goto, Elsewhere, TypeInv, LocalOK, db, RowExists,
     Asking, Recording
<1>9. ASSUME NEW w \in Workers, ListQuestions(w) PROVE Agreement'
  BY <1>9, ReturnElsewhere, AgreementIdle
  DEF ListQuestions, Goto, Elsewhere, TypeInv, LocalOK, db, local,
     RowExists, Asking, Recording
<1>10. ASSUME NEW w \in Workers, BeginSession(w) PROVE Agreement'
  BY <1>10, AgreementIdle
  DEF BeginSession, CanBegin, Goto, Elsewhere, TypeInv, LocalOK, Handlers,
     HandlerOK, local, RowExists, Asking, Recording
<1>11. ASSUME NEW w \in Workers, Reread(w) PROVE Agreement'
  BY <1>11, ReturnElsewhere, AgreementIdle
  DEF Reread, Goto, Elsewhere, TypeInv, LocalOK, db, local, RowExists,
     Asking, Recording
<1>12. ASSUME NEW w \in Workers, ReconnectLive(w) PROVE Agreement'
  BY <1>12, ReturnElsewhere, AgreementIdle
  DEF ReconnectLive, db, RowExists, Asking, Recording
<1>13. ASSUME NEW w \in Workers, GetState(w) PROVE Agreement'
  <2>1. CASE Return(w)
    BY <1>13, <2>1, ReturnElsewhere, AgreementIdle
    DEF GetState, db, RowExists, Asking, Recording
  <2>2. CASE live # NoLive
    <3>1. /\ mine' = [mine EXCEPT ![w] = live] /\ UNCHANGED <<turns, live, op>>
          /\ \E p \in {"max", "pick", "complete"} : Goto(w, p)
      BY <1>13, <2>2 DEF GetState, db
    <3>2. Elsewhere(w)
      BY <1>13, <2>2, <3>1 DEF GetState, Elsewhere, Goto, TypeInv, LocalOK
    <3>3. RowExists => HandlerAgrees(w)'
      BY <2>2, <3>1 DEF HandlerAgrees, Agreement, TurnCountNeverAhead, Goto,
         TypeInv, LocalOK
    <3> QED
      BY <1>13, <3>1, <3>2, <3>3, AgreementKept DEF GetState, db,
         RowExists
  <2> QED BY <1>13, <2>1, <2>2 DEF GetState
<1>14. ASSUME NEW w \in Workers, Decide(w) PROVE Agreement'
  <2>1. CASE Return(w)
    BY <1>14, <2>1, ReturnElsewhere, AgreementIdle
    DEF Decide, db, RowExists, Asking, Recording
  <2>2. CASE \E t \in {FollowUpTurn, ClosingTurn} : AppendTurn(w, t)
    <3>1. Elsewhere(w) /\ pc'[w] = "max" /\ UNCHANGED <<op, mine>>
      BY <2>2 DEF AppendTurn, Goto, Elsewhere, TypeInv, LocalOK
    <3>2. RowExists => HandlerAgrees(w)'
      BY <1>14, <3>1 DEF Decide, db, HandlerAgrees, Agreement
    <3> QED BY <1>14, <3>1, <3>2, AgreementKept DEF Decide, db, RowExists
  <2>3. CASE Goto(w, "pick") /\ UNCHANGED local
    <3>1. Elsewhere(w) /\ pc'[w] = "pick" /\ UNCHANGED <<op, mine>>
      BY <2>3 DEF local, Goto, Elsewhere, TypeInv, LocalOK
    <3>2. RowExists => HandlerAgrees(w)'
      BY <1>14, <3>1 DEF Decide, db, HandlerAgrees, Agreement
    <3> QED BY <1>14, <3>1, <3>2, AgreementKept DEF Decide, db, RowExists
  <2> QED BY <1>14, <2>1, <2>2, <2>3 DEF Decide
<1>15. ASSUME NEW w \in Workers, PickQuestion(w) PROVE Agreement'
  <2>1. CASE Return(w)
    BY <1>15, <2>1, ReturnElsewhere, AgreementIdle
    DEF PickQuestion, db, RowExists, Asking, Recording
  <2>2. CASE Goto(w, "mark") /\ UNCHANGED <<op, mine>>
    <3>1. Elsewhere(w) /\ pc'[w] = "mark" /\ UNCHANGED <<op, mine>>
      BY <1>15, <2>2
      DEF PickQuestion, Goto, Elsewhere, TypeInv, LocalOK, Return
    <3>2. RowExists => HandlerAgrees(w)'
      BY <1>15, <3>1 DEF PickQuestion, db, HandlerAgrees, Agreement, Asking
    <3> QED
      BY <1>15, <3>1, <3>2, AgreementKept DEF PickQuestion, db,
         RowExists
  <2> QED BY <1>15, <2>1, <2>2 DEF PickQuestion
<1>16. ASSUME NEW w \in Workers, MarkQuestionAsked(w) PROVE Agreement'
  BY <1>16, AgreementKept
  DEF MarkQuestionAsked, HandlerAgrees, Agreement, Goto, Elsewhere, TypeInv,
     LocalOK, local, RowExists, Asking, Recording
<1>17. ASSUME NEW w \in Workers, ReadMaxSeq(w) PROVE Agreement'
  BY <1>17, AgreementKept
  DEF ReadMaxSeq, HandlerAgrees, Agreement, Goto, Elsewhere, TypeInv,
     LocalOK, db, RowExists, Asking, Recording
<1>18. ASSUME NEW w \in Workers, InsertTurn(w) PROVE Agreement'
  <2>1. CASE Return(w) /\ UNCHANGED turns
    BY <1>18, <2>1, ReturnElsewhere, AgreementIdle
    DEF InsertTurn, RowExists, Asking, Recording
  <2>2. CASE RowExists /\ seq[w] > Len(turns)
    <3>1. turns \in Seq(Turn) /\ turn[w] \in Turn
      BY DEF TypeInv, StoreOK, LocalOK
    <3>2. turns' = Append(turns, turn[w]) /\ UNCHANGED <<status, live, op, turn>>
      BY <1>18, <2>2 DEF InsertTurn
    <3>3. /\ Len(turns') = Len(turns) + 1
          /\ turns'[Len(turns')] = turn[w]
          /\ \A i \in 1..Len(turns) : turns'[i] = turns[i]
      BY <3>1, <3>2
    <3>4. Len(turns) \in Nat /\ (live # NoLive => live.tc \in Nat)
      BY <3>1 DEF TypeInv, StoreOK, LiveState
    <3>5. TurnCountNeverAhead' /\ PendingWasRecorded'
      <4>1. TurnCountNeverAhead'
        BY <2>2, <3>2, <3>3, <3>4 DEF Agreement, TurnCountNeverAhead
      <4>2. PendingWasRecorded'
        BY <2>2, <3>2, <3>3, <3>4 DEF Agreement, PendingWasRecorded
      <4> QED BY <4>1, <4>2
    <3>6. pc' = [pc EXCEPT ![w] = AfterInsert(turn[w].kind)] /\ Elsewhere(w)
      BY <1>18, <2>2 DEF InsertTurn, Goto, Elsewhere, TypeInv, LocalOK
    <3>7. ASSUME NEW v \in Workers, v # w PROVE HandlerAgrees(v)'
      <4>1. HandlerAgrees(v) BY <2>2 DEF Agreement
      <4>2. Pending(v)' = Pending(v)
        BY <3>6, <3>7 DEF Elsewhere, Pending, Opening, Shown, FollowedUp,
           MovedOn, CountTurn
      <4>3. pc[v] = "save" => Pending(v).tc \in Nat
        BY PendingType DEF LiveState
      <4>4. pc[v] \in Asking \union {"decide"} /\ op[v] # "begin" =>
                mine[v].tc \in Nat
        BY DEF TypeInv, Handlers, HandlerOK, LiveState
      <4>5. pc[v]' \in Asking \union {"decide"} /\ op[v]' # "begin" =>
                mine[v]'.tc <= Len(turns)'
        BY <3>3, <3>4, <3>6, <3>7, <4>1, <4>4 DEF Elsewhere, HandlerAgrees
      <4>6. pc[v]' = "save" =>
                /\ Pending(v)'.tc <= Len(turns)'
                /\ \E i \in 1..Len(turns)' :
                      turns'[i] = [kind |-> Pending(v)'.kind,
                                   text |-> Pending(v)'.text]
        BY <3>3, <3>4, <3>6, <3>7, <4>1, <4>2, <4>3
        DEF Elsewhere, HandlerAgrees
      <4> QED BY <4>5, <4>6 DEF HandlerAgrees
    <3>8. HandlerAgrees(w)'
      <4>1. HandlerAgrees(w) BY <2>2 DEF Agreement
      <4>2. pc[w] = "insert" BY <1>18 DEF InsertTurn
      <4>3. CASE turn[w].kind = "answer"
        <5>1. mine[w] \in LiveState /\ CountTurn(mine[w]) \in LiveState
              /\ op[w] = "answer"
          BY <4>2, <4>3, CountedType
        <5>2. mine'[w] = CountTurn(mine[w])
          BY <1>18, <2>2, <4>3 DEF InsertTurn, TypeInv, LocalOK
        <5>3. CountTurn(mine[w]).tc = mine[w].tc + 1
          BY <5>1 DEF CountTurn, LiveState
        <5>4. mine[w].tc <= Len(turns) /\ mine[w].tc \in Nat
          BY <4>1, <4>2, <5>1 DEF HandlerAgrees, Asking, Recording, LiveState
        <5>5. pc'[w] = "decide"
          BY <3>6, <4>3 DEF AfterInsert, TypeInv, LocalOK
        <5> QED BY <3>3, <3>4, <5>2, <5>3, <5>4, <5>5 DEF HandlerAgrees
      <4>4. CASE turn[w].kind = "closing"
        <5>1. pc'[w] = "complete"
          BY <3>6, <4>4 DEF AfterInsert, TypeInv, LocalOK
        <5> QED BY <5>1 DEF HandlerAgrees, Asking, Recording
      <4>5. CASE turn[w].kind \in {"question", "follow_up"}
        <5>1. pc'[w] = "save" /\ mine'[w] = mine[w] /\ op'[w] = op[w]
              /\ turn'[w] = turn[w]
          BY <1>18, <2>2, <3>2, <3>6, <4>5
          DEF AfterInsert, InsertTurn, TypeInv, LocalOK
        <5>2. Pending(w)' = Pending(w)
          BY <5>1 DEF Pending, Opening, Shown, FollowedUp, MovedOn, CountTurn
        <5>3. /\ Pending(w) \in LiveState
              /\ [kind |-> Pending(w).kind, text |-> Pending(w).text] = turn[w]
              /\ op[w] = "begin" => Pending(w).tc = 1
              /\ op[w] # "begin" => Pending(w).tc = mine[w].tc + 1
          BY <4>2, <4>5, PendingFields
        <5>4. op[w] # "begin" => mine[w].tc \in Nat /\ mine[w].tc <= Len(turns)
          BY <4>1, <4>2
          DEF HandlerAgrees, Asking, Recording, LiveState, TypeInv, Handlers,
              HandlerOK
        <5>5. Pending(w)'.tc <= Len(turns)'
          BY <3>3, <3>4, <5>2, <5>3, <5>4
        <5>6. \E i \in 1..Len(turns)' :
                  turns'[i] = [kind |-> Pending(w)'.kind,
                               text |-> Pending(w)'.text]
          <6>1. Len(turns') \in 1..Len(turns)' BY <3>3, <3>4
          <6> WITNESS Len(turns') \in 1..Len(turns)'
          <6> QED BY <3>3, <5>2, <5>3
        <5>7. mine[w]'.tc <= Len(turns)' \/ op[w]' = "begin"
          BY <3>3, <3>4, <5>1, <5>4
        <5> QED BY <5>5, <5>6, <5>7 DEF HandlerAgrees
      <4> QED BY <3>1, <4>3, <4>4, <4>5 DEF Turn
    <3> QED BY <3>5, <3>7, <3>8 DEF Agreement
  <2> QED BY <1>18, <2>1, <2>2 DEF InsertTurn
<1>19. ASSUME NEW w \in Workers, SaveState(w) PROVE Agreement'
  <2> SUFFICES ASSUME RowExists, RowExists'
               PROVE  /\ TurnCountNeverAhead' /\ PendingWasRecorded'
                      /\ \A v \in Workers : HandlerAgrees(v)'
    BY <1>19 DEF Agreement, SaveState, db, RowExists
  <2>1. live' = Pending(w) /\ pc[w] = "save" /\ UNCHANGED turns
    BY <1>19 DEF SaveState, db
  <2>2. HandlerAgrees(w) BY DEF Agreement
  <2>3. TurnCountNeverAhead' /\ PendingWasRecorded'
    BY <2>1, <2>2 DEF HandlerAgrees, TurnCountNeverAhead, PendingWasRecorded
  <2>4. Elsewhere(w) /\ pc'[w] = "idle"
    BY <1>19, ReturnElsewhere DEF SaveState
  <2>5. HandlerAgrees(w)' BY <2>4 DEF HandlerAgrees, Asking, Recording
  <2>6. ASSUME NEW v \in Workers, v # w PROVE HandlerAgrees(v)'
    <3>1. HandlerAgrees(v) BY DEF Agreement
    <3>2. Pending(v)' = Pending(v)
      BY <2>4, <2>6
      DEF Elsewhere, Pending, Opening, Shown, FollowedUp, MovedOn,
         CountTurn
    <3> QED BY <2>1, <2>4, <2>6, <3>1, <3>2 DEF Elsewhere, HandlerAgrees
  <2> QED BY <2>3, <2>5, <2>6
<1>20. ASSUME NEW w \in Workers, CompleteSession(w) PROVE Agreement'
  BY <1>20, AgreementIdle
  DEF CompleteSession, Goto, Elsewhere, TypeInv, LocalOK, local, RowExists,
     Asking, Recording
<1>21. ASSUME NEW w \in Workers, ClearState(w) PROVE Agreement'
  <2>1. /\ Elsewhere(w) /\ pc'[w] \in {"idle", "hasfb"}
        /\ UNCHANGED <<status, turns>> /\ live' \in {live, NoLive}
    <3>1. CASE Return(w)
      BY <1>21, <3>1, ReturnElsewhere DEF ClearState, db
    <3>2. CASE Goto(w, "hasfb") /\ UNCHANGED local
      BY <1>21, <3>2
      DEF ClearState, db, local, Goto, Elsewhere, TypeInv, LocalOK
    <3> QED BY <1>21, <3>1, <3>2 DEF ClearState
  <2> QED BY <2>1, AgreementIdle DEF RowExists, Asking, Recording
<1>22. ASSUME NEW w \in Workers, HasFeedback(w) PROVE Agreement'
  BY <1>22, AgreementIdle
  DEF HasFeedback, Goto, Elsewhere, TypeInv, LocalOK, db, local, RowExists,
     Asking, Recording
<1>23. ASSUME NEW w \in Workers, Evaluate(w) PROVE Agreement'
  BY <1>23, AgreementIdle
  DEF Evaluate, Goto, Elsewhere, TypeInv, LocalOK, db, RowExists, Asking,
     Recording
<1>24. ASSUME NEW w \in Workers, SaveEvaluation(w) PROVE Agreement'
  BY <1>24, ReturnElsewhere, AgreementIdle
  DEF SaveEvaluation, Goto, Elsewhere, TypeInv, LocalOK, local, RowExists,
     Asking, Recording
<1>25. ASSUME NEW w \in Workers, Broadcast(w) PROVE Agreement'
  BY <1>25, ReturnElsewhere, AgreementIdle
  DEF Broadcast, db, RowExists, Asking, Recording
<1>26. ASSUME NEW w \in Workers, StartSession(w) PROVE Agreement'
  BY <1>26, ReturnElsewhere, AgreementIdle
  DEF StartSession, RowExists, Asking, Recording
<1>27. ASSUME NEW w \in Workers, Fail(w) PROVE Agreement'
  BY <1>27, ReturnElsewhere, AgreementIdle
  DEF Fail, db, RowExists, Asking, Recording
<1>28. CASE TimePasses
  BY <1>28, AgreementQuiet DEF TimePasses, db, local
<1>29. CASE ExpireState
  BY <1>29, AgreementQuiet DEF ExpireState, db, local
<1>30. CASE UNCHANGED vars
  BY <1>30, AgreementQuiet DEF vars, db, local
<1> QED
  BY <1>1, <1>2, <1>3, <1>4, <1>5, <1>6, <1>7, <1>8, <1>9, <1>10, <1>11,
     <1>12,
     <1>13, <1>14, <1>15, <1>16, <1>17, <1>18, <1>19, <1>20, <1>21, <1>22, <1>23,
     <1>24, <1>25, <1>26, <1>27, <1>28, <1>29, <1>30
  DEF Next, Step

(* The two invariants, with whatever number of tabs and callers, with     *)
(* crashes at any statement and starts that replace the questions: the    *)
(* turn counter is never ahead of the transcript ...                      *)
THEOREM TurnCountCorrect == Spec => []TurnCountNeverAhead
<1>1. TypeInv /\ Agreement => TurnCountNeverAhead
  BY DEF Agreement, TurnCountNeverAhead
<1> QED
  BY <1>1, InitType, NextType, InitAgreement, NextAgreement, PTL DEF Spec

(* ... and the pending question is always one the transcript holds. *)
THEOREM PendingCorrect == Spec => []PendingWasRecorded
<1>1. TypeInv /\ Agreement => PendingWasRecorded
  BY DEF Agreement, PendingWasRecorded
<1> QED
  BY <1>1, InitType, NextType, InitAgreement, NextAgreement, PTL DEF Spec
=============================================================================
