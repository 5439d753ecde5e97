---------------------------- MODULE OneTabProofs ----------------------------
(***************************************************************************)
(* Theorems about InterviewSession for one connection whose statements     *)
(* succeed, a model that keeps to its contract and one caller that starts: *)
(* between two messages the live state in Redis says what the transcript   *)
(* says, the limit on turns bounds the transcript, and the transcript is a *)
(* dialogue as the design describes it.  The other callers may do anything *)
(* at any moment, and may fail.  The runs TwoTabs, FollowUpRace,           *)
(* LostPending and OffContract show why each assumption is there.          *)
(***************************************************************************)
EXTENDS OneStartProofs

OneTab(c) ==
    /\ Conns = {c} /\ OneStarter
    /\ c \notin Unreliable
    /\ "other" \notin ModelActions
    /\ \E n \in QuestionCounts : \A k \in QuestionCounts : k <= n

------------------------------------------------------------------------------
(* The transcript in numbers. *)

MainsIn(ts) == Cardinality({i \in 1..Len(ts) : ts[i].kind = "question"})
FollowUpsIn(ts) ==
    Cardinality({i \in 1..Len(ts) : /\ ts[i].kind = "follow_up"
                                    /\ \A j \in i..Len(ts) : ts[j].kind # "question"})

------------------------------------------------------------------------------
(* The invariant.  Within bounds a transcript by the limit on turns, the   *)
(* main questions asked, and what may come on top of the limit since the   *)
(* candidate was last asked something.                                     *)

LastKind == turns[Len(turns)].kind
Within(extra) ==
    /\ turns # <<>>
    /\ Mains \in 1..LongestInterview
    /\ Len(turns) <= MaxTurns + Mains + extra
    /\ Mains = 1 => Len(turns) <= 1 + extra

Open    == Within(0) /\ LastKind \in {"question", "follow_up"}
Replied == Within(1) /\ LastKind = "answer"
Over    == Within(2) /\ LastKind = "closing"

(* A live state counts what the transcript holds. *)
Counts(s) == s.tc = Len(turns) /\ s.qi + 1 = Mains /\ s.fu = FollowUps
Matches(s) ==
    Counts(s) /\ turns[Len(turns)] = [kind |-> s.kind, text |-> s.text]

Unopened == turns = <<>> /\ live = NoLive
Awaiting == Open /\ (live # NoLive => Matches(live))
Settled  == Unopened \/ Awaiting \/ (Over /\ live = NoLive)

(* Where the connection's handler has not touched the transcript, ...      *)
Untouched == {"idle", "list", "cas", "reread", "reconnect", "get", "hasfb",
              "evaluate", "savefb", "notify", "generate"}
(* ... is opening it, ...                                                  *)
Entering(w) == op[w] = "begin" /\ pc[w] \in {"list", "cas", "reread", "pick",
                                             "mark", "max", "insert"}
(* ... is about to record an answer or a skip, ...                         *)
Replying(w) ==
    \/ op[w] = "answer" /\ pc[w] \in {"max", "insert"} /\ turn[w].kind = "answer"
    \/ op[w] = "skip" /\ pc[w] \in {"pick", "mark", "max", "insert"}
(* ... or has recorded an answer and says something to it.                 *)
Reacting(w) ==
    /\ op[w] = "answer"
    /\ \/ pc[w] \in {"decide", "pick", "mark"}
       \/ pc[w] \in {"max", "insert"} /\ turn[w].kind # "answer"
MovingOn(w) ==
    \/ pc[w] \in {"pick", "mark"}
    \/ pc[w] \in {"max", "insert"} /\ turn[w].kind = "question"

TabOK(w) ==
    /\ pc[w] \in Untouched => Settled
    /\ Entering(w) => Unopened
    /\ Replying(w) => Open /\ Matches(mine[w])
    /\ Reacting(w) => Replied /\ Counts(mine[w])
    /\ Reacting(w) /\ MovingOn(w) => mine[w].tc < MaxTurns \/ mine[w].qi = 0
    /\ pc[w] = "pick" /\ op[w] \in {"answer", "skip"} =>
          mine[w].qi + 1 < Len(questions)
    /\ Reacting(w) /\ pc[w] \in {"max", "insert"} /\ turn[w].kind = "follow_up" =>
          /\ mine[w].qi >= 1 /\ mine[w].fu < FollowUpCap
          /\ mine[w].tc < MaxTurns
    /\ pc[w] = "save" => Open /\ Matches(Pending(w))
    /\ pc[w] \in {"complete", "clear"} => Awaiting \/ Over
    /\ pc[w] = "insert" => seq[w] = Len(turns) + 1

(* The questions, and the list of them a handler loaded. *)
Introduced(ks) == \A i \in 1..Len(ks) : ks[i] = "self_intro" <=> i = 1
ListOK(w) ==
    /\ Len(questions) <= LongestInterview
    /\ \A i \in 1..Len(questions) : questions[i].kind = "self_intro" <=> i = 1
    /\ op[w] \in {"answer", "skip"} /\ pc[w] \in {"get", "decide", "pick", "mark",
                                                  "max", "insert"} =>
          Len(kinds[w]) = Len(questions) /\ Introduced(kinds[w])

TabInv(c) ==
    /\ ~RowExists => turns = <<>>
    /\ RowExists => TabOK(c) /\ ListOK(c)

------------------------------------------------------------------------------
(* Appending a turn. *)

LEMMA PlacesOfAppend ==
    ASSUME NEW S, NEW ts \in Seq(S), NEW t \in S
    PROVE  /\ Len(ts) \in Nat /\ Len(Append(ts, t)) = Len(ts) + 1
           /\ \A i \in 1..Len(ts) : Append(ts, t)[i] = ts[i]
           /\ Append(ts, t)[Len(ts) + 1] = t
  OBVIOUS

LEMMA PlacesCount ==
    ASSUME NEW n \in Nat, NEW A \in SUBSET (1..n)
    PROVE  /\ IsFiniteSet(A) /\ Cardinality(A) \in Nat
           /\ Cardinality(A \union {n + 1}) = Cardinality(A) + 1
<1>1. IsFiniteSet(1..n) BY FS_Interval
<1>2. IsFiniteSet(A) BY <1>1, FS_Subset
<1>3. n + 1 \notin A BY SMT
<1> QED BY <1>2, <1>3, FS_AddElement, FS_CardinalityType

LEMMA MainsAppend ==
    ASSUME NEW ts \in Seq(Turn), NEW t \in Turn
    PROVE  /\ MainsIn(ts) \in Nat
           /\ MainsIn(Append(ts, t)) =
                  MainsIn(ts) + (IF t.kind = "question" THEN 1 ELSE 0)
<1> DEFINE n == Len(ts)
           us == Append(ts, t)
           A  == {i \in 1..n : ts[i].kind = "question"}
           B  == {i \in 1..Len(us) : us[i].kind = "question"}
<1>1. /\ n \in Nat /\ Len(us) = n + 1 /\ us[n + 1] = t
      /\ \A i \in 1..n : us[i] = ts[i]
  BY PlacesOfAppend
<1>2. A \in SUBSET (1..n) OBVIOUS
<1>3. B = IF t.kind = "question" THEN A \union {n + 1} ELSE A
  <2> HIDE DEF n, us
  <2>1. 1..Len(us) = (1..n) \union {n + 1} BY <1>1
  <2> QED BY <1>1, <2>1
<1>4. MainsIn(ts) = Cardinality(A) /\ MainsIn(us) = Cardinality(B)
  BY DEF MainsIn
<1> HIDE DEF n, us, A, B
<1>5. Cardinality(A) \in Nat /\ Cardinality(A \union {n + 1}) = Cardinality(A) + 1
  BY <1>1, <1>2, PlacesCount
<1> QED BY <1>3, <1>4, <1>5 DEF us

LEMMA FollowUpsAppend ==
    ASSUME NEW ts \in Seq(Turn), NEW t \in Turn
    PROVE  /\ FollowUpsIn(ts) \in Nat
           /\ FollowUpsIn(Append(ts, t)) =
                  IF t.kind = "question" THEN 0
                  ELSE FollowUpsIn(ts) + (IF t.kind = "follow_up" THEN 1 ELSE 0)
<1> DEFINE n == Len(ts)
           us == Append(ts, t)
           A  == {i \in 1..n : /\ ts[i].kind = "follow_up"
                               /\ \A j \in i..n : ts[j].kind # "question"}
           B  == {i \in 1..Len(us) : /\ us[i].kind = "follow_up"
                                     /\ \A j \in i..Len(us) : us[j].kind # "question"}
<1>1. /\ n \in Nat /\ Len(us) = n + 1 /\ us[n + 1] = t
      /\ \A i \in 1..n : us[i] = ts[i]
  BY PlacesOfAppend
<1>2. A \in SUBSET (1..n) OBVIOUS
<1>4. FollowUpsIn(ts) = Cardinality(A) /\ FollowUpsIn(us) = Cardinality(B)
  BY DEF FollowUpsIn
<1>3. B = IF t.kind = "question" THEN {}
          ELSE IF t.kind = "follow_up" THEN A \union {n + 1} ELSE A
  <2> HIDE DEF n, us
  <2>1. 1..Len(us) = (1..n) \union {n + 1} BY <1>1
  <2>2. \A i \in 1..n : i..Len(us) = (i..n) \union {n + 1} BY <1>1
  <2>3. (n + 1)..Len(us) = {n + 1} BY <1>1
  <2>4. \A i \in 1..n : \A j \in i..n : j \in 1..n BY <1>1
  <2>5. CASE t.kind = "question"
    <3>1. \A i \in 1..Len(us) : n + 1 \in i..Len(us) BY <1>1
    <3> QED BY <1>1, <2>5, <3>1
  <2>6. CASE t.kind # "question"
    <3>1. \A i \in 1..n : (\A j \in i..Len(us) : us[j].kind # "question")
                              <=> \A j \in i..n : ts[j].kind # "question"
      BY <1>1, <2>2, <2>4, <2>6
    <3>2. \A j \in (n + 1)..Len(us) : us[j].kind # "question"
      BY <1>1, <2>3, <2>6
    <3>3. \A i \in 1..n : i \in B <=> i \in A BY <1>1, <2>1, <3>1
    <3>4. n + 1 \in B <=> t.kind = "follow_up" BY <1>1, <2>1, <3>2
    <3>5. \A i \in B : i \in 1..n \/ i = n + 1 BY <2>1
    <3>6. \A i \in A : i \in 1..n OBVIOUS
    <3> HIDE DEF A, B
    <3>7. CASE t.kind = "follow_up"
      <4>1. B = A \union {n + 1} BY <3>3, <3>4, <3>5, <3>6, <3>7
      <4> QED BY <2>6, <3>7, <4>1
    <3>8. CASE t.kind # "follow_up"
      <4>1. B = A BY <3>3, <3>4, <3>5, <3>6, <3>8
      <4> QED BY <2>6, <3>8, <4>1
    <3> QED BY <3>7, <3>8
  <2> QED BY <2>5, <2>6
<1> HIDE DEF n, us, A, B
<1>5. Cardinality(A) \in Nat /\ Cardinality(A \union {n + 1}) = Cardinality(A) + 1
  BY <1>1, <1>2, PlacesCount
<1>6. Cardinality({}) = 0 BY FS_EmptySet
<1> QED BY <1>3, <1>4, <1>5, <1>6 DEF us

LEMMA Nothing == MainsIn(<<>>) = 0 /\ FollowUpsIn(<<>>) = 0
  BY FS_EmptySet DEF MainsIn, FollowUpsIn

LEMMA Grown ==
    ASSUME TypeInv, NEW t \in Turn, turns' = Append(turns, t)
    PROVE  /\ Len(turns) \in Nat /\ Len(turns') = Len(turns) + 1
           /\ turns' # <<>> /\ turns'[Len(turns')] = t /\ LastKind' = t.kind
           /\ Mains \in Nat /\ FollowUps \in Nat
           /\ Mains' = Mains + (IF t.kind = "question" THEN 1 ELSE 0)
           /\ FollowUps' = IF t.kind = "question" THEN 0
                           ELSE FollowUps + (IF t.kind = "follow_up" THEN 1 ELSE 0)
<1>1. turns \in Seq(Turn) BY DEF TypeInv, StoreOK
<1>2. /\ Len(turns) \in Nat /\ Len(Append(turns, t)) = Len(turns) + 1
      /\ Append(turns, t)[Len(turns) + 1] = t
  BY <1>1, PlacesOfAppend
<1>3. turns' # <<>> BY <1>1, <1>2
<1>4. Mains = MainsIn(turns) /\ FollowUps = FollowUpsIn(turns)
  BY DEF Mains, MainsIn, FollowUps, FollowUpsIn
<1>5. Mains' = MainsIn(turns') /\ FollowUps' = FollowUpsIn(turns')
  BY DEF Mains, MainsIn, FollowUps, FollowUpsIn
<1>6. /\ MainsIn(turns) \in Nat /\ FollowUpsIn(turns) \in Nat
      /\ MainsIn(turns') = MainsIn(turns) + (IF t.kind = "question" THEN 1 ELSE 0)
      /\ FollowUpsIn(turns') =
             IF t.kind = "question" THEN 0
             ELSE FollowUpsIn(turns) + (IF t.kind = "follow_up" THEN 1 ELSE 0)
  BY <1>1, MainsAppend, FollowUpsAppend
<1> QED BY <1>2, <1>3, <1>4, <1>5, <1>6 DEF LastKind

LEMMA EmptyTranscript ==
    ASSUME turns = <<>>
    PROVE  Len(turns) = 0 /\ Mains = 0 /\ FollowUps = 0
<1>1. Mains = MainsIn(turns) /\ FollowUps = FollowUpsIn(turns)
  BY DEF Mains, MainsIn, FollowUps, FollowUpsIn
<1> QED BY <1>1, Nothing

LEMMA SameTranscript ==
    ASSUME UNCHANGED turns
    PROVE  /\ Mains' = Mains /\ FollowUps' = FollowUps /\ LastKind' = LastKind
           /\ Open' = Open /\ Replied' = Replied /\ Over' = Over
           /\ \A s, t : s = t => Counts(s)' = Counts(t) /\ Matches(s)' = Matches(t)
<1>1. Mains' = Mains /\ FollowUps' = FollowUps /\ LastKind' = LastKind
  BY DEF Mains, FollowUps, LastKind
<1>2. Within(0)' = Within(0) /\ Within(1)' = Within(1) /\ Within(2)' = Within(2)
  BY <1>1 DEF Within
<1> QED BY <1>1, <1>2 DEF Open, Replied, Over, Counts, Matches

LEMMA LongestBounds ==
    ASSUME NEW c, OneTab(c)
    PROVE  /\ LongestInterview \in Nat
           /\ \A k \in QuestionCounts : k + 1 <= LongestInterview
<1>1. PICK n \in QuestionCounts : \A k \in QuestionCounts : k <= n
  BY DEF OneTab
<1>2. QuestionCounts \subseteq Nat BY SessionAssumption DEF SessionAssumption
<1>3. /\ n + 1 \in {k + 1 : k \in QuestionCounts}
      /\ \A k \in QuestionCounts : k < n + 1
  BY <1>1, <1>2
<1>4. /\ LongestInterview \in {k + 1 : k \in QuestionCounts}
      /\ \A k \in QuestionCounts : k < LongestInterview
  BY <1>3 DEF LongestInterview
<1> QED BY <1>2, <1>4

------------------------------------------------------------------------------
(* Steps that are not the connection's own. *)

Listed(c) == <<pc[c], op[c], mine[c], kinds[c], turn[c], seq[c]>>
Outside(c) ==
    /\ Listed(c)' = Listed(c)
    /\ live' \in {live, NoLive}
    /\ RowExists' => RowExists /\ UNCHANGED turns
    /\ ~RowExists' => (UNCHANGED turns /\ ~RowExists) \/ turns' = <<>>
    /\ \/ UNCHANGED questions
       \/ ~RowExists'
       \/ NotBegun /\ status = "draft"
            /\ \E n \in QuestionCounts : questions' = Arrange(n, "generated")

LEMMA CallersOutside ==
    ASSUME NEW c, OneTab(c), TypeInv, Course, NEW h \in Callers,
           \/ Start(h) \/ ForceEnd(h) \/ Delete(h) \/ Retry(h)
           \/ Step(h) \/ Fail(h)
    PROVE  Outside(c)
<1>1. c \in Workers /\ h \in Workers /\ h # c /\ h \notin Conns
  BY SessionAssumption DEF SessionAssumption, OneTab, Workers
<1>2. pc[h] \notin InRoom
  BY <1>1 DEF TypeInv, Handlers, HandlerOK
<1>3. ASSUME Return(h) PROVE Listed(c)' = Listed(c)
  BY <1>1, <1>3 DEF Return, Goto, TypeInv, LocalOK, Listed
<1>4. ASSUME NEW p, Goto(h, p), UNCHANGED local PROVE Listed(c)' = Listed(c)
  BY <1>1, <1>4 DEF Goto, local, TypeInv, LocalOK, Listed
<1>5. ASSUME NEW o, NEW p, Request(h, o, p), UNCHANGED <<mine, kinds, turn, seq>>
      PROVE  Listed(c)' = Listed(c)
  BY <1>1, <1>5 DEF Request, Goto, TypeInv, LocalOK, Listed
<1>6. CASE Start(h)
  BY <1>5, <1>6 DEF Start, Outside, db, Startable, RowExists
<1>7. CASE ForceEnd(h)
  BY <1>5, <1>7 DEF ForceEnd, Outside, db, RowExists
<1>8. CASE Delete(h)
  BY <1>5, <1>8 DEF Delete, Outside, RowExists
<1>9. CASE Retry(h)
  BY <1>5, <1>9 DEF Retry, Outside, db, RowExists
<1>10. CASE Fail(h)
  BY <1>3, <1>10 DEF Fail, Outside, db, RowExists
<1>11. CASE CompleteSession(h)
  <2>1. Listed(c)' = Listed(c) BY <1>4, <1>11 DEF CompleteSession
  <2> QED BY <1>11, <2>1 DEF CompleteSession, Outside, RowExists
<1>12. CASE ClearState(h)
  <2>1. Listed(c)' = Listed(c) BY <1>3, <1>4, <1>12 DEF ClearState
  <2> QED BY <1>12, <2>1 DEF ClearState, Outside, db, RowExists
<1>13. CASE HasFeedback(h)
  <2>1. Listed(c)' = Listed(c) BY <1>4, <1>13 DEF HasFeedback
  <2> QED BY <1>13, <2>1 DEF HasFeedback, Outside, db, RowExists
<1>14. CASE Evaluate(h)
  <2>1. Listed(c)' = Listed(c)
    BY <1>1, <1>14 DEF Evaluate, Goto, TypeInv, LocalOK, Listed
  <2> QED BY <1>14, <2>1 DEF Evaluate, Outside, db, RowExists
<1>15. CASE SaveEvaluation(h)
  <2>1. Listed(c)' = Listed(c) BY <1>3, <1>4, <1>15 DEF SaveEvaluation
  <2> QED BY <1>15, <2>1 DEF SaveEvaluation, Outside, RowExists
<1>16. CASE Broadcast(h)
  <2>1. Listed(c)' = Listed(c) BY <1>3, <1>16 DEF Broadcast
  <2> QED BY <1>16, <2>1 DEF Broadcast, Outside, db, RowExists
<1>17. CASE StartSession(h)
  <2>1. Listed(c)' = Listed(c) /\ UNCHANGED <<turns, live>>
    BY <1>3, <1>17 DEF StartSession
  <2>2. status \in {"draft", "deleted"}
    BY <1>1, <1>17 DEF StartSession, Course, InPlace
  <2>3. \/ UNCHANGED <<status, questions>>
        \/ /\ status = "draft" /\ NotBegun /\ status' = "ready"
           /\ \E n \in QuestionCounts : questions' = Arrange(n, "generated")
    BY <1>17, <2>2 DEF StartSession, RowExists, Course
  <2> QED BY <2>1, <2>3 DEF Outside, RowExists
<1>18. ~ListQuestions(h) /\ ~BeginSession(h) /\ ~Reread(h) /\ ~ReconnectLive(h)
  BY <1>2 DEF ListQuestions, BeginSession, Reread, ReconnectLive, InRoom
<1>19. ~GetState(h) /\ ~Decide(h) /\ ~PickQuestion(h) /\ ~MarkQuestionAsked(h)
  BY <1>2 DEF GetState, Decide, PickQuestion, MarkQuestionAsked, InRoom, Asking, Recording
<1>20. ~ReadMaxSeq(h) /\ ~InsertTurn(h) /\ ~SaveState(h)
  BY <1>2 DEF ReadMaxSeq, InsertTurn, SaveState, InRoom, Asking, Recording
<1> QED
  BY <1>6, <1>7, <1>8, <1>9, <1>10, <1>11, <1>12, <1>13, <1>14, <1>15, <1>16,
     <1>17, <1>18, <1>19, <1>20
  DEF Step

LEMMA NobodyOutside ==
    ASSUME NEW c, TimePasses \/ ExpireState \/ UNCHANGED vars
    PROVE  Outside(c)
<1>1. CASE TimePasses
  BY <1>1 DEF TimePasses, db, local, Outside, Listed, RowExists
<1>2. CASE ExpireState
  BY <1>2 DEF ExpireState, db, local, Outside, Listed, RowExists
<1>3. CASE UNCHANGED vars
  BY <1>3 DEF vars, db, local, Outside, Listed, RowExists
<1> QED BY <1>1, <1>2, <1>3

LEMMA SameHandler ==
    ASSUME NEW c, Listed(c)' = Listed(c)
    PROVE  /\ pc'[c] = pc[c] /\ op'[c] = op[c] /\ mine'[c] = mine[c]
           /\ kinds'[c] = kinds[c] /\ turn'[c] = turn[c] /\ seq'[c] = seq[c]
           /\ Pending(c)' = Pending(c)
           /\ Entering(c)' = Entering(c) /\ Replying(c)' = Replying(c)
           /\ Reacting(c)' = Reacting(c) /\ MovingOn(c)' = MovingOn(c)
<1>1. /\ pc'[c] = pc[c] /\ op'[c] = op[c] /\ mine'[c] = mine[c]
      /\ kinds'[c] = kinds[c] /\ turn'[c] = turn[c] /\ seq'[c] = seq[c]
  BY DEF Listed
<1>2. Pending(c)' = Pending(c)
  BY <1>1 DEF Pending, Opening, Shown, FollowedUp, MovedOn, CountTurn
<1> QED BY <1>1, <1>2 DEF Entering, Replying, Reacting, MovingOn

LEMMA ArrangedList ==
    ASSUME NEW n \in QuestionCounts, NEW k \in {"bank", "generated"}
    PROVE  /\ Len(Arrange(n, k)) = n + 1
           /\ \A i \in 1..Len(Arrange(n, k)) :
                  Arrange(n, k)[i].kind = "self_intro" <=> i = 1
<1>1. n \in Nat /\ k \in QuestionKinds
  BY SessionAssumption DEF SessionAssumption, QuestionKinds
<1>2. Len(Arrange(n, k)) = n + 1 BY <1>1, ArrangeType
<1> QED BY <1>1, <1>2 DEF Arrange

LEMMA OutsideKeeps ==
    ASSUME NEW c, OneTab(c), TypeInv, TabInv(c), Outside(c)
    PROVE  TabInv(c)'
<1>1. CASE ~RowExists'
  BY <1>1 DEF Outside, TabInv
<1>2. CASE RowExists'
  <2>1. RowExists /\ UNCHANGED turns /\ TabOK(c) /\ ListOK(c)
    BY <1>2 DEF Outside, TabInv
  <2>2. live' \in {live, NoLive} /\ Listed(c)' = Listed(c) BY DEF Outside
  <2>3. /\ Mains' = Mains /\ FollowUps' = FollowUps /\ LastKind' = LastKind
        /\ Open' = Open /\ Replied' = Replied /\ Over' = Over
        /\ \A s, t : s = t => Counts(s)' = Counts(t) /\ Matches(s)' = Matches(t)
    BY <2>1, SameTranscript
  <2>4. Unopened => Unopened' BY <2>1, <2>2 DEF Unopened
  <2>5. Awaiting => Awaiting'
    <3>1. Matches(live)' = Matches(live') BY <2>1, <2>3 DEF Matches, Counts
    <3> QED BY <2>2, <2>3, <3>1 DEF Awaiting
  <2>6. Settled => Settled' BY <2>2, <2>3, <2>4, <2>5 DEF Settled
  <2>7. /\ pc'[c] = pc[c] /\ op'[c] = op[c] /\ mine'[c] = mine[c]
        /\ kinds'[c] = kinds[c] /\ turn'[c] = turn[c] /\ seq'[c] = seq[c]
        /\ Pending(c)' = Pending(c)
        /\ Entering(c)' = Entering(c) /\ Replying(c)' = Replying(c)
        /\ Reacting(c)' = Reacting(c) /\ MovingOn(c)' = MovingOn(c)
    BY <2>2, SameHandler
  <2>8. /\ Counts(mine[c])' = Counts(mine[c]) /\ Matches(mine[c])' = Matches(mine[c])
        /\ Matches(Pending(c))' = Matches(Pending(c))
    BY <2>3, <2>7 DEF Counts, Matches
  <2>9. CASE UNCHANGED questions
    <3>1. TabOK(c)'
      BY <2>1, <2>3, <2>4, <2>5, <2>6, <2>7, <2>8, <2>9 DEF TabOK
    <3>2. ListOK(c)' BY <2>1, <2>7, <2>9 DEF ListOK
    <3> QED BY <1>2, <3>1, <3>2 DEF TabInv
  <2>10. CASE /\ NotBegun /\ status = "draft"
              /\ \E n \in QuestionCounts : questions' = Arrange(n, "generated")
    <3>1. PICK n \in QuestionCounts : questions' = Arrange(n, "generated")
      BY <2>10
    <3>2. c \in Workers BY DEF OneTab, Workers
    <3>3. pc[c] \in {"idle", "generate"} BY <2>10, <3>2 DEF NotBegun
    <3>4. TabOK(c)'
      <4>1. ~Entering(c) /\ ~Replying(c) /\ ~Reacting(c)
        BY <3>3 DEF Entering, Replying, Reacting
      <4> QED BY <2>1, <2>6, <2>7, <3>3, <4>1 DEF TabOK, Untouched
    <3>5. ListOK(c)'
      BY <2>7, <3>1, <3>3, ArrangedList, LongestBounds DEF ListOK
    <3> QED BY <1>2, <3>4, <3>5 DEF TabInv
  <2> QED BY <1>2, <2>9, <2>10 DEF Outside
<1> QED BY <1>1, <1>2

------------------------------------------------------------------------------
(* Steps of the connection, while the row exists. *)

Here(c) ==
    /\ TypeInv /\ TypeInv' /\ Course /\ Numbered /\ Asked
    /\ RowExists /\ TabOK(c) /\ ListOK(c)

LEMMA SameState ==
    ASSUME UNCHANGED <<turns, live>>
    PROVE  /\ Unopened' = Unopened /\ Awaiting' = Awaiting /\ Settled' = Settled
<1>1. /\ Open' = Open /\ Over' = Over /\ Matches(live)' = Matches(live)
  BY SameTranscript
<1> QED BY <1>1 DEF Unopened, Awaiting, Settled

LEMMA ReturnHere ==
    ASSUME NEW c, OneTab(c), TypeInv, Return(c)
    PROVE  pc'[c] = "idle" /\ op'[c] = "none"
<1>1. c \in Workers BY DEF OneTab, Workers
<1> QED BY <1>1, ReturnElsewhere DEF Return, TypeInv, LocalOK

LEMMA GotoHere ==
    ASSUME NEW c, OneTab(c), TypeInv, NEW p, Goto(c, p)
    PROVE  pc'[c] = p
<1>1. c \in Workers BY DEF OneTab, Workers
<1> QED BY <1>1 DEF Goto, TypeInv, LocalOK

(* Where the handler does not touch the transcript. *)
LEMMA Rests ==
    ASSUME NEW c, Here(c), UNCHANGED <<turns, live, questions>>,
           pc'[c] \in Untouched, Settled, Entering(c)' => Unopened,
           pc'[c] = "get" => Len(kinds'[c]) = Len(questions) /\ Introduced(kinds'[c])
    PROVE  TabOK(c)' /\ ListOK(c)'
<1>1. Settled' /\ (Entering(c)' => Unopened') BY SameState
<1>2. ~Replying(c)' /\ ~Reacting(c)'
  BY DEF Replying, Reacting, Untouched
<1>3. TabOK(c)' BY <1>1, <1>2 DEF TabOK, Untouched
<1>4. ListOK(c)' BY DEF Here, ListOK, Untouched
<1> QED BY <1>3, <1>4

LEMMA TabBeginLive ==
    ASSUME NEW c, OneTab(c), Here(c), BeginLive(c)
    PROVE  TabOK(c)' /\ ListOK(c)'
<1>1. c \in Workers BY DEF OneTab, Workers
<1>2. /\ pc[c] = "idle" /\ pc'[c] = "list"
      /\ UNCHANGED <<turns, live, questions>>
      /\ op'[c] = "begin" => status = "ready"
  BY <1>1 DEF BeginLive, Request, Goto, db, Here, TypeInv, LocalOK
<1>3. Settled BY <1>2 DEF Here, TabOK, Untouched
<1>4. Entering(c)' => Unopened
  BY <1>2 DEF Entering, Here, Course, NotBegun, Unopened
<1> QED BY <1>2, <1>3, <1>4, Rests DEF Untouched

LEMMA TabMessage ==
    ASSUME NEW c, OneTab(c), Here(c), NEW o \in {"answer", "skip"}, Message(c, o)
    PROVE  TabOK(c)' /\ ListOK(c)'
<1>1. c \in Workers BY DEF OneTab, Workers
<1>2. /\ pc[c] = "idle" /\ pc'[c] = "list" /\ op'[c] # "begin"
      /\ UNCHANGED <<turns, live, questions>>
  BY <1>1 DEF Message, Request, Goto, db, Here, TypeInv, LocalOK
<1>3. Settled BY <1>2 DEF Here, TabOK, Untouched
<1> QED BY <1>2, <1>3, Rests DEF Untouched, Entering

LEMMA TabDisconnect ==
    ASSUME NEW c, OneTab(c), Here(c), Disconnect(c)
    PROVE  TabOK(c)' /\ ListOK(c)'
<1>1. /\ pc[c] = "idle" /\ pc'[c] = "idle" /\ UNCHANGED <<turns, live, questions>>
  BY DEF Disconnect, db
<1>2. Settled BY <1>1 DEF Here, TabOK, Untouched
<1> QED BY <1>1, <1>2, Rests DEF Untouched, Entering

LEMMA TabListQuestions ==
    ASSUME NEW c, OneTab(c), Here(c), ListQuestions(c)
    PROVE  TabOK(c)' /\ ListOK(c)'
<1>1. c \in Workers BY DEF OneTab, Workers
<1>2. pc[c] = "list" /\ UNCHANGED <<turns, live, questions>>
  BY DEF ListQuestions, db
<1>3. Settled BY <1>2 DEF Here, TabOK, Untouched
<1>4. CASE Return(c)
  BY <1>2, <1>3, <1>4, ReturnHere, Rests DEF Here, Untouched, Entering
<1>5. CASE /\ UNCHANGED op
           /\ op[c] \in {"begin", "rejoin"}
           /\ Goto(c, IF op[c] = "begin" THEN "cas" ELSE "reconnect")
  <2>1. pc'[c] = IF op[c] = "begin" THEN "cas" ELSE "reconnect"
    BY <1>5, GotoHere DEF Here
  <2>2. Entering(c)' => Unopened
    BY <1>2, <1>5, <2>1 DEF Entering, Here, TabOK
  <2> QED BY <1>2, <1>3, <2>1, <2>2, Rests DEF Untouched
<1>6. CASE /\ UNCHANGED op /\ op[c] \notin {"begin", "rejoin"}
           /\ kinds' = [kinds EXCEPT ![c] =
                           [i \in 1..Len(questions) |-> questions[i].kind]]
           /\ Goto(c, "get")
  <2>1. pc'[c] = "get" BY <1>6, GotoHere DEF Here
  <2>2. kinds'[c] = [i \in 1..Len(questions) |-> questions[i].kind]
    BY <1>1, <1>6 DEF Here, TypeInv, LocalOK
  <2>3. Len(kinds'[c]) = Len(questions) /\ Introduced(kinds'[c])
    <3>1. /\ Len(questions) \in Nat
          /\ \A i \in 1..Len(questions) : questions[i].kind \in QuestionKinds
      <4>1. questions \in Seq(Question) BY DEF Here, TypeInv, StoreOK
      <4>2. /\ Len(questions) \in Nat
            /\ \A i \in 1..Len(questions) : questions[i] \in Question
        BY <4>1
      <4> QED BY <4>2 DEF Question
    <3>2. kinds'[c] \in [1..Len(questions) -> QuestionKinds]
      BY <2>2, <3>1
    <3>3. Len(kinds'[c]) = Len(questions) BY <3>1, <3>2, FunIsSeq
    <3> QED BY <2>2, <3>1, <3>3 DEF Here, ListOK, Introduced
  <2> QED BY <1>2, <1>3, <1>6, <2>1, <2>3, Rests DEF Untouched, Entering
<1> QED BY <1>4, <1>5, <1>6 DEF ListQuestions, local

LEMMA TabBeginSession ==
    ASSUME NEW c, OneTab(c), Here(c), BeginSession(c)
    PROVE  TabOK(c)' /\ ListOK(c)'
<1>1. pc[c] = "cas" /\ op'[c] = op[c] /\ UNCHANGED <<turns, live, questions>>
  BY DEF BeginSession, local
<1>2. c \in Workers /\ op[c] = "begin"
  BY <1>1 DEF OneTab, Workers, Here, TypeInv, Handlers, HandlerOK
<1>3. Settled /\ Unopened
  BY <1>1, <1>2 DEF Here, TabOK, Untouched, Entering
<1>4. CASE Goto(c, "reread")
  BY <1>1, <1>3, <1>4, GotoHere, Rests DEF Here, Untouched
<1>5. CASE Goto(c, "pick")
  <2>1. pc'[c] = "pick" BY <1>5, GotoHere DEF Here
  <2>2. TabOK(c)'
    BY <1>1, <1>2, <1>3, <2>1, SameState
    DEF TabOK, Untouched, Entering, Replying, Reacting
  <2>3. ListOK(c)' BY <1>1, <1>2, <2>1 DEF Here, ListOK
  <2> QED BY <2>2, <2>3
<1> QED BY <1>4, <1>5 DEF BeginSession

LEMMA TabReread ==
    ASSUME NEW c, OneTab(c), Here(c), Reread(c)
    PROVE  TabOK(c)' /\ ListOK(c)'
<1>1. pc[c] = "reread" /\ UNCHANGED <<turns, live, questions>>
  BY DEF Reread, db
<1>2. Settled BY <1>1 DEF Here, TabOK, Untouched
<1>3. pc'[c] \in {"reconnect", "idle"}
  BY GotoHere, ReturnHere DEF Reread, Here
<1> QED BY <1>1, <1>2, <1>3, Rests DEF Untouched, Entering

LEMMA TabReconnectLive ==
    ASSUME NEW c, OneTab(c), Here(c), ReconnectLive(c)
    PROVE  TabOK(c)' /\ ListOK(c)'
<1>1. pc[c] = "reconnect" /\ UNCHANGED <<turns, live, questions>>
  BY DEF ReconnectLive, db
<1>2. Settled BY <1>1 DEF Here, TabOK, Untouched
<1>3. pc'[c] = "idle" BY ReturnHere DEF ReconnectLive, Here
<1> QED BY <1>1, <1>2, <1>3, Rests DEF Untouched, Entering

LEMMA TabGetState ==
    ASSUME NEW c, OneTab(c), Here(c), GetState(c)
    PROVE  TabOK(c)' /\ ListOK(c)'
<1>1. pc[c] = "get" /\ UNCHANGED <<turns, live, questions>>
  BY DEF GetState, db
<1>2. c \in Workers /\ op[c] \in {"answer", "skip"} /\ Settled
  BY <1>1 DEF OneTab, Workers, Here, TypeInv, Handlers, HandlerOK, TabOK,
              Untouched
<1>3. CASE Return(c)
  BY <1>1, <1>2, <1>3, ReturnHere, Rests DEF Here, Untouched, Entering
<1>4. CASE live # NoLive /\ mine' = [mine EXCEPT ![c] = live]
  <2>1. ~Return(c)
    <3>1. mine'[c] = live BY <1>2, <1>4 DEF Here, TypeInv, LocalOK
    <3> QED BY <1>2, <1>4, <3>1 DEF Return, Here, TypeInv, LocalOK
  <2>2. /\ UNCHANGED <<op, kinds>> /\ mine'[c] = live
        /\ \/ /\ op[c] = "answer"
              /\ turn' = [turn EXCEPT ![c] = AnswerTurn]
              /\ Goto(c, "max")
           \/ /\ op[c] = "skip" /\ live.qi + 1 < Len(kinds[c])
              /\ Goto(c, "pick")
           \/ op[c] = "skip" /\ Goto(c, "complete")
    BY <1>2, <1>4, <2>1 DEF GetState, Here, TypeInv, LocalOK
  <2>3. Awaiting /\ Open /\ Matches(live)
    BY <1>2, <1>4 DEF Settled, Unopened, Awaiting
  <2>4. /\ Open' = Open /\ Matches(mine[c])' = Matches(live)
        /\ Awaiting' = Awaiting
    BY <1>1, <2>2, SameTranscript, SameState
  <2>5. ListOK(c)' BY <1>1, <1>2, <2>2 DEF Here, ListOK
  <2>6. CASE op[c] = "answer" /\ Goto(c, "max")
             /\ turn' = [turn EXCEPT ![c] = AnswerTurn]
    <3>1. pc'[c] = "max" /\ turn'[c].kind = "answer" /\ op'[c] = op[c]
      BY <1>2, <2>2, <2>6, GotoHere DEF Here, TypeInv, LocalOK, AnswerTurn
    <3>2. ~Entering(c)' /\ ~Reacting(c)'
      BY <2>6, <3>1 DEF Entering, Reacting
    <3> QED
      BY <2>3, <2>4, <2>5, <3>1, <3>2 DEF TabOK, Untouched
  <2>7. CASE op[c] = "skip" /\ Goto(c, "pick") /\ live.qi + 1 < Len(kinds[c])
    <3>1. pc'[c] = "pick" /\ op'[c] = "skip"
      BY <2>2, <2>7, GotoHere DEF Here
    <3>2. ~Entering(c)' /\ ~Reacting(c)'
      BY <3>1 DEF Entering, Reacting
    <3>3. live.qi + 1 < Len(questions)
      BY <1>1, <1>2, <2>7 DEF Here, ListOK
    <3> QED
      BY <1>1, <2>2, <2>3, <2>4, <2>5, <3>1, <3>2, <3>3 DEF TabOK, Untouched
  <2>8. CASE op[c] = "skip" /\ Goto(c, "complete")
    <3>1. pc'[c] = "complete" BY <2>8, GotoHere DEF Here
    <3>2. ~Entering(c)' /\ ~Reacting(c)' /\ ~Replying(c)'
      BY <3>1 DEF Entering, Reacting, Replying
    <3> QED BY <2>3, <2>4, <2>5, <3>1, <3>2 DEF TabOK, Untouched
  <2> QED BY <2>2, <2>6, <2>7, <2>8
<1> QED BY <1>3, <1>4 DEF GetState

(* What the rules allow the model to decide. *)
LEMMA DecisionBounds ==
    ASSUME NEW c, OneTab(c), Here(c), pc[c] = "decide", NEW m \in ModelActions
    PROVE  /\ Decision(c, m) # "other"
           /\ Decision(c, m) = "follow_up" =>
                 /\ mine[c].qi >= 1 /\ mine[c].fu < FollowUpCap
                 /\ mine[c].tc < MaxTurns
           /\ Decision(c, m) = "next_question" =>
                 mine[c].tc < MaxTurns \/ mine[c].qi = 0
<1>1. c \in Workers BY DEF OneTab, Workers
<1>2. op[c] = "answer" /\ mine[c] \in LiveState
  BY <1>1 DEF Here, TypeInv, Handlers, HandlerOK
<1>3. /\ mine[c].qi \in Nat /\ mine[c].fu \in Nat /\ mine[c].tc \in Nat
  BY <1>2 DEF LiveState
<1>4. /\ mine[c].qi < Len(kinds[c]) /\ Introduced(kinds[c])
      /\ Len(kinds[c]) \in Nat
  BY <1>1, <1>2 DEF Here, Asked, DecideNeverPanics, ListOK, TypeInv, LocalOK
<1>5. kinds[c][mine[c].qi + 1] = "self_intro" <=> mine[c].qi = 0
  BY <1>3, <1>4 DEF Introduced
<1>6. m # "other" BY DEF OneTab
<1>7. FollowUpCap \in Int /\ MaxTurns \in Nat
  BY DecideAssumption DEF DecideAssumption, FollowUpCap, LegacyLimit
<1>8. CASE mine[c].qi = 0
  BY <1>5, <1>8 DEF Decision
<1>9. CASE mine[c].qi # 0
  <2> DEFINE in == [total |-> Len(kinds[c]), qi |-> mine[c].qi,
                    fu |-> mine[c].fu, tc |-> mine[c].tc,
                    late |-> late, action |-> m]
  <2>1. Decision(c, m) = ApplyDecideRules(in) BY <1>5, <1>9 DEF Decision
  <2>2. in.tc = mine[c].tc /\ in.fu = mine[c].fu /\ in.action = m OBVIOUS
  <2> HIDE DEF in
  <2>3. \/ ApplyDecideRules(in) = "finish"
        \/ ~TurnsOver(in) /\ ApplyDecideRules(in) = "next_question"
        \/ /\ ~TurnsOver(in) /\ ~FollowUpsOver(in)
           /\ ApplyDecideRules(in) = in.action
    BY Zenon DEF ApplyDecideRules
  <2>4. /\ TurnsOver(in) <=> mine[c].tc >= MaxTurns
        /\ FollowUpsOver(in) <=> mine[c].fu >= FollowUpCap
    BY <2>2 DEF TurnsOver, FollowUpsOver
  <2>5. mine[c].qi >= 1 BY <1>3, <1>9
  <2> QED
    BY <1>3, <1>6, <1>7, <2>1, <2>2, <2>3, <2>4, <2>5
<1> QED BY <1>8, <1>9

LEMMA TabDecide ==
    ASSUME NEW c, OneTab(c), Here(c), Decide(c)
    PROVE  TabOK(c)' /\ ListOK(c)'
<1>1. pc[c] = "decide" /\ UNCHANGED <<turns, live, questions>>
  BY DEF Decide, db
<1>2. c \in Workers /\ op[c] = "answer" /\ mine[c] \in LiveState
  BY <1>1 DEF OneTab, Workers, Here, TypeInv, Handlers, HandlerOK
<1>3. mine[c].qi < Len(kinds[c]) /\ mine[c].qi \in Nat /\ Len(kinds[c]) \in Nat
  BY <1>1, <1>2 DEF Here, Asked, DecideNeverPanics, TypeInv, LocalOK, LiveState
<1>4. Replied /\ Counts(mine[c])
  BY <1>1, <1>2 DEF Here, TabOK, Reacting
<1>5. PICK m \in ModelActions :
         \/ Decision(c, m) = "follow_up" /\ AppendTurn(c, FollowUpTurn)
         \/ /\ Decision(c, m) = "next_question" /\ HasNext(c)
            /\ Goto(c, "pick") /\ UNCHANGED local
         \/ AppendTurn(c, ClosingTurn)
  BY <1>1, <1>3, DecisionBounds DEF Decide
<1>6. UNCHANGED <<op, mine, kinds>>
  BY <1>5 DEF AppendTurn, local
<1>7. /\ Replied' = Replied
      /\ Counts(mine[c])' = Counts(mine[c])
  BY <1>1, <1>6, SameTranscript
<1>8. ListOK(c)' BY <1>1, <1>2, <1>6 DEF Here, ListOK
<1>9. CASE Decision(c, m) = "next_question" /\ HasNext(c) /\ Goto(c, "pick")
  <2>1. pc'[c] = "pick" BY <1>9, GotoHere DEF Here
  <2>2. ~Entering(c)' /\ ~Replying(c)'
    BY <1>2, <1>6, <2>1 DEF Entering, Replying
  <2>3. mine[c].tc < MaxTurns \/ mine[c].qi = 0
    BY <1>1, <1>9, DecisionBounds
  <2>4. mine[c].qi + 1 < Len(questions)
    BY <1>1, <1>2, <1>9 DEF HasNext, Here, ListOK
  <2> QED
    BY <1>1, <1>4, <1>6, <1>7, <1>8, <2>1, <2>2, <2>3, <2>4
    DEF TabOK, Untouched
<1>10. CASE \E t \in {FollowUpTurn, ClosingTurn} :
              /\ AppendTurn(c, t)
              /\ t = FollowUpTurn => Decision(c, m) = "follow_up"
  <2>1. PICK t \in {FollowUpTurn, ClosingTurn} :
              /\ AppendTurn(c, t)
              /\ t = FollowUpTurn => Decision(c, m) = "follow_up"
    BY <1>10
  <2>2. pc'[c] = "max" /\ turn'[c] = t
    BY <1>2, <2>1, GotoHere DEF AppendTurn, Here, TypeInv, LocalOK
  <2>3. t.kind \in {"follow_up", "closing"} /\ (t.kind = "follow_up" => t = FollowUpTurn)
    BY <2>1 DEF FollowUpTurn, ClosingTurn
  <2>4. ~Entering(c)' /\ ~Replying(c)' /\ ~MovingOn(c)'
    BY <1>2, <1>6, <2>2, <2>3 DEF Entering, Replying, MovingOn
  <2>5. turn'[c].kind = "follow_up" =>
          /\ mine[c].qi >= 1 /\ mine[c].fu < FollowUpCap
          /\ mine[c].tc < MaxTurns
    BY <1>1, <2>1, <2>2, <2>3, DecisionBounds
  <2> QED
    BY <1>4, <1>6, <1>7, <1>8, <2>2, <2>3, <2>4, <2>5
    DEF TabOK, Untouched
<1> QED BY <1>5, <1>9, <1>10 DEF FollowUpTurn, ClosingTurn

(* The statements before the INSERT leave the transcript alone. *)
LEMMA Proceeds ==
    ASSUME NEW c, OneTab(c), Here(c), UNCHANGED <<turns, live>>,
           Len(questions') = Len(questions),
           \A i \in 1..Len(questions) : questions'[i].kind = questions[i].kind,
           op'[c] = op[c], mine'[c] = mine[c], kinds'[c] = kinds[c],
           \/ pc[c] = "pick" /\ pc'[c] = "mark"
           \/ /\ turn'[c] = turn[c]
              /\ \/ pc[c] = "mark" /\ pc'[c] = "max" /\ turn[c].kind = "question"
                 \/ pc[c] = "max" /\ pc'[c] = "insert" /\ seq'[c] = Len(turns) + 1
    PROVE  TabOK(c)' /\ ListOK(c)'
<1>1. c \in Workers /\ op[c] \in {"begin", "answer", "skip"}
  BY DEF OneTab, Workers, Here, TypeInv, Handlers, HandlerOK, Asking, Recording
<1>2. /\ Open' = Open /\ Matches(mine[c])' = Matches(mine[c])
      /\ Replied' = Replied /\ Counts(mine[c])' = Counts(mine[c])
      /\ Unopened' = Unopened
  BY SameTranscript, SameState
<1>3. /\ Entering(c)' => Entering(c)
      /\ Replying(c)' => Replying(c)
      /\ Reacting(c)' => Reacting(c)
      /\ MovingOn(c)' => MovingOn(c)
  BY DEF Entering, Replying, Reacting, MovingOn
<1>4. Reacting(c)' /\ pc'[c] \in {"max", "insert"} /\ turn'[c].kind = "follow_up" =>
          /\ mine[c].qi >= 1 /\ mine[c].fu < FollowUpCap
          /\ mine[c].tc < MaxTurns
  BY <1>3 DEF Here, TabOK
<1>5. TabOK(c)'
  BY <1>2, <1>3, <1>4 DEF Here, TabOK, Untouched
<1>6. ListOK(c)' BY DEF Here, ListOK
<1> QED BY <1>5, <1>6

LEMMA TabPickQuestion ==
    ASSUME NEW c, OneTab(c), Here(c), PickQuestion(c)
    PROVE  TabOK(c)' /\ ListOK(c)'
<1>1. pc[c] = "pick" /\ UNCHANGED <<turns, live, questions>>
  BY DEF PickQuestion, db
<1>2. c \in Workers /\ op[c] \in {"begin", "answer", "skip"}
  BY <1>1 DEF OneTab, Workers, Here, TypeInv, Handlers, HandlerOK, Asking
<1>3. CASE NextSeq(c) \in 1..Len(questions)
  <2>1. UNCHANGED <<op, mine, kinds>> /\ pc'[c] = "mark"
    BY <1>3, GotoHere DEF PickQuestion, Here
  <2> QED BY <1>1, <2>1, Proceeds
<1>4. CASE NextSeq(c) \notin 1..Len(questions)
  <2>1. Return(c) BY <1>4 DEF PickQuestion
  <2>2. op[c] = "begin"
    <3> SUFFICES ASSUME op[c] # "begin" PROVE FALSE OBVIOUS
    <3>1. mine[c] \in LiveState /\ mine[c].qi + 1 < Len(questions)
      BY <1>1, <1>2 DEF Here, TabOK, TypeInv, Handlers, HandlerOK, Asking
    <3>2. mine[c].qi \in Nat /\ Len(questions) \in Nat
      BY <3>1 DEF LiveState, Here, TypeInv, StoreOK
    <3>3. mine[c].qi + 2 \in 1..Len(questions) BY <3>1, <3>2
    <3> QED BY <1>4, <3>3 DEF NextSeq
  <2>3. Settled
    BY <1>1, <2>2 DEF Here, TabOK, Entering, Settled
  <2> QED BY <1>1, <2>1, <2>3, ReturnHere, Rests DEF Here, Untouched, Entering
<1> QED BY <1>3, <1>4

LEMMA TabMarkQuestionAsked ==
    ASSUME NEW c, OneTab(c), Here(c), MarkQuestionAsked(c)
    PROVE  TabOK(c)' /\ ListOK(c)'
<1>1. /\ pc[c] = "mark" /\ pc'[c] = "max"
      /\ UNCHANGED <<turns, live, op, mine, kinds, turn>>
      /\ questions' = [i \in 1..Len(questions) |->
                          IF i = MarkedSeq(c)
                          THEN [questions[i] EXCEPT !.asked = TRUE]
                          ELSE questions[i]]
  BY GotoHere DEF MarkQuestionAsked, Here, local
<1>2. /\ Len(questions) \in Nat
      /\ \A i \in 1..Len(questions) : questions[i] \in Question
  <2>1. questions \in Seq(Question) BY DEF Here, TypeInv, StoreOK
  <2> QED BY <2>1
<1>3. \A q \in Question : /\ [q EXCEPT !.asked = TRUE] \in Question
                          /\ [q EXCEPT !.asked = TRUE].kind = q.kind
  BY DEF Question
<1>4. /\ questions' \in [1..Len(questions) -> Question]
      /\ \A i \in 1..Len(questions) : questions'[i].kind = questions[i].kind
  BY <1>1, <1>2, <1>3
<1>5. Len(questions') = Len(questions) BY <1>2, <1>4, FunIsSeq
<1>6. turn[c].kind = "question"
  BY <1>1 DEF OneTab, Workers, Here, TypeInv, Handlers, HandlerOK
<1> QED BY <1>1, <1>4, <1>5, <1>6, Proceeds

LEMMA TabReadMaxSeq ==
    ASSUME NEW c, OneTab(c), Here(c), ReadMaxSeq(c)
    PROVE  TabOK(c)' /\ ListOK(c)'
<1>1. /\ pc[c] = "max" /\ pc'[c] = "insert"
      /\ UNCHANGED <<turns, live, questions, op, mine, kinds, turn>>
  BY GotoHere DEF ReadMaxSeq, Here, db
<1>2. seq'[c] = Len(turns) + 1
  BY DEF ReadMaxSeq, OneTab, Workers, Here, TypeInv, LocalOK
<1> QED BY <1>1, <1>2, Proceeds

(* What is saved after the INSERT counts one main question or one         *)
(* follow-up more.                                                        *)
LEMMA PendingNumbers ==
    ASSUME TypeInv, NEW c \in Workers, pc[c] = "insert",
           turn[c].kind \in {"question", "follow_up"}
    PROVE  /\ op[c] = "begin" => Pending(c).qi = 0 /\ Pending(c).fu = 0
           /\ op[c] # "begin" /\ turn[c].kind = "question" =>
                 Pending(c).qi = mine[c].qi + 1 /\ Pending(c).fu = 0
           /\ op[c] # "begin" /\ turn[c].kind = "follow_up" =>
                 Pending(c).qi = mine[c].qi /\ Pending(c).fu = mine[c].fu + 1
<1>1. CASE op[c] = "begin" BY <1>1 DEF Pending, Opening
<1>2. CASE op[c] # "begin"
  <2>1. mine[c] \in LiveState
    BY <1>2 DEF TypeInv, Handlers, HandlerOK, Asking, Recording
  <2> DEFINE s == IF turn[c].kind = "follow_up"
                  THEN FollowedUp(mine[c]) ELSE MovedOn(mine[c])
  <2>2. /\ FollowedUp(mine[c]) \in LiveState
        /\ FollowedUp(mine[c]).qi = mine[c].qi
        /\ FollowedUp(mine[c]).fu = mine[c].fu + 1
    BY <2>1 DEF FollowedUp, LiveState
  <2>3. /\ MovedOn(mine[c]) \in LiveState
        /\ MovedOn(mine[c]).qi = mine[c].qi + 1 /\ MovedOn(mine[c]).fu = 0
    <3>1. /\ [mine[c] EXCEPT !.qi = @ + 1] \in LiveState
          /\ [mine[c] EXCEPT !.qi = @ + 1].qi = mine[c].qi + 1
      BY <2>1 DEF LiveState
    <3>2. \A r \in LiveState : /\ [r EXCEPT !.fu = 0] \in LiveState
                               /\ [r EXCEPT !.fu = 0].qi = r.qi
                               /\ [r EXCEPT !.fu = 0].fu = 0
      BY DEF LiveState
    <3> QED BY <3>1, <3>2 DEF MovedOn
  <2>4. s \in LiveState BY <2>2, <2>3
  <2>5. Pending(c).qi = s.qi /\ Pending(c).fu = s.fu
    <3>1. Pending(c) = [CountTurn(s) EXCEPT !.kind = turn[c].kind,
                                            !.text = Shown(c)]
      BY <1>2 DEF Pending
    <3> HIDE DEF s
    <3> QED BY <2>4, <3>1 DEF CountTurn, LiveState
  <2> QED BY <1>2, <2>2, <2>3, <2>5
<1> QED BY <1>1, <1>2

(* The numbers in play, as numbers. *)
LEMMA Amounts ==
    ASSUME NEW c, OneTab(c)
    PROVE  LongestInterview \in Nat /\ MaxTurns \in Nat \ {0}
  BY LongestBounds, DecideAssumption DEF DecideAssumption

(* Any INSERT of the handler: it succeeds, and adds the turn. *)
LEMMA Inserted ==
    ASSUME NEW c, OneTab(c), Here(c), InsertTurn(c)
    PROVE  /\ turns' = Append(turns, turn[c])
           /\ turn[c] \in Turn
           /\ UNCHANGED <<op, kinds, turn, questions, live>>
           /\ pc[c] = "insert" /\ pc'[c] = AfterInsert(turn[c].kind)
           /\ mine'[c] = IF turn[c].kind = "answer" THEN CountTurn(mine[c])
                         ELSE mine[c]
<1>1. c \in Workers BY DEF OneTab, Workers
<1>2. pc[c] = "insert" BY DEF InsertTurn
<1>3. RowExists /\ seq[c] > Len(turns)
  <2>1. seq[c] = Len(turns) + 1 BY <1>2 DEF Here, TabOK
  <2>2. Len(turns) \in Nat BY DEF Here, TypeInv, StoreOK
  <2> QED BY <2>1, <2>2 DEF Here
<1>4. /\ turns' = Append(turns, turn[c])
      /\ Goto(c, AfterInsert(turn[c].kind))
      /\ mine' = [mine EXCEPT ![c] = IF turn[c].kind = "answer"
                                     THEN CountTurn(@) ELSE @]
      /\ UNCHANGED <<op, kinds, turn, questions, live>>
  BY <1>3 DEF InsertTurn
<1>5. pc'[c] = AfterInsert(turn[c].kind) BY <1>4, GotoHere DEF Here
<1>6. turn[c] \in Turn BY <1>1 DEF Here, TypeInv, LocalOK
<1> QED BY <1>1, <1>2, <1>4, <1>5, <1>6 DEF Here, TypeInv, LocalOK

(* After a question or a follow-up has been recorded. *)
LEMMA AskedNow ==
    ASSUME NEW c, OneTab(c), Here(c), InsertTurn(c),
           turn[c].kind \in {"question", "follow_up"},
           Mains' \in 1..LongestInterview, Len(turns') <= MaxTurns + Mains',
           Mains' = 1 => Len(turns') <= 1,
           Pending(c).tc = Len(turns'), Pending(c).qi + 1 = Mains',
           Pending(c).fu = FollowUps'
    PROVE  TabOK(c)' /\ ListOK(c)'
<1>1. /\ turns' = Append(turns, turn[c]) /\ turn[c] \in Turn
      /\ UNCHANGED <<op, kinds, turn, questions, live>>
      /\ pc[c] = "insert" /\ pc'[c] = AfterInsert(turn[c].kind)
      /\ mine'[c] = mine[c]
  BY Inserted
<1>2. pc'[c] = "save" BY <1>1 DEF AfterInsert
<1>3. turns' # <<>> /\ turns'[Len(turns')] = turn[c] /\ LastKind' = turn[c].kind
      /\ Len(turns') \in Nat
  BY <1>1, Grown DEF Here, TypeInv, StoreOK
<1>4. c \in Workers BY DEF OneTab, Workers
<1>5. Pending(c)' = Pending(c)
  BY <1>1 DEF Pending, Opening, Shown, FollowedUp, MovedOn, CountTurn
<1>6. [kind |-> Pending(c).kind, text |-> Pending(c).text] = turn[c]
  BY <1>1, <1>4, PendingFields DEF Here
<1>7. Matches(Pending(c))' BY <1>3, <1>5, <1>6 DEF Matches, Counts
<1>8. Open'
  <2>1. Mains' \in Nat /\ MaxTurns \in Nat BY Amounts
  <2>2. Within(0)' BY <1>3, <2>1 DEF Within
  <2> QED BY <1>3, <2>2 DEF Open
<1>9. ~Entering(c)' /\ ~Replying(c)' /\ ~Reacting(c)'
  BY <1>2 DEF Entering, Replying, Reacting
<1>10. TabOK(c)' BY <1>2, <1>7, <1>8, <1>9 DEF TabOK, Untouched
<1>11. ListOK(c)' BY <1>1, <1>2 DEF Here, ListOK
<1> QED BY <1>10, <1>11

(* A main question is one of the interview's. *)
LEMMA QuestionInRange ==
    ASSUME NEW c, OneTab(c), Here(c), pc[c] = "insert", turn[c].kind = "question"
    PROVE  turn[c].text <= LongestInterview /\ turn[c].text = NextSeq(c)
<1>1. c \in Workers BY DEF OneTab, Workers
<1>2. turn[c].text = NextSeq(c) BY <1>1 DEF Here, Numbered, Recording
<1>3. turn[c].text <= Len(questions) /\ Len(questions) <= LongestInterview
  BY <1>1 DEF Here, Asked, HandlerAsked, Through, ListOK
<1>4. turn[c].text \in Nat /\ Len(questions) \in Nat
  BY <1>1 DEF Here, TypeInv, StoreOK, LocalOK, Turn
<1> QED BY <1>2, <1>3, <1>4, Amounts

LEMMA TabOpening ==
    ASSUME NEW c, OneTab(c), Here(c), InsertTurn(c), op[c] = "begin"
    PROVE  TabOK(c)' /\ ListOK(c)'
<1>1. /\ turns' = Append(turns, turn[c]) /\ turn[c] \in Turn /\ pc[c] = "insert"
  BY Inserted
<1>2. c \in Workers /\ turn[c] = QuestionTurn(1) /\ turn[c].kind = "question"
      /\ turn[c].text = 1
  BY <1>1
  DEF OneTab, Workers, Here, TypeInv, Handlers, HandlerOK, Recording,
      QuestionTurn
<1>3. turns = <<>> BY <1>1 DEF Here, TabOK, Entering, Unopened
<1>4. Len(turns') = 1 /\ Mains' = 1 /\ FollowUps' = 0
  BY <1>1, <1>2, <1>3, Grown, EmptyTranscript DEF Here
<1>5. 1 <= LongestInterview BY <1>1, <1>2, QuestionInRange
<1>6. Pending(c).tc = 1 /\ Pending(c).qi = 0 /\ Pending(c).fu = 0
  BY <1>1, <1>2, PendingFields, PendingNumbers DEF Here
<1>7. LongestInterview \in Nat /\ MaxTurns \in Nat \ {0} BY Amounts
<1>8. /\ Mains' \in 1..LongestInterview /\ Len(turns') <= MaxTurns + Mains'
      /\ Mains' = 1 => Len(turns') <= 1
      /\ Pending(c).tc = Len(turns') /\ Pending(c).qi + 1 = Mains'
      /\ Pending(c).fu = FollowUps'
  BY <1>4, <1>5, <1>6, <1>7
<1> QED BY <1>2, <1>8, AskedNow

LEMMA TabAnswered ==
    ASSUME NEW c, OneTab(c), Here(c), InsertTurn(c), turn[c].kind = "answer"
    PROVE  TabOK(c)' /\ ListOK(c)'
<1>1. /\ turns' = Append(turns, turn[c]) /\ turn[c] \in Turn
      /\ UNCHANGED <<op, kinds, turn, questions, live>>
      /\ pc[c] = "insert" /\ pc'[c] = "decide"
      /\ mine'[c] = CountTurn(mine[c])
  BY Inserted DEF AfterInsert
<1>2. c \in Workers /\ op[c] = "answer" /\ mine[c] \in LiveState
  BY <1>1, CountedType DEF OneTab, Workers, Here
<1>3. Open /\ Counts(mine[c])
  BY <1>1, <1>2 DEF Here, TabOK, Replying, Matches
<1>4. /\ Len(turns') = Len(turns) + 1 /\ turns' # <<>> /\ LastKind' = "answer"
      /\ Mains' = Mains /\ FollowUps' = FollowUps
      /\ Len(turns) \in Nat /\ Mains \in Nat /\ FollowUps \in Nat
  BY <1>1, Grown DEF Here
<1>5. mine'[c].tc = mine[c].tc + 1 /\ mine'[c].qi = mine[c].qi
      /\ mine'[c].fu = mine[c].fu
  BY <1>1, <1>2 DEF CountTurn, LiveState
<1>6. Counts(mine[c])' BY <1>3, <1>4, <1>5 DEF Counts
<1>7. Replied'
  <2>1. MaxTurns \in Nat BY Amounts
  <2>2. Within(1)' BY <1>3, <1>4, <2>1 DEF Open, Within
  <2> QED BY <1>4, <2>2 DEF Replied
<1>8. ~Entering(c)' /\ ~Replying(c)' /\ ~MovingOn(c)'
  BY <1>1 DEF Entering, Replying, MovingOn
<1>9. TabOK(c)' BY <1>1, <1>6, <1>7, <1>8 DEF TabOK, Untouched
<1>10. ListOK(c)' BY <1>1 DEF Here, ListOK
<1> QED BY <1>9, <1>10

(* What comes after an answer, or instead of one. *)
LEMMA TabAsked ==
    ASSUME NEW c, OneTab(c), Here(c), InsertTurn(c), op[c] # "begin",
           turn[c].kind \in {"question", "follow_up"}
    PROVE  TabOK(c)' /\ ListOK(c)'
<1>1. /\ turns' = Append(turns, turn[c]) /\ turn[c] \in Turn /\ pc[c] = "insert"
  BY Inserted
<1>2. /\ c \in Workers /\ op[c] \in {"answer", "skip"} /\ mine[c] \in LiveState
      /\ op[c] = "skip" => turn[c].kind = "question"
  BY <1>1
  DEF OneTab, Workers, Here, TypeInv, Handlers, HandlerOK, Asking, Recording
<1>3. \/ /\ Reacting(c) /\ Replied /\ Counts(mine[c])
         /\ turn[c].kind = "question" => mine[c].tc < MaxTurns \/ mine[c].qi = 0
         /\ turn[c].kind = "follow_up" => mine[c].qi >= 1 /\ mine[c].tc < MaxTurns
      \/ Open /\ Counts(mine[c]) /\ turn[c].kind = "question"
  BY <1>1, <1>2 DEF Here, TabOK, Replying, Reacting, MovingOn, Matches
<1>4. /\ mine[c].tc = Len(turns) /\ mine[c].qi + 1 = Mains
      /\ mine[c].fu = FollowUps
  BY <1>3 DEF Counts
<1>5. /\ mine[c].qi \in Nat /\ mine[c].tc \in Nat
      /\ LongestInterview \in Nat /\ MaxTurns \in Nat \ {0}
  BY <1>2, Amounts DEF LiveState
<1>6. /\ Mains \in 1..LongestInterview
      /\ Len(turns) <= MaxTurns + Mains + 1
      /\ Mains = 1 => Len(turns) <= 2
      /\ turn[c].kind = "follow_up" => Mains >= 2 /\ Len(turns) < MaxTurns
      /\ turn[c].kind = "question" =>
            \/ Len(turns) < MaxTurns \/ Mains = 1
            \/ Len(turns) <= MaxTurns + Mains
  <2>1. CASE Replied BY <1>3, <1>4, <1>5, <2>1 DEF Replied, Open, Within
  <2>2. CASE Open /\ turn[c].kind = "question"
    BY <1>4, <1>5, <2>2 DEF Open, Within
  <2> QED BY <1>3, <2>1, <2>2
<1>7. /\ Len(turns') = Len(turns) + 1
      /\ Mains' = Mains + (IF turn[c].kind = "question" THEN 1 ELSE 0)
      /\ FollowUps' = IF turn[c].kind = "question" THEN 0 ELSE FollowUps + 1
      /\ Len(turns) \in Nat /\ Mains \in Nat /\ FollowUps \in Nat
  BY <1>1, Grown DEF Here
<1>8. turn[c].kind = "question" => Mains + 1 <= LongestInterview
  <2>1. turn[c].kind = "question" => mine[c].qi + 2 <= LongestInterview
    BY <1>1, QuestionInRange DEF NextSeq
  <2> QED BY <1>4, <1>5, <2>1
<1>9. /\ Pending(c).tc = mine[c].tc + 1
      /\ turn[c].kind = "question" =>
            Pending(c).qi = mine[c].qi + 1 /\ Pending(c).fu = 0
      /\ turn[c].kind = "follow_up" =>
            Pending(c).qi = mine[c].qi /\ Pending(c).fu = mine[c].fu + 1
  BY <1>1, <1>2, PendingFields, PendingNumbers DEF Here
<1>10. CASE turn[c].kind = "question"
  <2>1. /\ Mains' \in 1..LongestInterview /\ Len(turns') <= MaxTurns + Mains'
        /\ Mains' = 1 => Len(turns') <= 1
        /\ Pending(c).tc = Len(turns') /\ Pending(c).qi + 1 = Mains'
        /\ Pending(c).fu = FollowUps'
    BY <1>4, <1>5, <1>6, <1>7, <1>8, <1>9, <1>10
  <2> QED BY <1>10, <2>1, AskedNow
<1>11. CASE turn[c].kind = "follow_up"
  <2>1. /\ Mains' \in 1..LongestInterview /\ Len(turns') <= MaxTurns + Mains'
        /\ Mains' = 1 => Len(turns') <= 1
        /\ Pending(c).tc = Len(turns') /\ Pending(c).qi + 1 = Mains'
        /\ Pending(c).fu = FollowUps'
    BY <1>4, <1>5, <1>6, <1>7, <1>9, <1>11
  <2> QED BY <1>11, <2>1, AskedNow
<1> QED BY <1>10, <1>11

LEMMA TabClosed ==
    ASSUME NEW c, OneTab(c), Here(c), InsertTurn(c), turn[c].kind = "closing"
    PROVE  TabOK(c)' /\ ListOK(c)'
<1>1. /\ turns' = Append(turns, turn[c]) /\ turn[c] \in Turn
      /\ UNCHANGED <<op, kinds, turn, questions, live>>
      /\ pc[c] = "insert" /\ pc'[c] = "complete"
  BY Inserted DEF AfterInsert
<1>2. c \in Workers /\ op[c] = "answer"
  BY <1>1
  DEF OneTab, Workers, Here, TypeInv, Handlers, HandlerOK, Asking, Recording,
      QuestionTurn
<1>3. Replied BY <1>1, <1>2 DEF Here, TabOK, Reacting
<1>4. /\ Len(turns') = Len(turns) + 1 /\ turns' # <<>> /\ LastKind' = "closing"
      /\ Mains' = Mains /\ Len(turns) \in Nat /\ Mains \in Nat
  BY <1>1, Grown DEF Here
<1>5. MaxTurns \in Nat BY Amounts
<1>6. Within(2)' BY <1>3, <1>4, <1>5 DEF Replied, Within
<1>7. Over' BY <1>4, <1>6 DEF Over
<1>8. ~Entering(c)' /\ ~Replying(c)' /\ ~Reacting(c)'
  BY <1>1 DEF Entering, Replying, Reacting
<1>9. TabOK(c)' BY <1>1, <1>7, <1>8 DEF TabOK, Untouched
<1>10. ListOK(c)' BY <1>1 DEF Here, ListOK
<1> QED BY <1>9, <1>10

LEMMA TabInsertTurn ==
    ASSUME NEW c, OneTab(c), Here(c), InsertTurn(c)
    PROVE  TabOK(c)' /\ ListOK(c)'
<1>1. turn[c].kind \in {"question", "follow_up", "answer", "closing"}
  BY DEF OneTab, Workers, Here, TypeInv, LocalOK, Turn
<1> QED BY <1>1, TabOpening, TabAnswered, TabAsked, TabClosed

LEMMA TabSaveState ==
    ASSUME NEW c, OneTab(c), Here(c), SaveState(c)
    PROVE  TabOK(c)' /\ ListOK(c)'
<1>1. /\ pc[c] = "save" /\ pc'[c] = "idle" /\ live' = Pending(c)
      /\ UNCHANGED <<turns, questions>>
  BY ReturnHere DEF SaveState, db, Here
<1>2. Open /\ Matches(Pending(c)) BY <1>1 DEF Here, TabOK
<1>3. Open' /\ Matches(live)'
  BY <1>1, <1>2, SameTranscript
<1>4. Settled' BY <1>3 DEF Settled, Awaiting
<1>5. ~Entering(c)' /\ ~Replying(c)' /\ ~Reacting(c)'
  BY <1>1 DEF Entering, Replying, Reacting
<1>6. TabOK(c)' BY <1>1, <1>4, <1>5 DEF TabOK
<1>7. ListOK(c)' BY <1>1 DEF Here, ListOK
<1> QED BY <1>6, <1>7

LEMMA TabCompleteSession ==
    ASSUME NEW c, OneTab(c), Here(c), CompleteSession(c)
    PROVE  TabOK(c)' /\ ListOK(c)'
<1>1. pc[c] = "complete" /\ pc'[c] = "clear" /\ UNCHANGED <<turns, live, questions>>
  BY GotoHere DEF CompleteSession, Here
<1>2. Awaiting \/ Over BY <1>1 DEF Here, TabOK
<1>3. Awaiting' \/ Over' BY <1>1, <1>2, SameState, SameTranscript
<1>4. ~Entering(c)' /\ ~Replying(c)' /\ ~Reacting(c)'
  BY <1>1 DEF Entering, Replying, Reacting
<1>5. TabOK(c)' BY <1>1, <1>3, <1>4 DEF TabOK, Untouched
<1>6. ListOK(c)' BY <1>1 DEF Here, ListOK
<1> QED BY <1>5, <1>6

LEMMA TabClearState ==
    ASSUME NEW c, OneTab(c), Here(c), ClearState(c)
    PROVE  TabOK(c)' /\ ListOK(c)'
<1>1. pc[c] = "clear" /\ live' = NoLive /\ UNCHANGED <<turns, questions>>
  BY DEF ClearState, db, OneTab
<1>2. pc'[c] \in {"idle", "hasfb"}
  BY GotoHere, ReturnHere DEF ClearState, Here
<1>3. Awaiting \/ Over BY <1>1 DEF Here, TabOK
<1>4. Open' \/ Over' BY <1>1, <1>3, SameTranscript DEF Awaiting
<1>5. Settled' BY <1>1, <1>4 DEF Settled, Awaiting
<1>6. ~Entering(c)' /\ ~Replying(c)' /\ ~Reacting(c)'
  BY <1>2 DEF Entering, Replying, Reacting
<1>7. TabOK(c)' BY <1>2, <1>5, <1>6 DEF TabOK
<1>8. ListOK(c)' BY <1>1, <1>2 DEF Here, ListOK
<1> QED BY <1>7, <1>8

LEMMA TabEvaluation ==
    ASSUME NEW c, OneTab(c), Here(c),
           HasFeedback(c) \/ Evaluate(c) \/ SaveEvaluation(c) \/ Broadcast(c)
    PROVE  TabOK(c)' /\ ListOK(c)'
<1>1. /\ pc[c] \in {"hasfb", "evaluate", "savefb", "notify"}
      /\ UNCHANGED <<turns, live, questions>>
  BY DEF HasFeedback, Evaluate, SaveEvaluation, Broadcast, db
<1>2. Settled BY <1>1 DEF Here, TabOK, Untouched
<1>3. pc'[c] \in {"evaluate", "savefb", "notify", "idle"}
  BY GotoHere, ReturnHere DEF HasFeedback, Evaluate, SaveEvaluation, Broadcast, Here
<1> QED BY <1>1, <1>2, <1>3, Rests DEF Untouched, Entering

(* A deleted session stays empty. *)
LEMMA OwnRow ==
    ASSUME NEW c, OneTab(c), Course,
           \/ BeginLive(c) \/ HandleAnswer(c) \/ SkipQuestion(c) \/ Disconnect(c)
           \/ Step(c)
    PROVE  (RowExists' <=> RowExists) /\ (~RowExists => UNCHANGED turns)
<1>1. c \in Workers /\ c \notin Callers
  BY SessionAssumption DEF SessionAssumption, OneTab, Workers
<1>2. ~StartSession(c)
  BY <1>1 DEF StartSession, Course, InPlace
<1>3. CASE BeginLive(c) \/ HandleAnswer(c) \/ SkipQuestion(c) \/ Disconnect(c)
  BY <1>3 DEF BeginLive, HandleAnswer, SkipQuestion, Message, Disconnect, db,
              RowExists
<1>4. CASE \/ ListQuestions(c) \/ Reread(c) \/ ReconnectLive(c) \/ GetState(c)
           \/ Decide(c) \/ PickQuestion(c) \/ ReadMaxSeq(c) \/ SaveState(c)
           \/ ClearState(c) \/ HasFeedback(c) \/ Evaluate(c) \/ Broadcast(c)
  BY <1>4
  DEF ListQuestions, Reread, ReconnectLive, GetState, Decide, PickQuestion,
      ReadMaxSeq, SaveState, ClearState, HasFeedback, Evaluate, Broadcast, db,
      RowExists
<1>5. CASE \/ BeginSession(c) \/ MarkQuestionAsked(c) \/ InsertTurn(c)
           \/ CompleteSession(c) \/ SaveEvaluation(c)
  BY <1>5
  DEF BeginSession, CanBegin, MarkQuestionAsked, InsertTurn, CompleteSession,
      SaveEvaluation, RowExists
<1> QED BY <1>2, <1>3, <1>4, <1>5 DEF Step

LEMMA InitTab == ASSUME NEW c, OneTab(c) PROVE Init => TabInv(c)
<1> SUFFICES ASSUME Init PROVE TabInv(c) OBVIOUS
<1>1. c \in Workers BY DEF OneTab, Workers
<1>2. pc[c] = "idle" /\ turns = <<>> /\ live = NoLive
  BY <1>1 DEF Init
<1>3. TabOK(c)
  BY <1>2 DEF TabOK, Settled, Unopened, Entering, Replying, Reacting
<1>4. \/ questions = <<>>
      \/ \E n \in QuestionCounts : questions = Arrange(n, "bank")
  BY DEF Init
<1>5. /\ Len(questions) <= LongestInterview
      /\ \A i \in 1..Len(questions) : questions[i].kind = "self_intro" <=> i = 1
  <2>1. CASE questions = <<>>
    <3>1. Len(questions) = 0 BY <2>1
    <3> QED BY <3>1, Amounts
  <2>2. CASE \E n \in QuestionCounts : questions = Arrange(n, "bank")
    BY <2>2, ArrangedList, LongestBounds
  <2> QED BY <1>4, <2>1, <2>2
<1>6. ListOK(c) BY <1>2, <1>5 DEF ListOK
<1> QED BY <1>2, <1>3, <1>6 DEF TabInv

LEMMA NextTab ==
    ASSUME NEW c, OneTab(c)
    PROVE  TypeInv /\ TypeInv' /\ Course /\ Numbered /\ Asked /\ TabInv(c)
               /\ [Next]_vars => TabInv(c)'
<1> SUFFICES ASSUME TypeInv, TypeInv', Course, Numbered, Asked, TabInv(c),
                    [Next]_vars
             PROVE  TabInv(c)'
  OBVIOUS
<1>1. Conns = {c} /\ c \notin Unreliable /\ Workers = {c} \union Callers
  BY DEF OneTab, Workers
<1>2. CASE TimePasses \/ ExpireState \/ UNCHANGED vars
  BY <1>2, NobodyOutside, OutsideKeeps
<1>3. CASE \E h \in Callers : \/ Start(h) \/ ForceEnd(h) \/ Delete(h) \/ Retry(h)
                              \/ Step(h) \/ Fail(h)
  BY <1>3, CallersOutside, OutsideKeeps
<1>4. CASE \/ BeginLive(c) \/ HandleAnswer(c) \/ SkipQuestion(c) \/ Disconnect(c)
           \/ Step(c)
  <2>1. (RowExists' <=> RowExists) /\ (~RowExists => UNCHANGED turns)
    BY <1>4, OwnRow
  <2>2. CASE ~RowExists BY <2>1, <2>2 DEF TabInv
  <2>3. CASE RowExists
    <3>1. Here(c) BY <2>3 DEF Here, TabInv
    <3>2. ~StartSession(c)
      BY <1>1, SessionAssumption
      DEF SessionAssumption, StartSession, Course, InPlace
    <3>3. TabOK(c)' /\ ListOK(c)'
      BY <1>4, <3>1, <3>2, TabBeginLive, TabMessage, TabDisconnect,
         TabListQuestions, TabBeginSession, TabReread, TabReconnectLive,
         TabGetState, TabDecide, TabPickQuestion, TabMarkQuestionAsked,
         TabReadMaxSeq, TabInsertTurn, TabSaveState, TabCompleteSession,
         TabClearState, TabEvaluation
      DEF Step, HandleAnswer, SkipQuestion
    <3> QED BY <2>1, <2>3, <3>3 DEF TabInv
  <2> QED BY <2>2, <2>3
<1>5. ~Fail(c) BY <1>1 DEF Fail
<1> QED BY <1>1, <1>2, <1>3, <1>4, <1>5 DEF Next

------------------------------------------------------------------------------
(* The theorems. *)

(* Between two messages the live state in Redis agrees with the           *)
(* transcript in MySQL: number of turns, main question, follow-ups on it,  *)
(* and what reconnectLive would show as pending.                          *)
THEOREM LiveStateCorrect ==
    ASSUME NEW c, OneTab(c)
    PROVE  Spec => []LiveMatchesTranscript
<1>1. TabInv(c) => LiveMatchesTranscript
  <2> SUFFICES ASSUME TabInv(c), Quiet, RowExists, live # NoLive
               PROVE  Matches(live)
    BY DEF LiveMatchesTranscript, Matches, Counts
  <2>1. pc[c] = "idle" BY DEF OneTab, Workers, Quiet
  <2> QED
    BY <2>1 DEF TabInv, TabOK, Untouched, Settled, Unopened, Awaiting
<1>2. OneStarter BY DEF OneTab
<1> QED
  BY <1>1, <1>2, InitType, NextType, InitCourse, NextCourse, InitNumbered,
     NextNumbered, InitAsked, NextAsked, InitTab, NextTab, PTL
  DEF Spec

LEMMA SmallTranscript ==
    ASSUME NEW c, OneTab(c), TypeInv, TabInv(c)
    PROVE  turns = <<>> \/ (turns # <<>> /\ Within(2))
<1>1. CASE ~RowExists BY <1>1 DEF TabInv
<1>2. CASE RowExists
  <2>1. TabOK(c) /\ c \in Workers BY <1>2 DEF TabInv, OneTab, Workers
  <2>2. pc[c] \in Phases /\ Len(turns) \in Nat /\ MaxTurns \in Nat
    BY <2>1, Amounts DEF TypeInv, StoreOK, LocalOK
  <2>3. Within(0) \/ Within(1) => Within(2)
    BY <2>2, Amounts DEF Within
  <2>4. Unopened \/ Awaiting \/ Settled \/ Open \/ Replied \/ Over =>
            turns = <<>> \/ (turns # <<>> /\ Within(2))
    BY <2>3 DEF Unopened, Awaiting, Settled, Open, Replied, Over, Within
  <2>5. CASE pc[c] \in {"pick", "mark", "max", "insert"}
    <3>1. op[c] \in {"begin", "answer", "skip"}
      BY <2>1, <2>5 DEF TypeInv, Handlers, HandlerOK, Asking, Recording
    <3>2. Entering(c) \/ Replying(c) \/ Reacting(c)
      BY <2>5, <3>1 DEF Entering, Replying, Reacting
    <3> QED BY <2>1, <2>4, <3>2 DEF TabOK
  <2>6. CASE pc[c] = "decide"
    <3>1. Reacting(c)
      BY <2>1, <2>6 DEF Reacting, TypeInv, Handlers, HandlerOK
    <3> QED BY <2>1, <2>4, <3>1 DEF TabOK
  <2>7. CASE pc[c] \in Untouched \union {"save", "complete", "clear"}
    BY <2>1, <2>4, <2>7 DEF TabOK
  <2> QED BY <2>2, <2>5, <2>6, <2>7 DEF Phases, Untouched
<1> QED BY <1>1, <1>2

(* MaxTurns bounds the transcript: the answer that reaches the limit and   *)
(* the closing come on top of it, and so do the skipped questions, which   *)
(* SkipQuestion does not count against it.                                *)
THEOREM TranscriptCorrect ==
    ASSUME NEW c, OneTab(c)
    PROVE  Spec => []TranscriptBounded
<1>1. TypeInv /\ TabInv(c) => TranscriptBounded
  <2> SUFFICES ASSUME TypeInv, TabInv(c) PROVE TranscriptBounded OBVIOUS
  <2>1. Len(turns) \in Nat /\ LongestInterview \in Nat /\ MaxTurns \in Nat
    BY Amounts DEF TypeInv, StoreOK
  <2>2. CASE turns = <<>>
    <3>1. Len(turns) = 0 BY <2>2
    <3> QED BY <2>1, <3>1 DEF TranscriptBounded
  <2>3. CASE Within(2)
    BY <2>1, <2>3 DEF Within, TranscriptBounded
  <2> QED BY <2>2, <2>3, SmallTranscript
<1>2. OneStarter BY DEF OneTab
<1> QED
  BY <1>1, <1>2, InitType, NextType, InitCourse, NextCourse, InitNumbered,
     NextNumbered, InitAsked, NextAsked, InitTab, NextTab, PTL
  DEF Spec
------------------------------------------------------------------------------
(* The transcript as a dialogue.  Every INSERT is a step of the dialogue,  *)
(* the deletion is one, and nothing else is.                              *)

LEMMA SpokenLast ==
    /\ RowExists /\ turns # <<>> =>
          /\ LastKind = "answer" => DialoguePhase = "deciding"
          /\ LastKind = "closing" => DialoguePhase = "over"
          /\ LastKind \in {"question", "follow_up"} => DialoguePhase = "waiting"
    /\ RowExists /\ turns = <<>> => DialoguePhase = "lobby"
    /\ ~RowExists => DialoguePhase = "gone"
  BY DEF DialoguePhase, LastKind

LEMMA SpokenLastNext ==
    /\ RowExists' /\ turns' # <<>> =>
          /\ LastKind' = "answer" => DialoguePhase' = "deciding"
          /\ LastKind' = "closing" => DialoguePhase' = "over"
          /\ LastKind' \in {"question", "follow_up"} => DialoguePhase' = "waiting"
    /\ ~RowExists' => DialoguePhase' = "gone"
  BY DEF DialoguePhase, LastKind

LEMMA EmptyTranscriptNext ==
    ASSUME turns' = <<>>
    PROVE  Mains' = 0 /\ FollowUps' = 0
<1>1. Mains' = MainsIn(turns') /\ FollowUps' = FollowUpsIn(turns')
  BY DEF Mains, MainsIn, FollowUps, FollowUpsIn
<1> QED BY <1>1, Nothing

DialogueVars == <<DialoguePhase, Mains, FollowUps>>

LEMMA SilentSteps ==
    ASSUME UNCHANGED turns, RowExists' <=> RowExists
    PROVE  UNCHANGED DialogueVars
  BY SameTranscript DEF DialoguePhase, DialogueVars

LEMMA OutsideDialogue ==
    ASSUME NEW c, TabInv(c), Outside(c)
    PROVE  Dialogue!Remove \/ UNCHANGED DialogueVars
<1>1. CASE RowExists' BY <1>1, SilentSteps DEF Outside
<1>2. CASE ~RowExists' /\ RowExists
  <2>1. turns' = <<>> BY <1>2 DEF Outside
  <2>2. Mains' = 0 /\ FollowUps' = 0 BY <2>1, EmptyTranscriptNext
  <2>3. DialoguePhase # "gone" BY <1>2 DEF DialoguePhase
  <2>4. DialoguePhase' = "gone" BY <1>2, SpokenLastNext
  <2> QED BY <2>2, <2>3, <2>4 DEF Dialogue!Remove
<1>3. CASE ~RowExists' /\ ~RowExists
  <2>1. turns = <<>> /\ UNCHANGED turns BY <1>3 DEF TabInv, Outside
  <2> QED BY <1>3, <2>1, SilentSteps
<1> QED BY <1>1, <1>2, <1>3

LEMMA OwnTurns ==
    ASSUME NEW c, ~InsertTurn(c),
           \/ BeginLive(c) \/ HandleAnswer(c) \/ SkipQuestion(c) \/ Disconnect(c)
           \/ Step(c)
    PROVE  UNCHANGED turns
<1>1. CASE BeginLive(c) \/ HandleAnswer(c) \/ SkipQuestion(c) \/ Disconnect(c)
  BY <1>1 DEF BeginLive, HandleAnswer, SkipQuestion, Message, Disconnect, db
<1>2. CASE Step(c)
  BY <1>2
  DEF Step, ListQuestions, Reread, ReconnectLive, GetState, Decide,
      PickQuestion, ReadMaxSeq, SaveState, ClearState, HasFeedback, Evaluate,
      Broadcast, BeginSession, MarkQuestionAsked, CompleteSession,
      SaveEvaluation, StartSession, db
<1> QED BY <1>1, <1>2

LEMMA InsertDialogue ==
    ASSUME NEW c, OneTab(c), Here(c), InsertTurn(c)
    PROVE  Dialogue!Ask \/ Dialogue!Answer \/ Dialogue!FollowUp \/ Dialogue!Close
<1>1. /\ turns' = Append(turns, turn[c]) /\ turn[c] \in Turn /\ pc[c] = "insert"
  BY Inserted
<1>2. /\ turns' # <<>> /\ LastKind' = turn[c].kind
      /\ Mains \in Nat /\ FollowUps \in Nat
      /\ Mains' = Mains + (IF turn[c].kind = "question" THEN 1 ELSE 0)
      /\ FollowUps' = IF turn[c].kind = "question" THEN 0
                      ELSE FollowUps + (IF turn[c].kind = "follow_up" THEN 1 ELSE 0)
  BY <1>1, Grown DEF Here
<1>3. RowExists /\ RowExists'
  BY DEF Here, InsertTurn, RowExists
<1>4. c \in Workers /\ op[c] \in {"begin", "answer", "skip"}
  BY <1>1
  DEF OneTab, Workers, Here, TypeInv, Handlers, HandlerOK, Asking, Recording
<1>5. op[c] # "begin" => mine[c] \in LiveState /\ mine[c].qi \in Nat
  BY <1>1, <1>4
  DEF Here, TypeInv, Handlers, HandlerOK, Asking, Recording, LiveState
<1>6. LongestInterview \in Nat /\ FollowUpCap \in Int
  BY Amounts, DecideAssumption DEF DecideAssumption, FollowUpCap, LegacyLimit
<1>7. CASE op[c] = "begin"
  <2>1. turn[c].kind = "question" /\ turn[c].text = 1
    BY <1>1, <1>4, <1>7
    DEF Here, TypeInv, Handlers, HandlerOK, Recording, QuestionTurn
  <2>2. turns = <<>> BY <1>1, <1>7 DEF Here, TabOK, Entering, Unopened
  <2>3. Mains = 0 /\ DialoguePhase = "lobby"
    BY <1>3, <2>2, EmptyTranscript, SpokenLast
  <2>4. 0 < LongestInterview BY <1>1, <1>6, <2>1, QuestionInRange
  <2>5. DialoguePhase' = "waiting" /\ Mains' = Mains + 1 /\ FollowUps' = 0
    BY <1>2, <1>3, <2>1, SpokenLastNext
  <2> QED BY <2>3, <2>4, <2>5 DEF Dialogue!Ask
<1>8. CASE turn[c].kind = "answer"
  <2>1. op[c] = "answer" BY <1>1, <1>4, <1>8, CountedType DEF Here
  <2>2. Open BY <1>1, <1>8, <2>1 DEF Here, TabOK, Replying
  <2>3. DialoguePhase = "waiting"
    BY <1>3, <2>2, SpokenLast DEF Open, Within
  <2>4. DialoguePhase' = "deciding" BY <1>2, <1>3, <1>8, SpokenLastNext
  <2>5. UNCHANGED <<Mains, FollowUps>> BY <1>2, <1>8
  <2> QED BY <2>3, <2>4, <2>5 DEF Dialogue!Answer
<1>9. CASE op[c] # "begin" /\ turn[c].kind = "question"
  <2>1. (Open \/ Replied) /\ Counts(mine[c])
    BY <1>1, <1>4, <1>9 DEF Here, TabOK, Replying, Reacting, Matches
  <2>2. DialoguePhase \in {"waiting", "deciding"} /\ Mains >= 1
    BY <1>3, <2>1, <1>6, SpokenLast DEF Open, Replied, Within
  <2>3. mine[c].qi + 1 = Mains /\ mine[c].qi + 2 <= LongestInterview
    BY <1>1, <1>9, <2>1, QuestionInRange DEF NextSeq, Counts
  <2>4. Mains < LongestInterview BY <1>5, <1>6, <1>9, <2>3
  <2>5. DialoguePhase' = "waiting" /\ Mains' = Mains + 1 /\ FollowUps' = 0
    BY <1>2, <1>3, <1>9, SpokenLastNext
  <2>6. Mains # 0 BY <1>2, <2>2
  <2> QED BY <2>2, <2>4, <2>5, <2>6 DEF Dialogue!Ask
<1>10. CASE turn[c].kind = "follow_up"
  <2>1. op[c] = "answer"
    BY <1>1, <1>4, <1>10
    DEF Here, TypeInv, Handlers, HandlerOK, Recording, QuestionTurn
  <2>2. Reacting(c) BY <1>1, <1>10, <2>1 DEF Reacting
  <2>3. /\ Replied /\ Counts(mine[c])
        /\ mine[c].qi >= 1 /\ mine[c].fu < FollowUpCap
    BY <1>1, <1>10, <2>2 DEF Here, TabOK
  <2>4. DialoguePhase = "deciding"
    BY <1>3, <2>3, SpokenLast DEF Replied, Within
  <2>5. Mains > 1 /\ FollowUps < FollowUpCap
    BY <1>2, <1>5, <2>1, <2>3 DEF Counts
  <2>6. DialoguePhase' = "waiting" /\ FollowUps' = FollowUps + 1 /\ Mains' = Mains
    BY <1>2, <1>3, <1>10, SpokenLastNext
  <2> QED BY <2>4, <2>5, <2>6 DEF Dialogue!FollowUp
<1>11. CASE turn[c].kind = "closing"
  <2>1. op[c] = "answer"
    BY <1>1, <1>4, <1>11
    DEF Here, TypeInv, Handlers, HandlerOK, Recording, QuestionTurn
  <2>2. Replied BY <1>1, <1>11, <2>1 DEF Here, TabOK, Reacting
  <2>3. DialoguePhase = "deciding"
    BY <1>3, <2>2, SpokenLast DEF Replied, Within
  <2>4. DialoguePhase' = "over" BY <1>2, <1>3, <1>11, SpokenLastNext
  <2>5. UNCHANGED <<Mains, FollowUps>> BY <1>2, <1>11
  <2> QED BY <2>3, <2>4, <2>5 DEF Dialogue!Close
<1>12. turn[c].kind \in {"question", "follow_up", "answer", "closing"}
  BY <1>1 DEF Turn
<1> QED BY <1>7, <1>8, <1>9, <1>10, <1>11, <1>12

LEMMA DialogueStep ==
    ASSUME NEW c, OneTab(c)
    PROVE  TypeInv /\ TypeInv' /\ Course /\ Numbered /\ Asked /\ TabInv(c)
               /\ [Next]_vars => [Dialogue!Next]_DialogueVars
<1> SUFFICES ASSUME TypeInv, TypeInv', Course, Numbered, Asked, TabInv(c),
                    [Next]_vars
             PROVE  Dialogue!Next \/ UNCHANGED DialogueVars
  OBVIOUS
<1>1. Conns = {c} /\ c \notin Unreliable /\ Workers = {c} \union Callers
  BY DEF OneTab, Workers
<1>2. CASE \/ TimePasses \/ ExpireState \/ UNCHANGED vars
           \/ \E h \in Callers : \/ Start(h) \/ ForceEnd(h) \/ Delete(h)
                                 \/ Retry(h) \/ Step(h) \/ Fail(h)
  BY <1>2, NobodyOutside, CallersOutside, OutsideDialogue DEF Dialogue!Next
<1>3. CASE \/ BeginLive(c) \/ HandleAnswer(c) \/ SkipQuestion(c) \/ Disconnect(c)
           \/ Step(c)
  <2>1. (RowExists' <=> RowExists) /\ (~RowExists => UNCHANGED turns)
    BY <1>3, OwnRow
  <2>2. CASE InsertTurn(c) /\ RowExists
    <3>1. Here(c) BY <2>2 DEF Here, TabInv
    <3> QED BY <2>2, <3>1, InsertDialogue DEF Dialogue!Next
  <2>3. CASE ~InsertTurn(c) \/ ~RowExists
    BY <1>3, <2>1, <2>3, OwnTurns, SilentSteps
  <2> QED BY <2>2, <2>3
<1>4. ~Fail(c) BY <1>1 DEF Fail
<1> QED BY <1>1, <1>2, <1>3, <1>4 DEF Next

(* The transcript grows only as the conversation of the design allows:    *)
(* main questions in order, answers to what was asked, no follow-up on the *)
(* self-introduction and no more than the persona allows on another        *)
(* question, and nothing after the closing.                               *)
THEOREM DialogueImplemented ==
    ASSUME NEW c, OneTab(c)
    PROVE  Spec => ImplementsDialogue
<1>1. Init => Dialogue!Init
  <2> SUFFICES ASSUME Init PROVE Dialogue!Init OBVIOUS
  <2>1. RowExists /\ turns = <<>> BY DEF Init, RowExists
  <2> QED BY <2>1, SpokenLast, EmptyTranscript DEF Dialogue!Init
<1>2. OneStarter BY DEF OneTab
<1>3. TypeInv /\ TypeInv' /\ Course /\ Numbered /\ Asked /\ TabInv(c)
          /\ [Next]_vars => [Dialogue!Next]_<<DialoguePhase, Mains, FollowUps>>
  BY DialogueStep DEF DialogueVars
<1> QED
  BY <1>1, <1>2, <1>3, InitType, NextType, InitCourse, NextCourse,
     InitNumbered, NextNumbered, InitAsked, NextAsked, InitTab, NextTab, PTL
  DEF Spec, ImplementsDialogue, Dialogue!Spec

=============================================================================
