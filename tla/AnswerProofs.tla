----------------------------- MODULE AnswerProofs ----------------------------
(***************************************************************************)
(* Theorems about the traffic of RoomSystem, for any number of sockets,       *)
(* answers and questions: every variable has its type, no answer is dropped    *)
(* by the page or given twice, and the page shows the question that the        *)
(* server waits on.                                                          *)
(*                                                                         *)
(* The bound on what is said must count the recordings still on their way to   *)
(* the page. Where an answer is depends on whether the connection takes it,    *)
(* so the queue of a connection that is not in the room must be empty, and     *)
(* the only connection a page in the room has must be the one it uses.         *)
(***************************************************************************)
EXTENDS VoiceProofs, SequenceTheorems

\* What has been said, is being said or is being recognised.
Spoken ==
  answers + asr.stopped + mic.asking + One(mic.held) + One(asr.retrying) <= MaxAnswers
\* The parts of TypeOK about the page, and about the traffic.
PageTypes ==
  /\ can \in Scenarios
  /\ place \in {"loading", "room", "report", "history", "login"}
  /\ token \in BOOLEAN
  /\ view \in [done : BOOLEAN, fatal : BOOLEAN, disconnected : BOOLEAN, error : BOOLEAN,
               thinking : BOOLEAN, paused : BOOLEAN, current : 0..Texts,
               phase : {"idle", "recording", "transcribing", "sending"}]
  /\ retry \in [timer : BOOLEAN, attempt : 0..Retries]
  /\ ending \in [shown : BOOLEAN, call : {"none", "sent", "late", "ok", "refused"}]
TrafficTypes ==
  /\ wire \in [Sockets -> {"none", "dialing", "in", "fin", "cut"}]
  /\ inbox \in [Sockets -> Seq(ServerMsg)] /\ outbox \in [Sockets -> Seq(ClientMsg)]
  /\ pending \in Seq(Answer)
  /\ answers \in 0..MaxAnswers /\ lost \subseteq 1..MaxAnswers
  /\ srv \in [phase : {"ready", "in_progress", "completed"}, text : 0..Texts, log : Seq(Answer)]
VoiceTypes ==
  /\ avatar \in [enabled : BOOLEAN, status : AvatarStatus] /\ muted \in BOOLEAN
  /\ element \in Readings \cup {0} /\ sounding \subseteq Readings
  /\ rejecter \in Readings \cup {0}

Older == CameraInv /\ LineInv /\ MicInv /\ SpeechInv
RoomInv == Older /\ Spoken /\ PageTypes /\ TrafficTypes /\ VoiceTypes

LEMMA RoomInvIsTypeOK == RoomInv => TypeOK
<1> SUFFICES ASSUME RoomInv PROVE TypeOK
  OBVIOUS
<1>1. mic.asking \in 0..MaxAnswers /\ asr.stopped \in 0..MaxAnswers
  BY RoomAssumption DEF RoomInv, Older, MicInv, MicType, Spoken, One, TrafficTypes
<1>2. mic \in [asking : 0..MaxAnswers, pressed : BOOLEAN, held : BOOLEAN, leaked : BOOLEAN,
               active : BOOLEAN, cancel : BOOLEAN]
  BY <1>1 DEF RoomInv, Older, MicInv, MicType
<1>3. asr \in [stopped : 0..MaxAnswers, retrying : BOOLEAN, failed : BOOLEAN]
  BY <1>1 DEF RoomInv, Older, MicInv, MicType
<1>4. sock \in [Sockets -> {"closed", "connecting", "open", "closing"}] /\ cur \in Sockets \cup {0}
  BY DEF RoomInv, Older, LineInv, LineType
<1>5. SpeechType /\ CameraType
  BY DEF RoomInv, Older, SpeechInv, SpeechType, Calls, CameraInv, VoiceTypes
<1>6. QED BY <1>2, <1>3, <1>4, <1>5 DEF RoomInv, PageTypes, TrafficTypes, TypeOK

-----------------------------------------------------------------------------
(* What is said. *)

LEMMA SaidSame ==
  ASSUME Spoken, MicType, answers \in Nat, MicType',
         answers' = answers, asr'.stopped = asr.stopped, asr'.retrying = asr.retrying,
         mic'.asking = mic.asking, mic'.held => mic.held
  PROVE  Spoken'
  BY RoomAssumption DEF Spoken, One, MicType

LEMMA NextSpoken ==
  ASSUME RoomInv, [Next]_vars
  PROVE  Spoken'
<1>1. MicType /\ MicType' /\ answers \in Nat
  BY NextMic DEF RoomInv, Older, MicInv, TrafficTypes
<1>2. CASE StartRecording
  <2>1. CASE Recording
    BY <1>1, <1>2, <2>1, SaidSame DEF StartRecording, RoomInv, MicType, lineVars
  <2>2. CASE ~Recording
    <3>1. /\ mic' = [mic EXCEPT !.pressed = TRUE, !.active = TRUE, !.cancel = FALSE,
                                !.asking = @ + 1]
          /\ asr' = [asr EXCEPT !.failed = FALSE] /\ MaySpeak /\ answers' = answers
      BY <1>2, <2>2 DEF StartRecording, lineVars
    <3>2. /\ mic'.asking = mic.asking + 1 /\ mic'.held = mic.held
          /\ asr'.stopped = asr.stopped /\ asr'.retrying = asr.retrying
      BY <1>1, <3>1 DEF MicType
    <3>3. QED BY <1>1, <3>1, <3>2, RoomAssumption DEF MaySpeak, Spoken, One, MicType
  <2>3. QED BY <2>1, <2>2
<1>3. CASE MicReady
  <2>1. UNCHANGED <<answers, asr>> /\ mic.asking > 0 /\ mic'.asking = mic.asking - 1
    BY <1>1, <1>3 DEF MicReady, Forgotten, MicType, lineVars
  <2>2. QED BY <1>1, <2>1, RoomAssumption DEF RoomInv, Spoken, One, MicType
<1>4. CASE MicDenied
  <2>1. /\ UNCHANGED <<answers, asr>> /\ mic.asking > 0 /\ mic'.asking = mic.asking - 1
        /\ mic'.held = mic.held
    BY <1>1, <1>4 DEF MicDenied, MicType, lineVars
  <2>2. QED BY <1>1, <2>1, RoomAssumption DEF RoomInv, Spoken, One, MicType
<1>5. CASE StopRecording
  <2>1. CASE mic.held
    <3>1. /\ mic' = [mic EXCEPT !.pressed = FALSE, !.held = FALSE]
          /\ asr' = [asr EXCEPT !.stopped = @ + 1] /\ answers' = answers
      BY <1>5, <2>1 DEF StopRecording, lineVars
    <3>2. /\ mic'.asking = mic.asking /\ ~mic'.held
          /\ asr'.stopped = asr.stopped + 1 /\ asr'.retrying = asr.retrying
      BY <1>1, <3>1 DEF MicType
    <3>3. QED BY <1>1, <2>1, <3>1, <3>2, RoomAssumption DEF RoomInv, Spoken, One, MicType
  <2>2. CASE ~mic.held
    BY <1>1, <1>5, <2>2, SaidSame DEF StopRecording, RoomInv, MicType, lineVars
  <2>3. QED BY <2>1, <2>2
<1>6. CASE Recognised
  <2>1. /\ asr.stopped > 0 /\ asr'.stopped = asr.stopped - 1 /\ asr'.retrying = asr.retrying
        /\ mic'.asking = mic.asking /\ mic'.held = mic.held
    BY <1>1, <1>6 DEF Recognised, MicType
  <2>2. answers' = answers \/ answers' = answers + 1
    BY <1>6 DEF Recognised, SubmitOrNot, Submit, lineVars
  <2>3. QED BY <1>1, <2>1, <2>2, RoomAssumption DEF RoomInv, Spoken, One, MicType
<1>7. CASE RetryAsr
  BY <1>1, <1>7, RoomAssumption DEF RetryAsr, MaySpeak, RoomInv, Spoken, One, MicType, lineVars
<1>8. CASE RetryRecognised
  <2>1. /\ asr.retrying /\ asr'.stopped = asr.stopped /\ asr'.retrying = FALSE
        /\ UNCHANGED mic
    BY <1>1, <1>8 DEF RetryRecognised, MicType
  <2>2. answers' = answers \/ answers' = answers + 1
    BY <1>8 DEF RetryRecognised, SubmitOrNot, Submit, lineVars
  <2>3. QED BY <1>1, <2>1, <2>2, RoomAssumption DEF RoomInv, Spoken, One, MicType
<1>9. CASE DiscardAudio
  BY <1>1, <1>9, SaidSame DEF DiscardAudio, RoomInv, MicType, lineVars
<1>10. CASE ForceEnd
  BY <1>1, <1>10, SaidSame DEF ForceEnd, RoomInv, MicType, lineVars
<1>11. CASE \E rs, to : LeaveFrom(rs, to) /\ UNCHANGED <<answers, asr>>
  BY <1>1, <1>11, SaidSame DEF LeaveFrom, RoomInv, MicType
<1>12. CASE UNCHANGED <<answers, asr, mic>>
  BY <1>12 DEF RoomInv, Spoken
<1>13. CASE Candidate
  BY <1>2, <1>5, <1>7, <1>9, <1>10, <1>11, <1>12, <1>13
     DEF Candidate, GoBack, LoggedOut, Leave, LeaveAlone, TokenRemoved, Reconnect, SkipQuestion,
         TogglePause, Replay, Switch, lineVars, voiceVars
<1>14. CASE \E i \in Sockets : OnMessage(i)
  BY <1>11, <1>12, <1>14 DEF OnMessage, OnSessionStarted, OnQuestion, OnStatus, OnError, OnDone,
         OnClosing, Receive, Leave
<1>15. CASE Browser
  BY <1>3, <1>6, <1>8, <1>11, <1>12, <1>14, <1>15
     DEF Browser, Load, RetryTimer, EndReturns, EndFails, AvatarLoads, SocketClosed, Speaking,
         AfterClosing, Leave, lineVars, voiceVars
<1>16. CASE Server \/ Watching \/ LoadFails \/ (\E i \in Sockets : Cut(i)) \/ UNCHANGED vars
  BY <1>12, <1>16 DEF Server, Accept, Unanswered, HangUp, ServerReads, ServerEnds, ServerAlone,
         Watching, LoadFails, Cut, lineVars, voiceVars, vars
<1>17. QED BY <1>4, <1>13, <1>15, <1>16 DEF Next

-----------------------------------------------------------------------------
(* The page. *)

Views ==
  [done : BOOLEAN, fatal : BOOLEAN, disconnected : BOOLEAN, error : BOOLEAN,
   thinking : BOOLEAN, paused : BOOLEAN, current : 0..Texts,
   phase : {"idle", "recording", "transcribing", "sending"}]
Attempts == [timer : BOOLEAN, attempt : 0..Retries]

LEMMA ViewForms ==
  ASSUME NEW v \in Views
  PROVE  /\ Resting(v) \in Views /\ Disconnected(v) \in Views
         /\ \A t \in 0..Texts : Asked(v, t) \in Views
         /\ [v EXCEPT !.error = TRUE] \in Views
         /\ [v EXCEPT !.disconnected = FALSE, !.error = FALSE, !.fatal = FALSE] \in Views
  BY DEF Views, Resting, Disconnected, Asked

LEMMA ConnectPage ==
  ASSUME PageTypes, NEW attempt \in 0..Retries, ConnectWithRetry(attempt)
  PROVE  view' \in Views /\ retry' \in Attempts
<1>1. view \in Views
  BY DEF PageTypes, Views
<1>2. \/ view' = [view EXCEPT !.error = TRUE]
      \/ view' = [view EXCEPT !.disconnected = FALSE, !.error = FALSE, !.fatal = FALSE]
  BY DEF ConnectWithRetry
<1>3. retry' = [timer |-> FALSE, attempt |-> attempt]
  BY DEF ConnectWithRetry
<1>4. view' \in Views
  BY <1>1, <1>2, ViewForms
<1>5. QED BY <1>3, <1>4 DEF Attempts

LEMMA ClosePage ==
  ASSUME PageTypes, OnClose
  PROVE  view' \in Views /\ retry' \in Attempts
<1>1. view \in Views /\ retry \in Attempts
  BY DEF PageTypes, Views, Attempts
<1>2. CASE UNCHANGED <<view, retry>>
  BY <1>1, <1>2
<1>3. CASE view' = Disconnected(view) /\ UNCHANGED retry
  BY <1>1, <1>3, ViewForms
<1>4. CASE ~GivesUp /\ view' = Resting(view) /\ retry' = [timer |-> TRUE, attempt |-> retry.attempt + 1]
  <2>1. retry.attempt + 1 \in 0..Retries
    BY <1>1, <1>4, RoomAssumption DEF GivesUp, Attempts
  <2>2. QED BY <1>1, <1>4, <2>1, ViewForms DEF Attempts
<1>5. QED BY <1>2, <1>3, <1>4 DEF OnClose

LEMMA NextView ==
  ASSUME PageTypes, TrafficTypes, [Next]_vars
  PROVE  view' \in Views
<1>1. view \in Views /\ retry \in Attempts /\ 0 \in 0..Retries
  BY RoomAssumption DEF PageTypes, Views, Attempts
<1>2. CASE Load \/ RetryTimer \/ Reconnect
  <2>1. \E attempt \in 0..Retries : ConnectWithRetry(attempt)
    BY <1>1, <1>2 DEF Load, RetryTimer, Reconnect, Attempts
  <2>2. QED BY <2>1, ConnectPage
<1>3. CASE \E i \in Sockets : SocketClosed(i)
  BY <1>3, ClosePage DEF SocketClosed
<1>4. CASE \E i \in Sockets : OnQuestion(i)
  <2>1. PICK i \in Sockets : OnQuestion(i)
    BY <1>4
  <2>2. Head(inbox[i]) \in ServerMsg
    BY <2>1 DEF OnQuestion, Receive, TrafficTypes
  <2>3. QED BY <1>1, <2>1, <2>2, ViewForms DEF OnQuestion, ServerMsg
<1>5. CASE \E i \in Sockets : OnSessionStarted(i) \/ OnStatus(i) \/ OnError(i) \/ OnDone(i) \/ OnClosing(i)
  <2>1. \/ view' = [view EXCEPT !.disconnected = FALSE, !.phase = "idle"]
        \/ view' = [view EXCEPT !.thinking = TRUE, !.phase = "idle"]
        \/ view' = [view EXCEPT !.thinking = FALSE]
        \/ view' = [Disconnected(view) EXCEPT !.fatal = TRUE]
        \/ view' = [Resting(view) EXCEPT !.done = TRUE]
    BY <1>5 DEF OnSessionStarted, OnStatus, OnError, OnDone, OnClosing
  <2>2. Disconnected(view) \in Views /\ Resting(view) \in Views
    BY <1>1, ViewForms, RoomAssumption
  <2>3. QED BY <1>1, <2>1, <2>2 DEF Views
<1>6. CASE Candidate /\ ~Reconnect
  <2>1. \/ UNCHANGED view
        \/ view' = [view EXCEPT !.error = FALSE, !.phase = "recording"]
        \/ view' = [view EXCEPT !.error = FALSE, !.phase = "idle"]
        \/ view' = [view EXCEPT !.phase = "transcribing"]
        \/ view' = [view EXCEPT !.paused = FALSE]
        \/ view' = [view EXCEPT !.paused = TRUE]
    BY <1>6 DEF Candidate, GoBack, LoggedOut, TokenRemoved, StartRecording, StopRecording, RetryAsr,
                DiscardAudio, SkipQuestion, TogglePause, Replay, Switch, ForceEnd
  <2>2. QED BY <1>1, <2>1 DEF Views
<1>7. CASE MicReady \/ MicDenied \/ Recognised \/ RetryRecognised \/ EndFails \/ EndReturns \/ LoadFails
  <2>1. \/ UNCHANGED view
        \/ view' = [view EXCEPT !.phase = "idle"]
        \/ view' = [view EXCEPT !.phase = "sending"]
        \/ view' = [view EXCEPT !.error = TRUE]
        \/ view' = [view EXCEPT !.done = TRUE]
    BY <1>7 DEF MicReady, MicDenied, Recognised, RetryRecognised, EndFails, EndReturns, LoadFails
  <2>2. QED BY <1>1, <2>1 DEF Views
<1>8. CASE \/ AvatarLoads \/ Server \/ Watching \/ (\E r \in Readings : Speaking(r) \/ AfterClosing(r))
           \/ (\E i \in Sockets : Cut(i)) \/ UNCHANGED vars
  BY <1>1, <1>8 DEF AvatarLoads, Server, Accept, Unanswered, HangUp, ServerReads, ServerEnds,
         ServerAlone, Watching, Speaking, AfterClosing, Cut, vars
<1>9. QED BY <1>2, <1>3, <1>4, <1>5, <1>6, <1>7, <1>8 DEF Next, Browser, OnMessage, Candidate

LEMMA NextRetry ==
  ASSUME PageTypes, [Next]_vars
  PROVE  retry' \in Attempts
<1>1. retry \in Attempts /\ 0 \in 0..Retries
  BY RoomAssumption DEF PageTypes, Attempts
<1>2. CASE Load \/ RetryTimer \/ Reconnect
  <2>1. \E attempt \in 0..Retries : ConnectWithRetry(attempt)
    BY <1>1, <1>2 DEF Load, RetryTimer, Reconnect, Attempts
  <2>2. QED BY <2>1, ConnectPage
<1>3. CASE \E i \in Sockets : SocketClosed(i)
  BY <1>3, ClosePage DEF SocketClosed
<1>4. CASE \/ UNCHANGED retry \/ retry' = [retry EXCEPT !.attempt = 0]
           \/ \E rs, to : LeaveFrom(rs, to)
  BY <1>1, <1>4 DEF LeaveFrom, Attempts
<1>5. CASE Candidate /\ ~Reconnect
  BY <1>4, <1>5 DEF Candidate, GoBack, LoggedOut, Leave, TokenRemoved, StartRecording, StopRecording,
         RetryAsr, DiscardAudio, SkipQuestion, TogglePause, Replay, Switch, ForceEnd, lineVars
<1>6. CASE \E i \in Sockets : OnMessage(i)
  BY <1>4, <1>6 DEF OnMessage, OnSessionStarted, OnQuestion, OnStatus, OnError, OnDone, OnClosing, Leave
<1>7. CASE MicReady \/ MicDenied \/ Recognised \/ RetryRecognised \/ EndFails \/ EndReturns \/ LoadFails
  BY <1>4, <1>7 DEF MicReady, MicDenied, Recognised, RetryRecognised, EndFails, EndReturns, LoadFails,
         SubmitOrNot, Submit, Leave, lineVars
<1>8. CASE \/ AvatarLoads \/ Server \/ Watching \/ (\E r \in Readings : Speaking(r) \/ AfterClosing(r))
           \/ (\E i \in Sockets : Cut(i)) \/ UNCHANGED vars
  BY <1>4, <1>8 DEF AvatarLoads, Server, Accept, Unanswered, HangUp, ServerReads, ServerEnds,
         ServerAlone, Watching, Speaking, AfterClosing, Cut, vars, lineVars
<1>9. QED BY <1>2, <1>3, <1>5, <1>6, <1>7, <1>8 DEF Next, Browser, Candidate

Places == {"loading", "room", "report", "history", "login"}
Endings == [shown : BOOLEAN, call : {"none", "sent", "late", "ok", "refused"}]

LEMMA NextRest ==
  ASSUME PageTypes, [Next]_vars
  PROVE  can' = can /\ token' \in BOOLEAN /\ place' \in Places /\ ending' \in Endings
<1>1. token \in BOOLEAN /\ place \in Places /\ ending \in Endings
  BY DEF PageTypes, Places, Endings
<1>2. CASE UNCHANGED <<can, token, place, ending>>
  BY <1>1, <1>2
<1>3. CASE UNCHANGED <<can, token, ending>> /\ place' \in Places
  BY <1>1, <1>3
<1>4. CASE UNCHANGED <<can, token, place>> /\ ending' \in Endings
  BY <1>1, <1>4
<1>5. CASE Candidate
  <2>1. CASE GoBack \/ LoggedOut
    BY <1>1, <2>1 DEF GoBack, LoggedOut, Leave, LeaveFrom, LeaveAlone, Places
  <2>2. CASE TokenRemoved
    BY <1>1, <2>2 DEF TokenRemoved
  <2>3. CASE ForceEnd
    BY <1>4, <2>3 DEF ForceEnd, Endings
  <2>4. CASE \/ Reconnect \/ StartRecording \/ StopRecording \/ RetryAsr \/ DiscardAudio
             \/ SkipQuestion \/ TogglePause \/ Replay \/ Switch
    BY <1>2, <2>4 DEF Reconnect, StartRecording, StopRecording, RetryAsr, DiscardAudio, SkipQuestion,
           TogglePause, Replay, Switch
  <2>5. QED BY <1>5, <2>1, <2>2, <2>3, <2>4 DEF Candidate
<1>6. CASE Browser
  <2>1. CASE Load \/ \E r \in Readings : AfterClosing(r)
    BY <1>1, <2>1 DEF Load, AfterClosing, LeaveFrom, Places
  <2>2. CASE \E i \in Sockets : OnMessage(i)
    BY <1>2, <1>3, <2>2 DEF OnMessage, OnSessionStarted, OnQuestion, OnStatus, OnError, OnDone,
           OnClosing, Receive, Leave, LeaveFrom, Places
  <2>3. CASE EndReturns
    <3>1. ending' = [shown |-> FALSE, call |-> "none"] /\ UNCHANGED <<can, token>>
      BY <2>3 DEF EndReturns
    <3>2. place' \in Places
      BY <1>1, <2>3 DEF EndReturns, Leave, LeaveFrom, Places
    <3>3. QED BY <1>1, <3>1, <3>2 DEF Endings
  <2>4. CASE EndFails
    <3>1. \E c \in {"late", "none"} : ending' = [shown |-> FALSE, call |-> c]
      BY <2>4 DEF EndFails
    <3>2. QED BY <1>4, <2>4, <3>1 DEF EndFails, Endings
  <2>5. CASE \/ RetryTimer \/ MicReady \/ Recognised \/ RetryRecognised \/ AvatarLoads
             \/ (\E i \in Sockets : SocketClosed(i)) \/ (\E r \in Readings : Speaking(r))
    BY <1>2, <2>5 DEF RetryTimer, MicReady, Recognised, RetryRecognised, AvatarLoads, SocketClosed,
           Speaking
  <2>6. QED BY <1>6, <2>1, <2>2, <2>3, <2>4, <2>5 DEF Browser
<1>7. CASE ServerEnds
  <2>1. \E c \in {"ok", "refused", "none"} : ending' = [ending EXCEPT !.call = c]
    BY <1>7 DEF ServerEnds
  <2>2. QED BY <1>1, <1>4, <1>7, <2>1 DEF ServerEnds, ServerAlone, Endings
<1>8. CASE \/ \E i \in Sockets : Accept(i) \/ Unanswered(i) \/ HangUp(i) \/ ServerReads(i) \/ Cut(i)
           \/ Watching \/ MicDenied \/ UNCHANGED vars
  BY <1>2, <1>8 DEF Accept, Unanswered, HangUp, ServerReads, ServerAlone, Cut, Watching, MicDenied, vars
<1>9. CASE LoadFails
  BY <1>3, <1>9 DEF LoadFails, Places
<1>10. QED BY <1>5, <1>6, <1>7, <1>8, <1>9 DEF Next, Server

LEMMA NextPage ==
  ASSUME PageTypes, TrafficTypes, [Next]_vars
  PROVE  PageTypes'
<1>1. view' \in Views /\ retry' \in Attempts
  BY NextView, NextRetry
<1>2. can' = can /\ token' \in BOOLEAN /\ place' \in Places /\ ending' \in Endings
  BY NextRest
<1>3. QED BY <1>1, <1>2 DEF PageTypes, Views, Attempts, Places, Endings

-----------------------------------------------------------------------------
(* The voice. *)

LEMMA StoppedVoice ==
  ASSUME VoiceTypes, NEW rs, StopVoiceOn(rs)
  PROVE  /\ element' \in Readings \cup {0} /\ sounding' \subseteq Readings
         /\ rejecter' \in Readings \cup {0}
  BY DEF VoiceTypes, StopVoiceOn

LEMMA LeftVoice ==
  ASSUME VoiceTypes, NEW rs, NEW to, LeaveFrom(rs, to)
  PROVE  VoiceTypes'
  BY StoppedVoice DEF VoiceTypes, LeaveFrom, DisposeVoice, AvatarStatus

LEMMA PlayedVoice ==
  ASSUME VoiceTypes, NEW r \in Readings, Play(r)
  PROVE  element' \in Readings \cup {0} /\ sounding' \subseteq Readings
  BY DEF VoiceTypes, Play

LEMMA SpeakingVoice ==
  ASSUME VoiceTypes, NEW r \in Readings, SpeechStep(r)
  PROVE  VoiceTypes'
<1>1. CASE Synthesised(r)
  BY <1>1, PlayedVoice DEF Synthesised, VoiceTypes
<1>2. CASE ReadingFails(r)
  BY <1>2 DEF ReadingFails, VoiceTypes
<1>3. CASE InitSettled(r)
  BY <1>3, PlayedVoice DEF InitSettled, VoiceTypes
<1>4. CASE Decoded(r)
  BY <1>4, PlayedVoice DEF Decoded, VoiceTypes
<1>5. CASE SegmentEnds(r)
  BY <1>5 DEF SegmentEnds, VoiceTypes
<1>6. QED BY <1>1, <1>2, <1>3, <1>4, <1>5 DEF SpeechStep

\* Of the candidate's actions, some stop the voice and the switches set it.
LEMMA CandidateVoice ==
  ASSUME VoiceTypes, Candidate
  PROVE  VoiceTypes'
<1>1. CASE GoBack \/ LoggedOut
  BY <1>1, LeftVoice DEF GoBack, LoggedOut, Leave
<1>2. CASE Switch
  <2>1. CASE ToggleMute
    BY <2>1, StoppedVoice DEF ToggleMute, Interrupt, VoiceTypes
  <2>2. CASE ToggleAvatar
    <3>1. avatar' \in [enabled : BOOLEAN, status : AvatarStatus]
      BY <2>2 DEF ToggleAvatar, VoiceTypes, AvatarStatus
    <3>2. QED BY <2>2, <3>1, StoppedVoice DEF ToggleAvatar, Interrupt, VoiceTypes
  <2>3. QED BY <1>2, <2>1, <2>2 DEF Switch
<1>3. CASE UNCHANGED <<muted, avatar>> /\ Interrupt
  BY <1>3, StoppedVoice DEF Interrupt, VoiceTypes
<1>4. CASE UNCHANGED <<muted, avatar, element, sounding, rejecter>>
  BY <1>4 DEF VoiceTypes
<1>5. CASE StartRecording \/ StopRecording \/ SkipQuestion \/ TogglePause \/ Replay \/ ForceEnd
  BY <1>3, <1>4, <1>5 DEF StartRecording, StopRecording, SkipQuestion, TogglePause, Replay, ForceEnd,
         Quiet, speechVars
<1>6. CASE TokenRemoved \/ Reconnect \/ RetryAsr \/ DiscardAudio
  BY <1>4, <1>6 DEF TokenRemoved, Reconnect, RetryAsr, DiscardAudio, speechVars
<1>7. QED BY <1>1, <1>2, <1>5, <1>6 DEF Candidate

LEMMA NextVoice ==
  ASSUME VoiceTypes, [Next]_vars
  PROVE  VoiceTypes'
<1>1. CASE \E rs, to : LeaveFrom(rs, to)
  BY <1>1, LeftVoice
<1>2. CASE UNCHANGED <<muted, avatar, element, sounding, rejecter>>
  BY <1>2 DEF VoiceTypes
<1>3. CASE Browser
  <2>1. CASE Load \/ AvatarLoads
    <3>1. \/ UNCHANGED avatar
          \/ \E s \in AvatarStatus : avatar' = [avatar EXCEPT !.status = s]
      BY <2>1 DEF Load, AvatarLoads, AvatarInit, AvatarStatus
    <3>2. UNCHANGED <<muted, element, sounding, rejecter>>
      BY <2>1 DEF Load, AvatarLoads, AvatarInit
    <3>3. QED BY <3>1, <3>2 DEF VoiceTypes
  <2>2. CASE \E i \in Sockets : SocketClosed(i)
    BY <1>2, <2>2, StoppedVoice DEF SocketClosed, OnClose, Quiet, StopVoice, VoiceTypes, speechVars
  <2>3. CASE \E i \in Sockets : OnMessage(i)
    BY <1>1, <1>2, <2>3 DEF OnMessage, OnSessionStarted, OnQuestion, OnStatus, OnError, OnDone,
           OnClosing, Leave, speechVars
  <2>4. CASE \E r \in Readings : Speaking(r)
    BY <2>4, SpeakingVoice DEF Speaking
  <2>5. CASE EndReturns \/ \E r \in Readings : AfterClosing(r)
    BY <1>1, <1>2, <2>5 DEF EndReturns, AfterClosing, Leave, speechVars
  <2>6. CASE RetryTimer \/ MicReady \/ Recognised \/ RetryRecognised \/ EndFails
    BY <1>2, <2>6 DEF RetryTimer, MicReady, Recognised, RetryRecognised, EndFails, speechVars
  <2>7. QED BY <1>3, <2>1, <2>2, <2>3, <2>4, <2>5, <2>6 DEF Browser
<1>4. CASE Server \/ Watching \/ LoadFails \/ MicDenied \/ (\E i \in Sockets : Cut(i)) \/ UNCHANGED vars
  BY <1>2, <1>4 DEF Server, Accept, Unanswered, HangUp, ServerReads, ServerEnds, ServerAlone,
         Watching, LoadFails, MicDenied, Cut, vars, speechVars
<1>5. QED BY <1>3, <1>4, CandidateVoice DEF Next

-----------------------------------------------------------------------------
(* The traffic. *)

LEMMA MessageTypes ==
  ASSUME NEW t \in {"session_started", "question", "thinking", "status", "closing", "error", "done"},
         NEW n \in 0..Texts
  PROVE  Msg(t, n) \in ServerMsg
  BY DEF Msg, ServerMsg

LEMMA PutTypes ==
  ASSUME TrafficTypes, NEW i \in Sockets, NEW ms \in Seq(ServerMsg)
  PROVE  Put(i, ms) \in [Sockets -> Seq(ServerMsg)]
<1>1. inbox[i] \o ms \in Seq(ServerMsg)
  BY ConcatProperties DEF TrafficTypes
<1>2. QED BY <1>1 DEF Put, TrafficTypes

LEMMA ToldTypes ==
  ASSUME TrafficTypes, NEW type \in {"closing", "done"}
  PROVE  Told(inbox, type) \in [Sockets -> Seq(ServerMsg)]
<1>1. Msg(type, 0) \in ServerMsg
  BY RoomAssumption, MessageTypes
<1>2. \A i \in Sockets : Append(inbox[i], Msg(type, 0)) \in Seq(ServerMsg)
  BY <1>1, AppendProperties DEF TrafficTypes
<1>3. QED BY <1>2 DEF Told, TrafficTypes

\* The sender of the last answer or skip is told to wait, after it was told of the end.
LEMMA EndToldTypes ==
  ASSUME TrafficTypes, NEW i \in Sockets, NEW type \in {"closing", "done"}
  PROVE  EndTold(i, type) \in [Sockets -> Seq(ServerMsg)]
<1>1. Told(inbox, type) \in [Sockets -> Seq(ServerMsg)]
  BY ToldTypes
<1>2. Msg("thinking", 0) \in ServerMsg
  BY RoomAssumption, MessageTypes
<1>3. Append(Told(inbox, type)[i], Msg("thinking", 0)) \in Seq(ServerMsg)
  BY <1>1, <1>2, AppendProperties
<1>4. QED BY <1>1, <1>3 DEF EndTold

LEMMA SubmitTypes ==
  ASSUME TrafficTypes, cur \in Sockets \cup {0}, view.current \in 0..Texts,
         answers + 1 <= MaxAnswers, Submit, UNCHANGED srv
  PROVE  TrafficTypes'
<1> DEFINE a == [n |-> answers + 1, text |-> view.current]
           m == [type |-> "answer", a |-> a]
<1>1. answers + 1 \in 1..MaxAnswers /\ a \in Answer
  BY RoomAssumption DEF TrafficTypes, Answer
<1>2. m \in ClientMsg
  BY <1>1 DEF ClientMsg
<1>3. Append(pending, a) \in Seq(Answer)
  BY <1>1, AppendProperties DEF TrafficTypes
<1>4. \A i \in Sockets : Append(outbox[i], m) \in Seq(ClientMsg)
  BY <1>2, AppendProperties DEF TrafficTypes
<1>5. Sent(outbox, m) \in [Sockets -> Seq(ClientMsg)]
  BY <1>4 DEF Sent, TrafficTypes
<1>6. Losing(<<a>>) \subseteq 1..MaxAnswers
  <2>1. \A k \in DOMAIN <<a>> : <<a>>[k].n = answers + 1
    OBVIOUS
  <2>2. QED BY <1>1, <2>1 DEF Losing, TrafficTypes
<1>7. /\ answers' = answers + 1 /\ UNCHANGED <<wire, inbox>>
      /\ answers' \in 0..MaxAnswers
  BY <1>1 DEF Submit
<1>8. CASE CanSend
  <2>1. outbox' = Sent(outbox, m) /\ lost' = Losing(<<a>>) /\ UNCHANGED pending
    BY <1>8 DEF Submit
  <2>2. QED BY <1>5, <1>6, <1>7, <2>1 DEF TrafficTypes
<1>9. CASE ~CanSend
  <2>1. pending' = Append(pending, a) /\ UNCHANGED <<outbox, lost>>
    BY <1>9 DEF Submit
  <2>2. QED BY <1>3, <1>7, <2>1 DEF TrafficTypes
<1>10. QED BY <1>8, <1>9

LEMMA KeptAnswers ==
  ASSUME TrafficTypes
  PROVE  /\ DOMAIN pending = 1..Len(pending) /\ Len(pending) \in Nat
         /\ \A k \in DOMAIN pending : pending[k] \in Answer /\ pending[k].n \in 1..MaxAnswers
<1>1. pending \in Seq(Answer)
  BY DEF TrafficTypes
<1>2. DOMAIN pending = 1..Len(pending) /\ Len(pending) \in Nat
  BY <1>1, LenProperties
<1>3. \A k \in DOMAIN pending : pending[k] \in Answer
  BY <1>1, <1>2, ElementOfSeq
<1>4. QED BY <1>2, <1>3 DEF Answer

\* The kept answers as messages.
LEMMA FlushTypes ==
  ASSUME TrafficTypes
  PROVE  /\ FlushTo(outbox) \in [Sockets -> Seq(ClientMsg)]
         /\ Losing(pending) \subseteq 1..MaxAnswers
<1> DEFINE sent == [k \in DOMAIN pending |-> [type |-> "answer", a |-> pending[k]]]
<1>1. \A k \in DOMAIN pending : pending[k] \in Answer /\ pending[k].n \in 1..MaxAnswers
  BY KeptAnswers
<1>2. sent \in Seq(ClientMsg)
  <2>1. DOMAIN pending = 1..Len(pending) /\ Len(pending) \in Nat
    BY KeptAnswers
  <2>2. \A k \in 1..Len(pending) : [type |-> "answer", a |-> pending[k]] \in ClientMsg
    BY <1>1, <2>1 DEF ClientMsg
  <2>3. QED BY <2>1, <2>2, IsASeq
<1>3. \A i \in Sockets : outbox[i] \o sent \in Seq(ClientMsg)
  BY <1>2, ConcatProperties DEF TrafficTypes
<1>4. QED BY <1>1, <1>3 DEF FlushTo, Losing, TrafficTypes

LEMMA LeftTypes ==
  ASSUME TrafficTypes, NEW rs, NEW to, LeaveFrom(rs, to)
  PROVE  pending' \in Seq(Answer) /\ lost' \subseteq 1..MaxAnswers
<1>1. \A k \in DOMAIN pending : pending[k].n \in 1..MaxAnswers
  BY KeptAnswers
<1>2. QED BY <1>1 DEF LeaveFrom, TrafficTypes

-----------------------------------------------------------------------------
(* The steps by what they do to the traffic. *)

\* Those that touch neither a connection nor an answer.
Elsewhere ==
  \/ TokenRemoved \/ StartRecording \/ StopRecording \/ RetryAsr \/ DiscardAudio \/ TogglePause
  \/ Replay \/ Switch \/ ForceEnd \/ MicReady \/ MicDenied \/ EndFails \/ AvatarLoads \/ LoadFails
  \/ Watching \/ (\E r \in Readings : Speaking(r)) \/ UNCHANGED vars
Connects == Load \/ RetryTimer \/ Reconnect
Departs == GoBack \/ LoggedOut \/ EndReturns \/ \E r \in Readings : AfterClosing(r)
Says == Recognised \/ RetryRecognised

LEMMA Steps ==
  ASSUME [Next]_vars
  PROVE  \/ Elsewhere \/ Connects \/ Departs \/ Says \/ SkipQuestion \/ ServerEnds
         \/ \E i \in Sockets : SocketClosed(i) \/ OnMessage(i) \/ Accept(i) \/ Unanswered(i)
                                 \/ HangUp(i) \/ ServerReads(i) \/ Cut(i)
  BY DEF Next, Candidate, Browser, Server, Elsewhere, Connects, Departs, Says

LEMMA ElsewhereKeeps ==
  ASSUME IsView(view), Elsewhere
  PROVE  /\ UNCHANGED <<lineVars, srv>> /\ view'.current = view.current
         /\ place' = place \/ (place = "loading" /\ place' = "room")
<1>1. UNCHANGED <<lineVars, srv>> /\ (place' = place \/ (place = "loading" /\ place' = "room"))
  BY DEF Elsewhere, TokenRemoved, StartRecording, StopRecording, RetryAsr, DiscardAudio, TogglePause,
         Replay, Switch, ForceEnd, MicReady, MicDenied, EndFails, AvatarLoads, LoadFails, Watching,
         Speaking, vars
<1>2. \/ UNCHANGED view
      \/ view' = [view EXCEPT !.error = FALSE, !.phase = "recording"]
      \/ view' = [view EXCEPT !.error = FALSE, !.phase = "idle"]
      \/ view' = [view EXCEPT !.phase = "transcribing"]
      \/ view' = [view EXCEPT !.phase = "idle"]
      \/ view' = [view EXCEPT !.paused = FALSE]
      \/ view' = [view EXCEPT !.paused = TRUE]
      \/ view' = [view EXCEPT !.error = TRUE]
  BY DEF Elsewhere, TokenRemoved, StartRecording, StopRecording, RetryAsr, DiscardAudio, TogglePause,
         Replay, Switch, ForceEnd, MicReady, MicDenied, EndFails, AvatarLoads, LoadFails, Watching,
         Speaking, vars
<1>3. view'.current = view.current
  BY <1>2 DEF IsView, ViewFields
<1>4. QED BY <1>1, <1>3

LEMMA ConnectsKeeps ==
  ASSUME Connects
  PROVE  /\ UNCHANGED <<inbox, outbox, pending, answers, lost, srv>>
         /\ \/ UNCHANGED wire
            \/ \E i \in Sockets : wire[i] = "none" /\ wire' = [wire EXCEPT ![i] = "dialing"]
  BY DEF Connects, Load, RetryTimer, Reconnect, ConnectWithRetry

LEMMA DepartsKeeps ==
  ASSUME Departs
  PROVE  /\ UNCHANGED <<wire, inbox, outbox, answers, srv>>
         /\ \/ UNCHANGED <<place, pending, lost, cur, sock>> /\ UNCHANGED view
            \/ place # "room" /\ place' = "report" /\ UNCHANGED <<pending, lost, cur, sock>>
            \/ \E rs : \E to \in {"report", "history", "login"} : LeaveFrom(rs, to)
  BY DEF Departs, GoBack, LoggedOut, EndReturns, AfterClosing, Leave, LeaveAlone

LEMMA SaysKeeps ==
  ASSUME Says
  PROVE  /\ UNCHANGED srv /\ UNCHANGED place
         /\ \/ UNCHANGED lineVars
            \/ place = "room" /\ Submit /\ (asr.stopped > 0 \/ asr.retrying)
  BY DEF Says, Recognised, RetryRecognised, SubmitOrNot

LEMMA SayingCounts ==
  ASSUME RoomInv, asr.stopped > 0 \/ asr.retrying
  PROVE  answers + 1 <= MaxAnswers
  BY RoomAssumption DEF RoomInv, Older, MicInv, MicType, TrafficTypes, Spoken, One

LEMMA ReadingTypes ==
  ASSUME TrafficTypes, NEW i \in Sockets, ServerReads(i)
  PROVE  TrafficTypes'
<1>1. /\ outbox[i] \in Seq(ClientMsg) /\ outbox[i] # <<>>
      /\ outbox' = [outbox EXCEPT ![i] = Tail(@)]
      /\ UNCHANGED <<wire, pending, answers>>
  BY DEF ServerReads, ServerAlone, TrafficTypes
<1>2. Head(outbox[i]) \in ClientMsg /\ outbox' \in [Sockets -> Seq(ClientMsg)]
  BY <1>1, HeadTailProperties DEF TrafficTypes
<1>3. srv.text \in 0..Texts /\ (srv.text < Texts => srv.text + 1 \in 0..Texts) /\ 0 \in 0..Texts
  BY RoomAssumption DEF TrafficTypes
<1>4. \A t \in 0..Texts, k \in {"question", "thinking", "status"} :
        /\ <<Msg(k, t)>> \in Seq(ServerMsg) /\ <<Msg("thinking", 0), Msg(k, t)>> \in Seq(ServerMsg)
  BY <1>3, MessageTypes
<1>5. CASE Head(outbox[i]).type = "answer" /\ Answered(i, Head(outbox[i]).a)
  <2> DEFINE a == Head(outbox[i]).a
  <2>1. a \in Answer /\ a.n \in 1..MaxAnswers /\ Append(srv.log, a) \in Seq(Answer)
    <3>1. a \in Answer
      BY <1>2, <1>5 DEF ClientMsg
    <3>2. QED BY <3>1, AppendProperties DEF TrafficTypes, Answer
  <2>2. /\ lost' \subseteq 1..MaxAnswers
        /\ inbox' \in [Sockets -> Seq(ServerMsg)]
    <3>1. lost' = lost \/ lost' = lost \cup {a.n}
      BY <1>5 DEF Answered
    <3>2. \/ inbox' = Put(i, <<Msg("status", 0)>>)
          \/ /\ srv.text < Texts
             /\ inbox' = Put(i, <<Msg("thinking", 0), Msg("question", srv.text + 1)>>)
          \/ inbox' = EndTold(i, "closing")
      BY <1>5 DEF Answered
    <3>3. inbox' \in [Sockets -> Seq(ServerMsg)]
      <4>1. /\ <<Msg("status", 0)>> \in Seq(ServerMsg)
            /\ srv.text < Texts => <<Msg("thinking", 0), Msg("question", srv.text + 1)>> \in Seq(ServerMsg)
        BY <1>3, <1>4
      <4>2. CASE \E ms \in Seq(ServerMsg) : inbox' = Put(i, ms)
        BY <4>2, PutTypes
      <4>3. CASE inbox' = EndTold(i, "closing")
        BY <4>3, EndToldTypes
      <4>4. QED BY <3>2, <4>1, <4>2, <4>3
    <3>4. QED BY <2>1, <3>1, <3>3 DEF TrafficTypes
  <2>3. srv' \in [phase : {"ready", "in_progress", "completed"}, text : 0..Texts, log : Seq(Answer)]
    <3>1. \/ UNCHANGED srv
          \/ srv.text < Texts /\ srv' = [srv EXCEPT !.text = @ + 1, !.log = Append(@, a)]
          \/ srv' = [srv EXCEPT !.phase = "completed", !.log = Append(@, a)]
          \/ srv' = [srv EXCEPT !.log = Append(@, a)]
      BY <1>5 DEF Answered
    <3>2. QED BY <1>3, <2>1, <3>1 DEF TrafficTypes
  <2>4. QED BY <1>1, <1>2, <2>2, <2>3 DEF TrafficTypes
<1>6. CASE Skipped(i)
  <2>1. UNCHANGED lost /\ inbox' \in [Sockets -> Seq(ServerMsg)]
    <3>1. \/ inbox' = Put(i, <<Msg("status", 0)>>)
          \/ srv.text < Texts /\ inbox' = Put(i, <<Msg("question", srv.text + 1)>>)
          \/ inbox' = EndTold(i, "done")
      BY <1>6 DEF Skipped
    <3>2. UNCHANGED lost
      BY <1>6 DEF Skipped
    <3>3. QED BY <1>3, <1>4, <3>1, <3>2, PutTypes, EndToldTypes
  <2>2. srv' \in [phase : {"ready", "in_progress", "completed"}, text : 0..Texts, log : Seq(Answer)]
    <3>1. \/ UNCHANGED srv
          \/ srv.text < Texts /\ srv' = [srv EXCEPT !.text = @ + 1]
          \/ srv' = [srv EXCEPT !.phase = "completed"]
      BY <1>6 DEF Skipped
    <3>2. QED BY <1>3, <3>1 DEF TrafficTypes
  <2>3. QED BY <1>1, <1>2, <2>1, <2>2 DEF TrafficTypes
<1>7. QED BY <1>5, <1>6 DEF ServerReads

LEMMA ServedTypes ==
  ASSUME TrafficTypes, NEW i \in Sockets, Accept(i) \/ Unanswered(i) \/ HangUp(i) \/ Cut(i)
  PROVE  TrafficTypes'
<1>1. CASE Accept(i)
  <2>1. /\ 1 \in 0..Texts /\ 0 \in 0..Texts
        /\ UNCHANGED <<outbox, pending, answers, lost>>
    BY <1>1, RoomAssumption DEF Accept, ServerAlone
  <2>2. CASE /\ srv' = [srv EXCEPT !.phase = "in_progress", !.text = IF @ = 0 THEN 1 ELSE @]
             /\ wire' = [wire EXCEPT ![i] = "in"]
             /\ inbox' = [inbox EXCEPT ![i] = <<Msg("session_started", 0), Msg("question", srv'.text)>>]
    <3>1. srv' \in [phase : {"ready", "in_progress", "completed"}, text : 0..Texts, log : Seq(Answer)]
      BY <2>1, <2>2 DEF TrafficTypes
    <3>2. Msg("session_started", 0) \in ServerMsg /\ Msg("question", srv'.text) \in ServerMsg
      BY <2>1, <3>1, MessageTypes
    <3>3. <<Msg("session_started", 0), Msg("question", srv'.text)>> \in Seq(ServerMsg)
      BY <3>2
    <3>4. QED BY <2>1, <2>2, <3>1, <3>3 DEF TrafficTypes
  <2>3. CASE /\ wire' = [wire EXCEPT ![i] = "fin"] /\ UNCHANGED srv
             /\ inbox' = [inbox EXCEPT ![i] = <<Msg("error", 0)>>]
    <3>1. <<Msg("error", 0)>> \in Seq(ServerMsg)
      BY <2>1, MessageTypes
    <3>2. QED BY <2>1, <2>3, <3>1 DEF TrafficTypes
  <2>4. QED BY <1>1, <2>2, <2>3 DEF Accept
<1>2. CASE Unanswered(i) \/ HangUp(i)
  BY <1>2 DEF Unanswered, HangUp, ServerAlone, TrafficTypes
<1>3. CASE Cut(i)
  <2>1. /\ wire' = [wire EXCEPT ![i] = IF sock[i] = "closed" THEN "none" ELSE "cut"]
        /\ outbox' = [outbox EXCEPT ![i] = <<>>]
        /\ UNCHANGED <<pending, answers, srv>>
    BY <1>3 DEF Cut, ServerAlone
  <2>2. inbox' \in [Sockets -> Seq(ServerMsg)]
    <3>1. inbox' = [inbox EXCEPT ![i] = inbox[i]] \/ inbox' = [inbox EXCEPT ![i] = <<>>]
      BY <1>3 DEF Cut
    <3>2. inbox[i] \in Seq(ServerMsg) /\ <<>> \in Seq(ServerMsg)
      BY DEF TrafficTypes
    <3>3. QED BY <3>1, <3>2 DEF TrafficTypes
  <2>3. \A k \in DOMAIN outbox[i] : outbox[i][k].type = "answer" => outbox[i][k].a.n \in 1..MaxAnswers
    <3>1. \A k \in DOMAIN outbox[i] : outbox[i][k] \in ClientMsg
      BY DEF TrafficTypes
    <3>2. \A m \in ClientMsg : m.type = "answer" => m.a.n \in 1..MaxAnswers
      BY DEF ClientMsg, Answer
    <3>3. QED BY <3>1, <3>2
  <2>4. lost' \subseteq 1..MaxAnswers
    <3>1. lost' = lost \cup {outbox[i][k].a.n : k \in {j \in DOMAIN outbox[i] :
                                                       outbox[i][j].type = "answer"}}
      BY <1>3 DEF Cut
    <3>2. QED BY <2>3, <3>1 DEF TrafficTypes
  <2>5. outbox' \in [Sockets -> Seq(ClientMsg)]
    BY <2>1 DEF TrafficTypes
  <2>6. wire' \in [Sockets -> {"none", "dialing", "in", "fin", "cut"}]
    BY <2>1 DEF TrafficTypes
  <2>7. QED BY <2>1, <2>2, <2>4, <2>5, <2>6 DEF TrafficTypes
<1>4. QED BY <1>1, <1>2, <1>3

LEMMA DeliveredTypes ==
  ASSUME TrafficTypes, NEW i \in Sockets, OnMessage(i)
  PROVE  TrafficTypes'
<1>1. /\ UNCHANGED <<wire, answers, srv>> /\ inbox[i] # <<>>
      /\ inbox' = [inbox EXCEPT ![i] = Tail(@)]
  BY DEF OnMessage, OnSessionStarted, OnQuestion, OnStatus, OnError, OnDone, OnClosing, Receive
<1>2. inbox' \in [Sockets -> Seq(ServerMsg)]
  BY <1>1, HeadTailProperties DEF TrafficTypes
<1>3. CASE UNCHANGED <<outbox, pending, lost>>
  BY <1>1, <1>2, <1>3 DEF TrafficTypes
<1>4. CASE OnSessionStarted(i)
  <2>1. pending' = <<>> /\ (UNCHANGED <<outbox, lost>> \/ (outbox' = FlushTo(outbox) /\ lost' = Losing(pending)))
    BY <1>4 DEF OnSessionStarted
  <2>2. outbox' \in [Sockets -> Seq(ClientMsg)] /\ lost' \subseteq 1..MaxAnswers
    BY <2>1, FlushTypes DEF TrafficTypes
  <2>3. pending' \in Seq(Answer)
    BY <2>1
  <2>4. QED BY <1>1, <1>2, <2>2, <2>3 DEF TrafficTypes
<1>5. CASE LeaveFrom(reads, "report") /\ UNCHANGED outbox
  BY <1>1, <1>2, <1>5, LeftTypes DEF TrafficTypes
<1>6. QED BY <1>3, <1>4, <1>5 DEF OnMessage, OnQuestion, OnStatus, OnError, OnDone, OnClosing, Leave

LEMMA NextTraffic ==
  ASSUME RoomInv, [Next]_vars
  PROVE  TrafficTypes'
<1>0. TrafficTypes /\ IsView(view) /\ cur \in Sockets \cup {0} /\ view.current \in 0..Texts
  BY DEF RoomInv, Older, CameraInv, LineInv, LineType, PageTypes
<1>1. CASE Elsewhere
  BY <1>0, <1>1, ElsewhereKeeps DEF TrafficTypes, lineVars
<1>2. CASE Connects
  <2>1. UNCHANGED <<inbox, outbox, pending, answers, lost, srv>>
    BY <1>2, ConnectsKeeps
  <2>2. wire' \in [Sockets -> {"none", "dialing", "in", "fin", "cut"}]
    BY <1>0, <1>2, ConnectsKeeps DEF TrafficTypes
  <2>3. QED BY <1>0, <2>1, <2>2 DEF TrafficTypes
<1>3. CASE Departs
  BY <1>0, <1>3, DepartsKeeps, LeftTypes DEF TrafficTypes
<1>4. CASE Says
  <2>1. CASE UNCHANGED <<lineVars, srv>>
    BY <1>0, <2>1 DEF TrafficTypes, lineVars
  <2>2. CASE Submit /\ answers + 1 <= MaxAnswers /\ UNCHANGED srv
    BY <1>0, <2>2, SubmitTypes
  <2>3. QED BY <1>4, <2>1, <2>2, SaysKeeps, SayingCounts
<1>5. CASE SkipQuestion
  <2>1. [type |-> "skip"] \in ClientMsg
    BY DEF ClientMsg
  <2>2. \A i \in Sockets : Append(outbox[i], [type |-> "skip"]) \in Seq(ClientMsg)
    BY <1>0, <2>1, AppendProperties DEF TrafficTypes
  <2>3. outbox' \in [Sockets -> Seq(ClientMsg)]
    BY <1>0, <1>5, <2>2 DEF SkipQuestion, Sent, TrafficTypes
  <2>4. QED BY <1>0, <1>5, <2>3 DEF SkipQuestion, TrafficTypes
<1>6. CASE ServerEnds
  <2>1. inbox' \in [Sockets -> Seq(ServerMsg)]
    BY <1>0, <1>6, ToldTypes DEF ServerEnds, TrafficTypes
  <2>2. QED BY <1>0, <1>6, <2>1 DEF ServerEnds, ServerAlone, TrafficTypes
<1>7. CASE \E i \in Sockets : SocketClosed(i)
  BY <1>0, <1>7 DEF SocketClosed, TrafficTypes
<1>8. QED BY <1>0, <1>1, <1>2, <1>3, <1>4, <1>5, <1>6, <1>7, Steps, ServedTypes, DeliveredTypes, ReadingTypes

-----------------------------------------------------------------------------
LEMMA InitRoom == Init => RoomInv
<1> SUFFICES ASSUME Init PROVE RoomInv
  OBVIOUS
<1>1. Older
  BY InitCamera, InitLine, InitMic, InitSpeech DEF Older
<1>2. Spoken
  BY RoomAssumption DEF Init, Spoken, One
<1>3. PageTypes /\ TrafficTypes
  BY RoomAssumption DEF Init, PageTypes, TrafficTypes
<1>4. VoiceTypes
  BY DEF Init, SpeechInit, VoiceTypes, AvatarStatus
<1>5. QED BY <1>1, <1>2, <1>3, <1>4 DEF RoomInv

LEMMA NextRoom == RoomInv /\ [Next]_vars => RoomInv'
<1> SUFFICES ASSUME RoomInv, [Next]_vars PROVE RoomInv'
  OBVIOUS
<1>1. Older'
  BY NextCamera, NextLine, NextMic, NextSpeech DEF RoomInv, Older
<1>2. Spoken'
  BY NextSpoken
<1>3. PageTypes'
  BY NextPage DEF RoomInv
<1>4. TrafficTypes'
  BY NextTraffic
<1>5. VoiceTypes'
  BY NextVoice DEF RoomInv
<1>6. QED BY <1>1, <1>2, <1>3, <1>4, <1>5 DEF RoomInv

\* InterviewRoomPage.tsx, interviewSocket.ts, voiceRecorder.ts and the server behind them:
\* every ref, state, queue and status keeps to its values. The attempts stay within
\* RETRY_DELAYS, and no more is recorded, recognised or sent than was said.
THEOREM RoomTypes == Spec => []TypeOK
BY InitRoom, NextRoom, RoomInvIsTypeOK, PTL DEF Spec

-----------------------------------------------------------------------------
(* Queues of answers. *)

\* The answers among the messages of a queue, and that none is there twice.
AnswersIn(q) == {q[k].a.n : k \in {j \in DOMAIN q : q[j].type = "answer"}}
OnceIn(q) == \A j, k \in DOMAIN q :
               q[j].type = "answer" /\ q[k].type = "answer" /\ q[j].a.n = q[k].a.n => j = k
AnswerMsg(a) == [type |-> "answer", a |-> a]

LEMMA OnTheWayIn ==
  ASSUME NEW i \in Sockets
  PROVE  OnTheWay(i) = AnswersIn(outbox[i])
  BY DEF OnTheWay, IsAnswer, AnswersIn

LEMMA NoAnswers == AnswersIn(<<>>) = {} /\ OnceIn(<<>>) /\ Numbers(<<>>) = {} /\ Distinct(<<>>)
  BY DEF AnswersIn, OnceIn, Numbers, Distinct

\* The places of a sequence without its first element.
LEMMA TailPlaces ==
  ASSUME NEW S, NEW s \in Seq(S), s # <<>>
  PROVE  /\ 1 \in DOMAIN s /\ Head(s) = s[1]
         /\ \A k \in DOMAIN Tail(s) : k \in Nat \ {0} /\ k + 1 \in DOMAIN s /\ Tail(s)[k] = s[k + 1]
         /\ \A k \in DOMAIN s : k = 1 \/ \E j \in DOMAIN Tail(s) : k = j + 1
<1>1. Len(s) \in Nat \ {0} /\ DOMAIN s = 1..Len(s)
  BY LenProperties, EmptySeq
<1>2. /\ Tail(s) \in Seq(S) /\ Len(Tail(s)) = Len(s) - 1
      /\ \A k \in 1..Len(Tail(s)) : Tail(s)[k] = s[k + 1]
  BY HeadTailProperties
<1>3. DOMAIN Tail(s) = 1..Len(s) - 1
  BY <1>2, LenProperties
<1>4. Head(s) = s[1]
  OBVIOUS
<1>5. ASSUME NEW k \in DOMAIN s, k # 1 PROVE \E j \in DOMAIN Tail(s) : k = j + 1
  <2>1. k - 1 \in DOMAIN Tail(s) /\ k = (k - 1) + 1
    BY <1>1, <1>3, <1>5
  <2>2. QED BY <2>1
<1>6. QED BY <1>1, <1>2, <1>3, <1>4, <1>5

\* Where the elements of two sequences are in their concatenation.
LEMMA ConcatPlaces ==
  ASSUME NEW S, NEW q \in Seq(S), NEW r \in Seq(S)
  PROVE  \E l \in Nat :
           /\ DOMAIN q = 1..l
           /\ \A k \in DOMAIN q : k \in DOMAIN (q \o r) /\ (q \o r)[k] = q[k]
           /\ \A k \in DOMAIN r : /\ k \in Nat \ {0} /\ l + k \in DOMAIN (q \o r)
                                  /\ (q \o r)[l + k] = r[k]
           /\ \A k \in DOMAIN (q \o r) : k \in DOMAIN q \/ \E j \in DOMAIN r : k = l + j
<1>1. /\ Len(q) \in Nat /\ DOMAIN q = 1..Len(q)
      /\ \A k \in DOMAIN r : k \in Nat \ {0}
  OBVIOUS
<1>2. \A k \in DOMAIN q : k \in DOMAIN (q \o r) /\ (q \o r)[k] = q[k]
  OBVIOUS
<1>3. \A k \in DOMAIN r : Len(q) + k \in DOMAIN (q \o r) /\ (q \o r)[Len(q) + k] = r[k]
  OBVIOUS
<1>4. \A k \in DOMAIN (q \o r) :
        k \in DOMAIN q \/ (k - Len(q) \in DOMAIN r /\ k = Len(q) + (k - Len(q)))
  OBVIOUS
<1>5. \A k \in DOMAIN (q \o r) : k \in DOMAIN q \/ \E j \in DOMAIN r : k = Len(q) + j
  BY <1>4
<1>6. QED BY <1>1, <1>2, <1>3, <1>5, Zenon

LEMMA ConcatNumbers ==
  ASSUME NEW S, NEW as \in Seq(S), NEW bs \in Seq(S)
  PROVE  /\ Numbers(as \o bs) = Numbers(as) \cup Numbers(bs)
         /\ Distinct(as) /\ Distinct(bs) /\ Numbers(as) \cap Numbers(bs) = {} => Distinct(as \o bs)
<1>1. PICK l \in Nat :
        /\ DOMAIN as = 1..l
        /\ \A k \in DOMAIN as : k \in DOMAIN (as \o bs) /\ (as \o bs)[k] = as[k]
        /\ \A k \in DOMAIN bs : /\ k \in Nat \ {0} /\ l + k \in DOMAIN (as \o bs)
                                /\ (as \o bs)[l + k] = bs[k]
        /\ \A k \in DOMAIN (as \o bs) : k \in DOMAIN as \/ \E j \in DOMAIN bs : k = l + j
  BY ConcatPlaces, Zenon
<1> DEFINE t == as \o bs
<1>4. /\ \A k \in DOMAIN as : k \in DOMAIN t /\ t[k] = as[k]
      /\ \A k \in DOMAIN bs : l + k \in DOMAIN t /\ t[l + k] = bs[k]
      /\ \A k \in DOMAIN t : k \in DOMAIN as \/ \E j \in DOMAIN bs : k = l + j
  BY <1>1, Zenon
<1> HIDE DEF t
<1>5. Numbers(t) = Numbers(as) \cup Numbers(bs)
  <2>1. Numbers(as) \subseteq Numbers(t) /\ Numbers(bs) \subseteq Numbers(t)
    <3>1. \A k \in DOMAIN bs : bs[k].n = t[l + k].n /\ l + k \in DOMAIN t
      BY <1>4
    <3>2. Numbers(bs) \subseteq Numbers(t)
      BY <3>1, Zenon DEF Numbers
    <3>3. QED BY <1>4, <3>2 DEF Numbers
  <2>2. SUFFICES ASSUME NEW k \in DOMAIN t
                 PROVE  t[k].n \in Numbers(as) \cup Numbers(bs)
    BY <2>1 DEF Numbers
  <2>3. CASE k \in DOMAIN as
    BY <1>4, <2>2, <2>3 DEF Numbers
  <2>4. ASSUME NEW j \in DOMAIN bs, k = l + j PROVE t[k].n \in Numbers(bs)
    BY <1>4, <2>2, <2>4 DEF Numbers
  <2>5. QED BY <1>4, <2>3, <2>4
<1>6. ASSUME Distinct(as), Distinct(bs), Numbers(as) \cap Numbers(bs) = {} PROVE Distinct(t)
  <2>1. \A j \in DOMAIN as, k \in DOMAIN bs : as[j].n # bs[k].n
    BY <1>6 DEF Numbers
  <2>2. SUFFICES ASSUME NEW j \in DOMAIN t, NEW k \in DOMAIN t, t[j].n = t[k].n
                 PROVE  j = k
    BY DEF Distinct
  <2>3. CASE j \in DOMAIN as /\ k \in DOMAIN as
    BY <1>4, <1>6, <2>2, <2>3 DEF Distinct
  <2>4. ASSUME NEW v \in DOMAIN bs, NEW w \in DOMAIN bs, j = l + v, k = l + w PROVE j = k
    BY <1>4, <1>6, <2>2, <2>4 DEF Distinct
  <2>5. ASSUME j \in DOMAIN as, NEW w \in DOMAIN bs, k = l + w PROVE FALSE
    BY <1>4, <2>1, <2>2, <2>5
  <2>6. ASSUME NEW v \in DOMAIN bs, j = l + v, k \in DOMAIN as PROVE FALSE
    BY <1>4, <2>1, <2>2, <2>6
  <2>7. QED BY <1>4, <2>3, <2>4, <2>5, <2>6
<1>7. QED BY <1>5, <1>6 DEF t

LEMMA ConcatMessages ==
  ASSUME NEW S, NEW q \in Seq(S), NEW r \in Seq(S)
  PROVE  /\ AnswersIn(q \o r) = AnswersIn(q) \cup AnswersIn(r)
         /\ OnceIn(q) /\ OnceIn(r) /\ AnswersIn(q) \cap AnswersIn(r) = {} => OnceIn(q \o r)
<1>1. PICK l \in Nat :
        /\ DOMAIN q = 1..l
        /\ \A k \in DOMAIN q : k \in DOMAIN (q \o r) /\ (q \o r)[k] = q[k]
        /\ \A k \in DOMAIN r : /\ k \in Nat \ {0} /\ l + k \in DOMAIN (q \o r)
                                /\ (q \o r)[l + k] = r[k]
        /\ \A k \in DOMAIN (q \o r) : k \in DOMAIN q \/ \E j \in DOMAIN r : k = l + j
  BY ConcatPlaces, Zenon
<1> DEFINE t == q \o r
<1>4. /\ \A k \in DOMAIN q : k \in DOMAIN t /\ t[k] = q[k]
      /\ \A k \in DOMAIN r : l + k \in DOMAIN t /\ t[l + k] = r[k]
      /\ \A k \in DOMAIN t : k \in DOMAIN q \/ \E j \in DOMAIN r : k = l + j
  BY <1>1, Zenon
<1> HIDE DEF t
<1>5. AnswersIn(t) = AnswersIn(q) \cup AnswersIn(r)
  <2>1. AnswersIn(q) \subseteq AnswersIn(t) /\ AnswersIn(r) \subseteq AnswersIn(t)
    BY <1>4 DEF AnswersIn
  <2>2. SUFFICES ASSUME NEW k \in DOMAIN t, t[k].type = "answer"
                 PROVE  t[k].a.n \in AnswersIn(q) \cup AnswersIn(r)
    BY <2>1 DEF AnswersIn
  <2>3. CASE k \in DOMAIN q
    BY <1>4, <2>2, <2>3 DEF AnswersIn
  <2>4. ASSUME NEW j \in DOMAIN r, k = l + j PROVE t[k].a.n \in AnswersIn(r)
    BY <1>4, <2>2, <2>4 DEF AnswersIn
  <2>5. QED BY <1>4, <2>3, <2>4
<1>6. ASSUME OnceIn(q), OnceIn(r), AnswersIn(q) \cap AnswersIn(r) = {} PROVE OnceIn(t)
  <2>1. \A j \in DOMAIN q, k \in DOMAIN r : q[j].type = "answer" /\ r[k].type = "answer" => q[j].a.n # r[k].a.n
    BY <1>6 DEF AnswersIn
  <2>2. SUFFICES ASSUME NEW j \in DOMAIN t, NEW k \in DOMAIN t, t[j].type = "answer", t[k].type = "answer", t[j].a.n = t[k].a.n
                 PROVE  j = k
    BY DEF OnceIn
  <2>3. CASE j \in DOMAIN q /\ k \in DOMAIN q
    BY <1>4, <1>6, <2>2, <2>3 DEF OnceIn
  <2>4. ASSUME NEW v \in DOMAIN r, NEW w \in DOMAIN r, j = l + v, k = l + w PROVE j = k
    BY <1>4, <1>6, <2>2, <2>4 DEF OnceIn
  <2>5. ASSUME j \in DOMAIN q, NEW w \in DOMAIN r, k = l + w PROVE FALSE
    BY <1>4, <2>1, <2>2, <2>5
  <2>6. ASSUME NEW v \in DOMAIN r, j = l + v, k \in DOMAIN q PROVE FALSE
    BY <1>4, <2>1, <2>2, <2>6
  <2>7. QED BY <1>4, <2>3, <2>4, <2>5, <2>6
<1>7. QED BY <1>5, <1>6 DEF t

LEMMA AppendNumber ==
  ASSUME NEW as \in Seq(Answer), NEW a \in Answer
  PROVE  /\ Numbers(Append(as, a)) = Numbers(as) \cup {a.n}
         /\ Distinct(as) /\ a.n \notin Numbers(as) => Distinct(Append(as, a))
<1>1. <<a>> \in Seq(Answer) /\ Numbers(<<a>>) = {a.n} /\ Distinct(<<a>>)
  BY DEF Numbers, Distinct
<1>2. Append(as, a) = as \o <<a>>
  BY AppendIsConcat, Zenon
<1>3. /\ Numbers(as \o <<a>>) = Numbers(as) \cup Numbers(<<a>>)
      /\ Distinct(as) /\ Distinct(<<a>>) /\ Numbers(as) \cap Numbers(<<a>>) = {}
           => Distinct(as \o <<a>>)
  BY <1>1, ConcatNumbers, Zenon
<1>4. QED BY <1>1, <1>2, <1>3

LEMMA AppendMessage ==
  ASSUME NEW q \in Seq(ClientMsg), NEW m \in ClientMsg
  PROVE  /\ AnswersIn(Append(q, m)) = AnswersIn(q) \cup (IF m.type = "answer" THEN {m.a.n} ELSE {})
         /\ OnceIn(q) /\ (m.type = "answer" => m.a.n \notin AnswersIn(q)) => OnceIn(Append(q, m))
<1>1. /\ <<m>> \in Seq(ClientMsg) /\ OnceIn(<<m>>)
      /\ AnswersIn(<<m>>) = (IF m.type = "answer" THEN {m.a.n} ELSE {})
  BY DEF AnswersIn, OnceIn
<1>2. Append(q, m) = q \o <<m>>
  BY AppendIsConcat, Zenon
<1>3. /\ AnswersIn(q \o <<m>>) = AnswersIn(q) \cup AnswersIn(<<m>>)
      /\ OnceIn(q) /\ OnceIn(<<m>>) /\ AnswersIn(q) \cap AnswersIn(<<m>>) = {} => OnceIn(q \o <<m>>)
  BY <1>1, ConcatMessages, Zenon
<1>4. QED BY <1>1, <1>2, <1>3

LEMMA TailMessages ==
  ASSUME NEW q \in Seq(ClientMsg), q # <<>>, OnceIn(q)
  PROVE  /\ OnceIn(Tail(q))
         /\ Head(q).type = "answer" =>
              Head(q).a.n \in AnswersIn(q) /\ AnswersIn(Tail(q)) = AnswersIn(q) \ {Head(q).a.n}
         /\ Head(q).type # "answer" => AnswersIn(Tail(q)) = AnswersIn(q)
<1> DEFINE t == Tail(q)
<1>1. /\ 1 \in DOMAIN q /\ Head(q) = q[1]
      /\ \A k \in DOMAIN t : k \in Nat \ {0} /\ k + 1 \in DOMAIN q /\ t[k] = q[k + 1]
      /\ \A k \in DOMAIN q : k = 1 \/ \E j \in DOMAIN t : k = j + 1
  BY TailPlaces
<1> HIDE DEF t
<1>2. OnceIn(t)
  <2>1. SUFFICES ASSUME NEW j \in DOMAIN t, NEW k \in DOMAIN t, t[j].type = "answer",
                        t[k].type = "answer", t[j].a.n = t[k].a.n
                 PROVE  j = k
    BY DEF OnceIn
  <2>2. j + 1 = k + 1
    BY <1>1, <2>1 DEF OnceIn
  <2>3. QED BY <1>1, <2>2
<1>3. AnswersIn(t) \subseteq AnswersIn(q)
  BY <1>1 DEF AnswersIn
<1>4. q[1].type = "answer" => q[1].a.n \notin AnswersIn(t)
  <2>1. SUFFICES ASSUME q[1].type = "answer", NEW k \in DOMAIN t, t[k].type = "answer"
                 PROVE  t[k].a.n # q[1].a.n
    BY DEF AnswersIn
  <2>2. k + 1 # 1 /\ k + 1 \in DOMAIN q /\ t[k] = q[k + 1]
    BY <1>1
  <2>3. QED BY <1>1, <2>1, <2>2 DEF OnceIn
<1>5. \A n \in AnswersIn(q) : n \in AnswersIn(t) \/ (q[1].type = "answer" /\ n = q[1].a.n)
  <2>1. SUFFICES ASSUME NEW k \in DOMAIN q, q[k].type = "answer"
                 PROVE  q[k].a.n \in AnswersIn(t) \/ (q[1].type = "answer" /\ q[k].a.n = q[1].a.n)
    BY DEF AnswersIn
  <2>2. CASE k = 1
    BY <2>1, <2>2
  <2>3. CASE \E j \in DOMAIN t : k = j + 1
    BY <1>1, <2>1, <2>3 DEF AnswersIn
  <2>4. QED BY <1>1, <2>2, <2>3
<1>6. q[1].type = "answer" => q[1].a.n \in AnswersIn(q)
  BY <1>1 DEF AnswersIn
<1>7. QED BY <1>1, <1>2, <1>3, <1>4, <1>5, <1>6 DEF t

\* Every kept answer is sent, behind what was sent before.
LEMMA FlushMessages ==
  ASSUME NEW q \in Seq(ClientMsg), NEW as \in Seq(Answer), OnceIn(q), Distinct(as),
         AnswersIn(q) \cap Numbers(as) = {}
  PROVE  LET t == q \o [k \in DOMAIN as |-> [type |-> "answer", a |-> as[k]]] IN
         AnswersIn(t) = AnswersIn(q) \cup Numbers(as) /\ OnceIn(t)
<1> DEFINE sent == [k \in DOMAIN as |-> [type |-> "answer", a |-> as[k]]]
<1>1. sent \in Seq(ClientMsg)
  <2>1. Len(as) \in Nat /\ DOMAIN as = 1..Len(as)
    BY LenProperties
  <2>2. \A k \in 1..Len(as) : as[k] \in Answer
    BY ElementOfSeq
  <2>3. \A k \in 1..Len(as) : [type |-> "answer", a |-> as[k]] \in ClientMsg
    BY <2>2 DEF ClientMsg
  <2>4. sent \in [1..Len(as) -> ClientMsg]
    BY <2>1, <2>3
  <2>5. \A f, n : n \in Nat /\ f \in [1..n -> ClientMsg] => f \in Seq(ClientMsg)
    OBVIOUS
  <2>6. QED BY <2>1, <2>4, <2>5, Zenon
<1>2. AnswersIn(sent) = Numbers(as) /\ OnceIn(sent)
  BY DEF AnswersIn, Numbers, OnceIn, Distinct
<1> HIDE DEF sent
<1>3. /\ AnswersIn(q \o sent) = AnswersIn(q) \cup AnswersIn(sent)
      /\ OnceIn(q) /\ OnceIn(sent) /\ AnswersIn(q) \cap AnswersIn(sent) = {} => OnceIn(q \o sent)
  BY <1>1, ConcatMessages, Zenon
<1>4. QED BY <1>2, <1>3 DEF sent

-----------------------------------------------------------------------------
(* Where the answers are. *)

\* Only a connection in the room holds messages for the server, and a page that is there
\* has no other connection in the room than the one it uses.
Queued ==
  /\ \A i \in Sockets : wire[i] # "in" => outbox[i] = <<>>
  /\ Inside => \A i \in Sockets :
       sock[i] # "closing" /\ (wire[i] = "in" => i = cur /\ sock[i] = "open")

\* AnsweredOnce and NothingDropped by queue.
Accounted ==
  /\ Distinct(srv.log) /\ Distinct(pending) /\ \A i \in Sockets : OnceIn(outbox[i])
  /\ Numbers(srv.log) \cap Numbers(pending) = {}
  /\ \A i \in Sockets : AnswersIn(outbox[i]) \cap (Numbers(srv.log) \cup Numbers(pending)) = {}
  /\ \A i, j \in Sockets : i # j => AnswersIn(outbox[i]) \cap AnswersIn(outbox[j]) = {}
  /\ \A n : n \in 1..answers <=> \/ n \in lost \/ n \in Numbers(srv.log) \/ n \in Numbers(pending)
                                 \/ \E i \in Sockets : n \in AnswersIn(outbox[i])
AnswerInv == RoomInv /\ Queued /\ Accounted

LEMMA AccountedIsOnce == Accounted => AnsweredOnce /\ NothingDropped
<1> SUFFICES ASSUME Accounted PROVE AnsweredOnce /\ NothingDropped
  OBVIOUS
<1>1. \A i \in Sockets : OnTheWay(i) = AnswersIn(outbox[i])
  BY OnTheWayIn
<1>2. \A i \in Sockets : \A j, k \in DOMAIN outbox[i] :
        IsAnswer(i, j) /\ IsAnswer(i, k) /\ outbox[i][j].a.n = outbox[i][k].a.n => j = k
  BY DEF Accounted, OnceIn, IsAnswer
<1>3. AnsweredOnce
  BY <1>1, <1>2 DEF Accounted, AnsweredOnce
<1>4. NothingDropped
  BY <1>1 DEF Accounted, NothingDropped
<1>5. QED BY <1>3, <1>4

-----------------------------------------------------------------------------
(* The connections. *)

LEMMA ConnectQueued ==
  ASSUME Queued, LineInv, CurClosed, Inside, NEW attempt, ConnectWithRetry(attempt),
         UNCHANGED outbox
  PROVE  Queued'
<1>1. \A i \in Sockets : sock[i] = "closed" /\ wire[i] # "in"
  BY RoomAssumption DEF Queued, LineInv, OthersClosed, CurClosed, Inside
<1>2. CASE UNCHANGED <<sock, wire>>
  BY <1>1, <1>2 DEF Queued
<1>3. CASE token
  <2>1. PICK i \in Sockets :
          sock' = [Closed(cur) EXCEPT ![i] = "connecting"] /\ wire' = [wire EXCEPT ![i] = "dialing"]
    BY <1>3 DEF ConnectWithRetry
  <2>2. Closed(cur) = sock
    BY DEF Closed, CurClosed
  <2>3. \A j \in Sockets : sock'[j] \in {"closed", "connecting"} /\ wire'[j] # "in"
    BY <1>1, <2>1, <2>2 DEF LineInv, LineType
  <2>4. QED BY <1>1, <2>3 DEF Queued
<1>4. QED BY <1>2, <1>3 DEF ConnectWithRetry

LEMMA DepartsQueued ==
  ASSUME Queued, Departs
  PROVE  Queued'
<1>1. UNCHANGED <<wire, outbox>>
  BY DepartsKeeps
<1>2. ~Inside' \/ UNCHANGED <<place, cur, sock>>
  BY DepartsKeeps DEF LeaveFrom, Inside
<1>3. QED BY <1>1, <1>2 DEF Queued, Inside

LEMMA ClosedQueued ==
  ASSUME Queued, TrafficTypes, LineInv, NEW i \in Sockets, SocketClosed(i)
  PROVE  Queued'
<1>1. /\ sock' = [sock EXCEPT ![i] = "closed"] /\ UNCHANGED <<place, cur, outbox>>
      /\ wire' = [wire EXCEPT ![i] = IF @ = "in" THEN "in" ELSE "none"]
      /\ sock[i] = "closing" \/ wire[i] \in {"cut", "fin"}
  BY DEF SocketClosed
<1>2. \A j \in Sockets : wire'[j] = "in" <=> wire[j] = "in"
  BY <1>1 DEF TrafficTypes
<1>3. Inside => wire[i] # "in"
  BY <1>1 DEF Queued
<1>4. \A j \in Sockets : sock'[j] = IF j = i THEN "closed" ELSE sock[j]
  BY <1>1 DEF LineInv, LineType
<1>5. QED BY <1>1, <1>2, <1>3, <1>4 DEF Queued, Inside

LEMMA MessageQueued ==
  ASSUME Queued, TrafficTypes, NEW i \in Sockets, OnMessage(i)
  PROVE  Queued'
<1>1. UNCHANGED wire
  BY DEF OnMessage, OnSessionStarted, OnQuestion, OnStatus, OnError, OnDone, OnClosing, Receive
<1>2. CASE OnSessionStarted(i)
  <2>1. UNCHANGED <<place, cur, sock>> /\ (UNCHANGED outbox \/ outbox' = FlushTo(outbox))
    BY <1>2 DEF OnSessionStarted
  <2>2. \A j \in Sockets : wire[j] # "in" => FlushTo(outbox)[j] = outbox[j]
    BY DEF FlushTo, TrafficTypes
  <2>3. QED BY <1>1, <2>1, <2>2 DEF Queued, Inside
<1>3. CASE UNCHANGED <<place, cur, sock, outbox>>
  BY <1>1, <1>3 DEF Queued, Inside
<1>4. CASE LeaveFrom(reads, "report") /\ UNCHANGED outbox
  BY <1>1, <1>4 DEF Queued, Inside, LeaveFrom
<1>5. QED BY <1>2, <1>3, <1>4 DEF OnMessage, OnQuestion, OnStatus, OnError, OnDone, OnClosing, Leave

LEMMA ServedQueued ==
  ASSUME Queued, TrafficTypes, LineInv, NEW i \in Sockets,
         Accept(i) \/ Unanswered(i) \/ HangUp(i) \/ ServerReads(i) \/ Cut(i)
  PROVE  Queued'
<1>1. UNCHANGED <<place, cur>>
  BY DEF Accept, Unanswered, HangUp, ServerReads, Cut, ServerAlone
<1>2. CASE Accept(i)
  <2>1. /\ sock' = [sock EXCEPT ![i] = "open"] /\ UNCHANGED outbox /\ wire[i] = "dialing"
        /\ \E w \in {"in", "fin"} : wire' = [wire EXCEPT ![i] = w]
        /\ sock[i] = "connecting"
    BY <1>2 DEF Accept
  <2>2. Inside /\ i = cur
    BY <2>1, RoomAssumption DEF LineInv, OthersClosed
  <2>3. outbox[i] = <<>>
    BY <2>1 DEF Queued
  <2>4. \A j \in Sockets : /\ sock'[j] = IF j = i THEN "open" ELSE sock[j]
                           /\ j # i => wire'[j] = wire[j]
    BY <2>1 DEF LineInv, LineType, TrafficTypes
  <2>5. QED BY <1>1, <2>1, <2>2, <2>3, <2>4 DEF Queued, Inside
<1>3. CASE Unanswered(i) \/ HangUp(i)
  <2>1. /\ UNCHANGED <<sock, outbox>> /\ wire' = [wire EXCEPT ![i] = "none"] /\ outbox[i] = <<>>
    BY <1>3 DEF Unanswered, HangUp, Queued
  <2>2. \A j \in Sockets : wire'[j] = IF j = i THEN "none" ELSE wire[j]
    BY <2>1 DEF TrafficTypes
  <2>3. QED BY <1>1, <2>1, <2>2 DEF Queued, Inside
<1>4. CASE ServerReads(i)
  <2>1. /\ wire[i] = "in" /\ outbox' = [outbox EXCEPT ![i] = Tail(@)] /\ UNCHANGED <<sock, wire>>
    BY <1>4 DEF ServerReads
  <2>2. \A j \in Sockets : j # i => outbox'[j] = outbox[j]
    BY <2>1 DEF TrafficTypes
  <2>3. QED BY <1>1, <2>1, <2>2 DEF Queued, Inside
<1>5. CASE Cut(i)
  <2>1. /\ outbox' = [outbox EXCEPT ![i] = <<>>] /\ UNCHANGED sock
        /\ \E w \in {"none", "cut"} : wire' = [wire EXCEPT ![i] = w]
    BY <1>5 DEF Cut
  <2>2. /\ \A j \in Sockets : outbox'[j] = IF j = i THEN <<>> ELSE outbox[j]
        /\ \A j \in Sockets : j # i => wire'[j] = wire[j]
        /\ wire'[i] # "in"
    BY <2>1 DEF TrafficTypes
  <2>3. QED BY <1>1, <2>1, <2>2 DEF Queued, Inside
<1>6. QED BY <1>2, <1>3, <1>4, <1>5

LEMMA NextQueued ==
  ASSUME RoomInv, Queued, [Next]_vars
  PROVE  Queued'
<1>0. TrafficTypes /\ IsView(view) /\ LineInv
  BY DEF RoomInv, Older, CameraInv
<1>1. CASE Elsewhere
  BY <1>0, <1>1, ElsewhereKeeps DEF Queued, Inside, lineVars
<1>2. CASE Connects
  <2>1. Inside /\ CurClosed
    BY <1>0, <1>2 DEF Connects, Load, RetryTimer, Reconnect, MayReconnect, LineInv, OthersClosed,
           MayConnect, CurClosed, Inside
  <2>2. UNCHANGED outbox
    BY <1>2, ConnectsKeeps
  <2>3. \E attempt : ConnectWithRetry(attempt)
    BY <1>2 DEF Connects, Load, RetryTimer, Reconnect
  <2>4. QED BY <1>0, <2>1, <2>2, <2>3, ConnectQueued
<1>3. CASE Says
  <2>1. \/ UNCHANGED outbox
        \/ \E m : outbox' = Sent(outbox, m)
    BY <1>3, SaysKeeps DEF Submit, lineVars
  <2>2. UNCHANGED <<place, cur, sock, wire>>
    BY <1>3, SaysKeeps DEF Submit, lineVars
  <2>3. \A i \in Sockets : wire[i] # "in" => outbox'[i] = outbox[i]
    BY <1>0, <2>1 DEF Sent, TrafficTypes
  <2>4. QED BY <2>2, <2>3 DEF Queued, Inside
<1>4. CASE SkipQuestion
  <2>1. UNCHANGED <<place, cur, sock, wire>> /\ outbox' = Sent(outbox, [type |-> "skip"])
    BY <1>4 DEF SkipQuestion
  <2>2. \A i \in Sockets : wire[i] # "in" => outbox'[i] = outbox[i]
    BY <1>0, <2>1 DEF Sent, TrafficTypes
  <2>3. QED BY <2>1, <2>2 DEF Queued, Inside
<1>5. CASE ServerEnds
  BY <1>5 DEF ServerEnds, ServerAlone, Queued, Inside
<1>6. QED BY <1>0, <1>1, <1>2, <1>3, <1>4, <1>5, Steps, DepartsQueued, ClosedQueued, MessageQueued,
             ServedQueued

-----------------------------------------------------------------------------
(* The answers. *)

\* Steps that move no answer.
LEMMA NothingMoves ==
  ASSUME Accounted, UNCHANGED <<outbox, pending, answers, lost, srv>>
  PROVE  Accounted'
  BY DEF Accounted

\* Leaving the page takes what it kept along.
LEMMA LeaveAccounted ==
  ASSUME Accounted, UNCHANGED <<outbox, answers, srv>>, NEW rs, NEW to, LeaveFrom(rs, to)
  PROVE  Accounted'
<1>1. pending' = <<>> /\ lost' = lost \cup Numbers(pending)
  BY DEF LeaveFrom, Numbers
<1>2. Numbers(pending') = {} /\ Distinct(pending')
  BY <1>1, NoAnswers
<1>3. QED BY <1>1, <1>2 DEF Accounted

LEMMA SubmitAccounted ==
  ASSUME Accounted, TrafficTypes, view.current \in 0..Texts, answers + 1 <= MaxAnswers,
         cur \in Sockets \cup {0}, Submit, UNCHANGED srv
  PROVE  Accounted'
<1> DEFINE a == [n |-> answers + 1, text |-> view.current]
           m == [type |-> "answer", a |-> a]
<1>1. answers \in Nat /\ answers' = answers + 1 /\ a \in Answer /\ m \in ClientMsg
  BY RoomAssumption DEF TrafficTypes, Answer, ClientMsg, Submit
<1>2. \A n : n \in 1..answers' <=> n \in 1..answers \/ n = answers + 1
  BY <1>1
<1>3. answers + 1 \notin 1..answers
  BY <1>1
<1>4. /\ answers + 1 \notin lost /\ answers + 1 \notin Numbers(srv.log)
      /\ answers + 1 \notin Numbers(pending)
      /\ \A i \in Sockets : answers + 1 \notin AnswersIn(outbox[i])
  BY <1>3 DEF Accounted
<1>5. a.n = answers + 1 /\ m.type = "answer" /\ m.a.n = answers + 1
  OBVIOUS
<1> HIDE DEF a, m
<1>6. CASE ~CanSend
  <2>1. pending' = Append(pending, a) /\ UNCHANGED <<outbox, lost>>
    BY <1>6 DEF Submit, a
  <2>2. Numbers(pending') = Numbers(pending) \cup {answers + 1} /\ Distinct(pending')
    BY <1>1, <1>4, <1>5, <2>1, AppendNumber DEF TrafficTypes, Accounted
  <2>3. Numbers(srv.log) \cap Numbers(pending') = {}
    BY <1>4, <2>2 DEF Accounted
  <2>4. \A i \in Sockets : AnswersIn(outbox[i]) \cap (Numbers(srv.log) \cup Numbers(pending')) = {}
    BY <1>4, <2>2 DEF Accounted
  <2>5. \A n : n \in 1..answers' <=> \/ n \in lost \/ n \in Numbers(srv.log) \/ n \in Numbers(pending')
                                     \/ \E i \in Sockets : n \in AnswersIn(outbox[i])
    BY <1>2, <2>2 DEF Accounted
  <2>6. QED BY <2>1, <2>2, <2>3, <2>4, <2>5 DEF Accounted
<1>7. CASE CanSend /\ wire[cur] # "in"
  <2>1. outbox' = outbox /\ UNCHANGED pending
    BY <1>7 DEF Submit, Sent, TrafficTypes
  <2>2. lost' = lost \cup {answers + 1}
    <3>1. lost' = lost \cup {<<a>>[k].n : k \in DOMAIN <<a>>}
      BY <1>7 DEF Submit, Losing, a
    <3>2. \A k \in DOMAIN <<a>> : <<a>>[k].n = answers + 1
      BY <1>5
    <3>3. 1 \in DOMAIN <<a>>
      OBVIOUS
    <3>4. QED BY <3>1, <3>2, <3>3
  <2>3. QED BY <1>2, <1>4, <2>1, <2>2 DEF Accounted
<1>8. CASE CanSend /\ wire[cur] = "in"
  <2>1. cur \in Sockets /\ UNCHANGED <<pending, lost>>
    BY <1>8 DEF CanSend, Submit, Losing
  <2>2. outbox' = [outbox EXCEPT ![cur] = Append(@, m)]
    BY <1>8 DEF Submit, Sent, a, m
  <2>3. \A i \in Sockets : outbox'[i] = IF i = cur THEN Append(outbox[cur], m) ELSE outbox[i]
    BY <2>1, <2>2 DEF TrafficTypes
  <2>4. /\ AnswersIn(outbox'[cur]) = AnswersIn(outbox[cur]) \cup {answers + 1}
        /\ OnceIn(outbox'[cur])
    <3>1. outbox[cur] \in Seq(ClientMsg) /\ OnceIn(outbox[cur])
      BY <2>1 DEF TrafficTypes, Accounted
    <3>2. QED BY <1>1, <1>4, <1>5, <2>1, <2>3, <3>1, AppendMessage
  <2>5. \A i \in Sockets : i # cur => outbox'[i] = outbox[i]
    BY <2>3
  <2>6. \A i \in Sockets : /\ OnceIn(outbox'[i])
                           /\ AnswersIn(outbox'[i]) \cap (Numbers(srv.log) \cup Numbers(pending)) = {}
    BY <1>4, <2>4, <2>5 DEF Accounted
  <2>7. \A i, j \in Sockets : i # j => AnswersIn(outbox'[i]) \cap AnswersIn(outbox'[j]) = {}
    BY <1>4, <2>4, <2>5 DEF Accounted
  <2>8. \A n : (\E i \in Sockets : n \in AnswersIn(outbox'[i]))
                <=> n = answers + 1 \/ \E i \in Sockets : n \in AnswersIn(outbox[i])
    BY <2>1, <2>4, <2>5
  <2>9. \A n : n \in 1..answers' <=> \/ n \in lost \/ n \in Numbers(srv.log) \/ n \in Numbers(pending)
                                     \/ \E i \in Sockets : n \in AnswersIn(outbox'[i])
    BY <1>2, <2>8 DEF Accounted
  <2>10. QED BY <2>1, <2>6, <2>7, <2>9 DEF Accounted
<1>9. QED BY <1>6, <1>7, <1>8

\* session_started: what was kept is now on its way, or goes into a connection that is cut.
LEMMA FlushAccounted ==
  ASSUME Accounted, TrafficTypes, CanSend, cur \in Sockets,
         outbox' = FlushTo(outbox), lost' = Losing(pending), pending' = <<>>,
         UNCHANGED <<answers, srv>>
  PROVE  Accounted'
<1> DEFINE sent == [k \in DOMAIN pending |-> [type |-> "answer", a |-> pending[k]]]
<1>1. Numbers(pending') = {} /\ Distinct(pending')
  BY NoAnswers
<1>2. CASE wire[cur] # "in"
  <2>1. outbox' = outbox
    BY <1>2 DEF FlushTo, TrafficTypes
  <2>2. lost' = lost \cup Numbers(pending)
    BY <1>2 DEF Losing, Numbers
  <2>3. QED BY <1>1, <2>1, <2>2 DEF Accounted
<1>3. CASE wire[cur] = "in"
  <2>1. lost' = lost
    BY <1>3 DEF Losing
  <2>2. \A i \in Sockets : outbox'[i] = IF i = cur THEN outbox[cur] \o sent ELSE outbox[i]
    BY <1>3 DEF FlushTo, TrafficTypes
  <2>3. /\ AnswersIn(outbox'[cur]) = AnswersIn(outbox[cur]) \cup Numbers(pending)
        /\ OnceIn(outbox'[cur])
    <3>1. /\ outbox[cur] \in Seq(ClientMsg) /\ pending \in Seq(Answer) /\ OnceIn(outbox[cur])
          /\ Distinct(pending) /\ AnswersIn(outbox[cur]) \cap Numbers(pending) = {}
      BY DEF TrafficTypes, Accounted
    <3>2. /\ AnswersIn(outbox[cur] \o sent) = AnswersIn(outbox[cur]) \cup Numbers(pending)
          /\ OnceIn(outbox[cur] \o sent)
      BY <3>1, FlushMessages, Zenon
    <3>3. QED BY <2>2, <3>2
  <2>4. \A i \in Sockets : i # cur => outbox'[i] = outbox[i]
    BY <2>2
  <2>5. \A i \in Sockets : OnceIn(outbox'[i]) /\ AnswersIn(outbox'[i]) \cap Numbers(srv.log) = {}
    <3>1. OnceIn(outbox'[cur]) /\ AnswersIn(outbox'[cur]) \cap Numbers(srv.log) = {}
      BY <2>3 DEF Accounted
    <3>2. QED BY <2>4, <3>1 DEF Accounted
  <2>6. \A i, j \in Sockets : i # j => AnswersIn(outbox'[i]) \cap AnswersIn(outbox'[j]) = {}
    <3>1. \A i \in Sockets : i # cur => AnswersIn(outbox'[i]) \cap AnswersIn(outbox'[cur]) = {}
      BY <2>3, <2>4 DEF Accounted
    <3>2. QED BY <2>4, <3>1 DEF Accounted
  <2>7. \A n : (\E i \in Sockets : n \in AnswersIn(outbox'[i]))
                <=> n \in Numbers(pending) \/ \E i \in Sockets : n \in AnswersIn(outbox[i])
    BY <2>3, <2>4
  <2>8. QED BY <1>1, <2>1, <2>5, <2>6, <2>7 DEF Accounted
<1>4. QED BY <1>2, <1>3

LEMMA MessageAccounted ==
  ASSUME Accounted, TrafficTypes, LineInv, NEW i \in Sockets, OnMessage(i)
  PROVE  Accounted'
<1>1. UNCHANGED <<answers, srv>> /\ place = "room" /\ sock[i] = "open"
  BY DEF OnMessage, OnSessionStarted, OnQuestion, OnStatus, OnError, OnDone, OnClosing, Receive
<1>2. CASE OnSessionStarted(i)
  <2>1. CanSend /\ cur \in Sockets
    <3>1. i = cur
      BY <1>1 DEF LineInv, OthersClosed, Inside
    <3>2. QED BY <1>1, <3>1, RoomAssumption DEF CanSend
  <2>2. outbox' = FlushTo(outbox) /\ lost' = Losing(pending) /\ pending' = <<>>
    BY <1>2, <2>1 DEF OnSessionStarted
  <2>3. QED BY <1>1, <2>1, <2>2, FlushAccounted
<1>3. CASE UNCHANGED <<outbox, pending, lost>>
  BY <1>1, <1>3, NothingMoves
<1>4. CASE LeaveFrom(reads, "report") /\ UNCHANGED outbox
  BY <1>1, <1>4, LeaveAccounted
<1>5. QED BY <1>2, <1>3, <1>4 DEF OnMessage, OnQuestion, OnStatus, OnError, OnDone, OnClosing, Leave

\* The server takes the first message of a connection: an answer is recorded or lost.
LEMMA ReadAccounted ==
  ASSUME Accounted, TrafficTypes, NEW i \in Sockets, ServerReads(i)
  PROVE  Accounted'
<1> DEFINE h == Head(outbox[i])
<1>1. /\ outbox[i] \in Seq(ClientMsg) /\ outbox[i] # <<>> /\ OnceIn(outbox[i]) /\ h \in ClientMsg
      /\ outbox' = [outbox EXCEPT ![i] = Tail(@)] /\ UNCHANGED <<pending, answers>>
  BY DEF ServerReads, ServerAlone, TrafficTypes, Accounted
<1>2. /\ OnceIn(Tail(outbox[i]))
      /\ h.type = "answer" =>
           h.a.n \in AnswersIn(outbox[i]) /\ AnswersIn(Tail(outbox[i])) = AnswersIn(outbox[i]) \ {h.a.n}
      /\ h.type # "answer" => AnswersIn(Tail(outbox[i])) = AnswersIn(outbox[i])
  BY <1>1, TailMessages
<1>3. \A j \in Sockets : outbox'[j] = IF j = i THEN Tail(outbox[i]) ELSE outbox[j]
  BY <1>1 DEF TrafficTypes
<1>4. CASE h.type = "answer" /\ Answered(i, h.a)
  <2>1. h.a \in Answer
    BY <1>1, <1>4 DEF ClientMsg
  <2>2. /\ \A j \in Sockets : OnceIn(outbox'[j])
        /\ AnswersIn(outbox'[i]) = AnswersIn(outbox[i]) \ {h.a.n}
        /\ h.a.n \in AnswersIn(outbox[i])
        /\ \A j \in Sockets : j # i => AnswersIn(outbox'[j]) = AnswersIn(outbox[j])
    BY <1>2, <1>3, <1>4 DEF Accounted
  <2>3. \A j \in Sockets : h.a.n \notin AnswersIn(outbox'[j])
    BY <2>2 DEF Accounted
  <2>4. \A j \in Sockets : AnswersIn(outbox'[j]) \subseteq AnswersIn(outbox[j])
    BY <2>2
  <2>5. h.a.n \notin Numbers(srv.log) /\ h.a.n \notin Numbers(pending)
    BY <2>2 DEF Accounted
  <2>6. \A n : (\E j \in Sockets : n \in AnswersIn(outbox[j]))
                <=> n = h.a.n \/ \E j \in Sockets : n \in AnswersIn(outbox'[j])
    BY <2>2
  <2>7. \A j, k \in Sockets : j # k => AnswersIn(outbox'[j]) \cap AnswersIn(outbox'[k]) = {}
    BY <2>4 DEF Accounted
  <2>8. CASE lost' = lost \cup {h.a.n} /\ UNCHANGED srv
    <3>1. \A j \in Sockets : AnswersIn(outbox'[j]) \cap (Numbers(srv.log) \cup Numbers(pending)) = {}
      BY <2>4 DEF Accounted
    <3>2. QED BY <1>1, <2>2, <2>6, <2>7, <2>8, <3>1 DEF Accounted
  <2>9. CASE UNCHANGED lost /\ srv'.log = Append(srv.log, h.a)
    <3>1. Numbers(srv'.log) = Numbers(srv.log) \cup {h.a.n} /\ Distinct(srv'.log)
      BY <2>1, <2>5, <2>9, AppendNumber DEF TrafficTypes, Accounted
    <3>2. Numbers(srv'.log) \cap Numbers(pending) = {}
      BY <2>5, <3>1 DEF Accounted
    <3>3. \A j \in Sockets : AnswersIn(outbox'[j]) \cap (Numbers(srv'.log) \cup Numbers(pending)) = {}
      BY <2>3, <2>4, <3>1 DEF Accounted
    <3>4. \A n : n \in 1..answers <=> \/ n \in lost \/ n \in Numbers(srv'.log) \/ n \in Numbers(pending)
                                      \/ \E j \in Sockets : n \in AnswersIn(outbox'[j])
      BY <2>6, <3>1 DEF Accounted
    <3>5. QED BY <1>1, <2>2, <2>7, <2>9, <3>1, <3>2, <3>3, <3>4 DEF Accounted
  <2>10. \/ lost' = lost \cup {h.a.n} /\ UNCHANGED srv
         \/ UNCHANGED lost /\ srv'.log = Append(srv.log, h.a)
    <3>1. \/ lost' = lost \cup {h.a.n} /\ UNCHANGED srv
          \/ UNCHANGED lost /\ srv' = [srv EXCEPT !.text = @ + 1, !.log = Append(@, h.a)]
          \/ UNCHANGED lost /\ srv' = [srv EXCEPT !.phase = "completed", !.log = Append(@, h.a)]
          \/ UNCHANGED lost /\ srv' = [srv EXCEPT !.log = Append(@, h.a)]
      BY <1>4 DEF Answered
    <3>2. QED BY <3>1 DEF TrafficTypes
  <2>11. QED BY <2>8, <2>9, <2>10
<1>5. CASE h.type = "skip" /\ Skipped(i)
  <2>1. UNCHANGED lost /\ srv'.log = srv.log
    BY <1>5 DEF Skipped, TrafficTypes
  <2>2. \A j \in Sockets : OnceIn(outbox'[j]) /\ AnswersIn(outbox'[j]) = AnswersIn(outbox[j])
    BY <1>2, <1>3, <1>5 DEF Accounted
  <2>3. QED BY <1>1, <2>1, <2>2 DEF Accounted
<1>6. QED BY <1>4, <1>5 DEF ServerReads

LEMMA CutAccounted ==
  ASSUME Accounted, TrafficTypes, NEW i \in Sockets, Cut(i)
  PROVE  Accounted'
<1>1. /\ outbox' = [outbox EXCEPT ![i] = <<>>] /\ UNCHANGED <<pending, answers, srv>>
      /\ lost' = lost \cup AnswersIn(outbox[i])
  BY DEF Cut, ServerAlone, AnswersIn
<1>2. \A j \in Sockets : outbox'[j] = IF j = i THEN <<>> ELSE outbox[j]
  BY <1>1 DEF TrafficTypes
<1>3. /\ AnswersIn(outbox'[i]) = {} /\ OnceIn(outbox'[i])
      /\ \A j \in Sockets : j # i => outbox'[j] = outbox[j]
  BY <1>2, NoAnswers
<1>4. \A n : (\E j \in Sockets : n \in AnswersIn(outbox[j]))
              <=> n \in AnswersIn(outbox[i]) \/ \E j \in Sockets : n \in AnswersIn(outbox'[j])
  BY <1>3
<1>5. \A j \in Sockets : OnceIn(outbox'[j]) /\ AnswersIn(outbox'[j]) \subseteq AnswersIn(outbox[j])
  BY <1>3 DEF Accounted
<1>6. \A j, k \in Sockets : j # k => AnswersIn(outbox'[j]) \cap AnswersIn(outbox'[k]) = {}
  BY <1>5 DEF Accounted
<1>7. QED BY <1>1, <1>4, <1>5, <1>6 DEF Accounted

LEMMA SkipAccounted ==
  ASSUME Accounted, TrafficTypes, cur \in Sockets \cup {0}, SkipQuestion
  PROVE  Accounted'
<1> DEFINE m == [type |-> "skip"]
<1>1. /\ cur \in Sockets /\ UNCHANGED <<pending, answers, lost, srv>>
      /\ outbox' = [outbox EXCEPT ![cur] = IF wire[cur] = "in" THEN Append(@, m) ELSE @]
  BY DEF SkipQuestion, CanSend, Sent
<1>2. m \in ClientMsg /\ m.type # "answer"
  BY DEF ClientMsg
<1> HIDE DEF m
<1>3. \A i \in Sockets : outbox'[i] = IF i = cur /\ wire[cur] = "in" THEN Append(outbox[cur], m)
                                                                     ELSE outbox[i]
  BY <1>1 DEF TrafficTypes
<1>4. outbox[cur] \in Seq(ClientMsg) /\ OnceIn(outbox[cur])
  BY <1>1 DEF TrafficTypes, Accounted
<1>5. AnswersIn(Append(outbox[cur], m)) = AnswersIn(outbox[cur]) /\ OnceIn(Append(outbox[cur], m))
  BY <1>2, <1>4, AppendMessage
<1>6. \A i \in Sockets : AnswersIn(outbox'[i]) = AnswersIn(outbox[i]) /\ OnceIn(outbox'[i])
  BY <1>3, <1>5 DEF Accounted
<1>7. QED BY <1>1, <1>6 DEF Accounted

LEMMA NextAccounted ==
  ASSUME RoomInv, Accounted, [Next]_vars
  PROVE  Accounted'
<1>0. /\ TrafficTypes /\ LineInv /\ cur \in Sockets \cup {0} /\ IsView(view)
      /\ view.current \in 0..Texts
  BY DEF RoomInv, Older, LineInv, LineType, CameraInv, PageTypes
<1>1. CASE Elsewhere
  BY <1>0, <1>1, ElsewhereKeeps, NothingMoves DEF lineVars
<1>2. CASE Connects
  BY <1>2, ConnectsKeeps, NothingMoves
<1>3. CASE Departs
  <2>1. UNCHANGED <<outbox, answers, srv>>
    BY <1>3, DepartsKeeps
  <2>2. UNCHANGED <<pending, lost>> \/ \E rs, to : LeaveFrom(rs, to)
    BY <1>3, DepartsKeeps
  <2>3. QED BY <2>1, <2>2, NothingMoves, LeaveAccounted
<1>4. CASE Says
  <2>1. UNCHANGED srv /\ (UNCHANGED lineVars \/ (Submit /\ (asr.stopped > 0 \/ asr.retrying)))
    BY <1>4, SaysKeeps
  <2>2. CASE UNCHANGED lineVars
    BY <2>1, <2>2, NothingMoves DEF lineVars
  <2>3. CASE Submit /\ (asr.stopped > 0 \/ asr.retrying)
    BY <1>0, <2>1, <2>3, SayingCounts, SubmitAccounted
  <2>4. QED BY <2>1, <2>2, <2>3
<1>5. CASE SkipQuestion
  BY <1>0, <1>5, SkipAccounted
<1>6. CASE ServerEnds
  <2>1. UNCHANGED <<outbox, pending, answers, lost>> /\ srv'.log = srv.log
    BY <1>0, <1>6 DEF ServerEnds, ServerAlone, TrafficTypes
  <2>2. QED BY <2>1 DEF Accounted
<1>7. ASSUME NEW i \in Sockets, SocketClosed(i) \/ Unanswered(i) \/ HangUp(i) PROVE Accounted'
  BY <1>7, NothingMoves DEF SocketClosed, Unanswered, HangUp, ServerAlone
<1>8. ASSUME NEW i \in Sockets, Accept(i) PROVE Accounted'
  <2>1. UNCHANGED <<outbox, pending, answers, lost>> /\ srv'.log = srv.log
    BY <1>0, <1>8 DEF Accept, ServerAlone, TrafficTypes
  <2>2. QED BY <2>1 DEF Accounted
<1>9. QED BY <1>0, <1>1, <1>2, <1>3, <1>4, <1>5, <1>6, <1>7, <1>8, Steps, MessageAccounted,
             ReadAccounted, CutAccounted

LEMMA InitAnswers == Init => Queued /\ Accounted
<1> SUFFICES ASSUME Init PROVE Queued /\ Accounted
  OBVIOUS
<1>1. /\ \A i \in Sockets : outbox[i] = <<>> /\ wire[i] = "none" /\ sock[i] = "closed"
      /\ pending = <<>> /\ answers = 0 /\ lost = {} /\ srv.log = <<>>
  BY DEF Init
<1>2. Queued
  BY <1>1 DEF Queued
<1>3. \A n : n \notin 1..answers
  BY <1>1
<1>4. \A i \in Sockets : AnswersIn(outbox[i]) = {} /\ OnceIn(outbox[i])
  BY <1>1, NoAnswers
<1>5. Numbers(pending) = {} /\ Distinct(pending) /\ Numbers(srv.log) = {} /\ Distinct(srv.log)
  BY <1>1, NoAnswers
<1>6. Accounted
  BY <1>1, <1>3, <1>4, <1>5 DEF Accounted
<1>7. QED BY <1>2, <1>6

LEMMA AnswersAccounted == Spec => []AnswerInv
<1>1. Init => AnswerInv
  BY InitRoom, InitAnswers DEF AnswerInv
<1>2. AnswerInv /\ [Next]_vars => AnswerInv'
  BY NextRoom, NextQueued, NextAccounted DEF AnswerInv
<1>3. QED BY <1>1, <1>2, PTL DEF Spec

\* submitAnswer, the queue that session_started flushes, and HandleAnswer: through any
\* number of cut, refused and reopened connections no answer is recorded, kept or on its
\* way twice.
THEOREM EachAnswerOnce == Spec => []AnsweredOnce
<1>1. AnswerInv => AnsweredOnce
  BY AccountedIsOnce DEF AnswerInv
<1>2. QED BY <1>1, AnswersAccounted, PTL

\* pendingAnswersRef: every answer that was given is recorded, kept or on its way, unless
\* it went down with a connection, with the page, or was refused by the server.
THEOREM NoAnswerDropped == Spec => []NothingDropped
<1>1. AnswerInv => NothingDropped
  BY AccountedIsOnce DEF AnswerInv
<1>2. QED BY <1>1, AnswersAccounted, PTL

-----------------------------------------------------------------------------
(* What the page shows once its messages are delivered. *)

\* The text of the last question of a queue, and what is shown if it has none.
Asks(q) == {k \in DOMAIN q : q[k].type = "question"}
Leads(q, shown, t) ==
  \/ Asks(q) = {} /\ shown = t
  \/ \E k \in Asks(q) : q[k].text = t /\ \A j \in Asks(q) : j <= k

\* A page in a connection that is in the room will show what the server waits on.
Shows ==
  Inside /\ srv.phase = "in_progress" =>
    \A i \in Sockets : wire[i] = "in" => Leads(inbox[i], view.current, srv.text)

LEMMA LeadsTail ==
  ASSUME NEW S, NEW q \in Seq(S), q # <<>>, NEW shown, NEW t, Leads(q, shown, t)
  PROVE  Leads(Tail(q), IF Head(q).type = "question" THEN Head(q).text ELSE shown, t)
<1> DEFINE r == Tail(q)
<1>1. /\ 1 \in DOMAIN q /\ Head(q) = q[1]
      /\ \A k \in DOMAIN r : k \in Nat \ {0} /\ k + 1 \in DOMAIN q /\ r[k] = q[k + 1]
      /\ \A k \in DOMAIN q : k = 1 \/ \E j \in DOMAIN r : k = j + 1
  BY TailPlaces
<1> HIDE DEF r
<1>2. \A k \in DOMAIN r : k \in Asks(r) <=> k + 1 \in Asks(q)
  BY <1>1 DEF Asks
<1>3. CASE Asks(r) = {}
  <2>1. Asks(q) \subseteq {1}
    BY <1>1, <1>2, <1>3 DEF Asks
  <2>2. CASE Asks(q) = {}
    BY <1>1, <1>3, <2>2 DEF Leads, Asks, r
  <2>3. CASE Asks(q) = {1}
    BY <1>1, <1>3, <2>3 DEF Leads, Asks, r
  <2>4. QED BY <2>1, <2>2, <2>3
<1>4. CASE Asks(r) # {}
  <2>1. PICK k \in Asks(q) : q[k].text = t /\ \A j \in Asks(q) : j <= k
    BY <1>2, <1>4 DEF Leads, Asks
  <2>2. PICK v \in DOMAIN r : v \in Asks(r) /\ v + 1 \in Asks(q) /\ v \in Nat \ {0}
    BY <1>1, <1>2, <1>4 DEF Asks
  <2>3. k # 1
    BY <2>1, <2>2
  <2>4. PICK w \in DOMAIN r : k = w + 1
    BY <1>1, <2>1, <2>3 DEF Asks
  <2>5. w \in Asks(r) /\ r[w].text = t
    BY <1>1, <1>2, <2>1, <2>4
  <2>6. \A j \in Asks(r) : j <= w
    BY <1>1, <1>2, <2>1, <2>4 DEF Asks
  <2>7. QED BY <2>5, <2>6 DEF Leads, r
<1>5. QED BY <1>3, <1>4

\* Messages behind a queue: with a question they decide, without one they change nothing.
LEMMA LeadsConcat ==
  ASSUME NEW S, NEW q \in Seq(S), NEW r \in Seq(S), NEW shown, NEW t,
         \/ Asks(r) = {} /\ Leads(q, shown, t)
         \/ Asks(r) # {} /\ Leads(r, shown, t)
  PROVE  Leads(q \o r, shown, t)
<1>1. PICK l \in Nat :
        /\ DOMAIN q = 1..l
        /\ \A k \in DOMAIN q : k \in DOMAIN (q \o r) /\ (q \o r)[k] = q[k]
        /\ \A k \in DOMAIN r : /\ k \in Nat \ {0} /\ l + k \in DOMAIN (q \o r)
                               /\ (q \o r)[l + k] = r[k]
        /\ \A k \in DOMAIN (q \o r) : k \in DOMAIN q \/ \E j \in DOMAIN r : k = l + j
  BY ConcatPlaces, Zenon
<1> DEFINE u == q \o r
<1>2. /\ \A k \in DOMAIN q : k \in DOMAIN u /\ u[k] = q[k]
      /\ \A k \in DOMAIN r : k \in Nat \ {0} /\ l + k \in DOMAIN u /\ u[l + k] = r[k]
      /\ \A k \in DOMAIN u : k \in DOMAIN q \/ \E j \in DOMAIN r : k = l + j
  BY <1>1, Zenon
<1>3. \A k \in DOMAIN q : k \in 1..l
  BY <1>1
<1> HIDE DEF u
<1>4. \A k \in Asks(q) : k \in Asks(u) /\ u[k].text = q[k].text /\ k \in 1..l
  BY <1>2, <1>3 DEF Asks
<1>5. \A k \in Asks(r) : l + k \in Asks(u) /\ u[l + k].text = r[k].text /\ k \in Nat \ {0}
  BY <1>2 DEF Asks
<1>6. \A k \in Asks(u) : k \in Asks(q) \/ \E j \in Asks(r) : k = l + j
  BY <1>2 DEF Asks
<1>7. CASE Asks(r) = {} /\ Leads(q, shown, t)
  <2>1. Asks(u) = Asks(q) /\ \A k \in Asks(q) : u[k].text = q[k].text
    BY <1>4, <1>6, <1>7
  <2>2. QED BY <1>7, <2>1 DEF Leads, u
<1>8. CASE Asks(r) # {} /\ Leads(r, shown, t)
  <2>1. PICK k \in Asks(r) : r[k].text = t /\ \A j \in Asks(r) : j <= k
    BY <1>8 DEF Leads
  <2>2. l + k \in Asks(u) /\ u[l + k].text = t
    BY <1>5, <2>1
  <2>3. \A j \in Asks(u) : j <= l + k
    BY <1>4, <1>5, <1>6, <2>1
  <2>4. QED BY <2>2, <2>3 DEF Leads, u
<1>9. QED BY <1>7, <1>8

LEMMA LeadsAppend ==
  ASSUME NEW q \in Seq(ServerMsg), NEW m \in ServerMsg, NEW shown, NEW t,
         m.type # "question", Leads(q, shown, t)
  PROVE  Leads(Append(q, m), shown, t)
<1>1. <<m>> \in Seq(ServerMsg) /\ Asks(<<m>>) = {}
  BY DEF Asks
<1>2. Append(q, m) = q \o <<m>>
  BY AppendIsConcat, Zenon
<1>3. Leads(q \o <<m>>, shown, t)
  BY <1>1, LeadsConcat, Zenon
<1>4. QED BY <1>2, <1>3

LEMMA NewQuestion ==
  ASSUME NEW shown, NEW t
  PROVE  /\ Asks(<<Msg("question", t)>>) # {} /\ Leads(<<Msg("question", t)>>, shown, t)
         /\ \A k \in {"thinking", "session_started"} :
              /\ Asks(<<Msg(k, 0), Msg("question", t)>>) # {}
              /\ Leads(<<Msg(k, 0), Msg("question", t)>>, shown, t)
<1>1. Asks(<<Msg("question", t)>>) = {1}
  BY DEF Asks, Msg
<1>2. \A k \in {"thinking", "session_started"} : Asks(<<Msg(k, 0), Msg("question", t)>>) = {2}
  BY DEF Asks, Msg
<1>3. <<Msg("question", t)>>[1].text = t
  BY DEF Msg
<1>4. \A k : <<Msg(k, 0), Msg("question", t)>>[2].text = t
  BY DEF Msg
<1>5. QED BY <1>1, <1>2, <1>3, <1>4 DEF Leads

\* Only a question changes the text that is shown.
LEMMA CurrentStays ==
  ASSUME IsView(view), Connects \/ Departs \/ Says
  PROVE  view'.current = view.current
<1>1. \/ UNCHANGED view
      \/ view' = [view EXCEPT !.error = TRUE]
      \/ view' = [view EXCEPT !.disconnected = FALSE, !.error = FALSE, !.fatal = FALSE]
      \/ view' = [view EXCEPT !.phase = "sending"]
      \/ view' = [view EXCEPT !.phase = "idle"]
      \/ view' = [view EXCEPT !.done = TRUE]
  BY DEF Connects, Load, RetryTimer, Reconnect, ConnectWithRetry, Departs, GoBack, LoggedOut,
         EndReturns, AfterClosing, Says, Recognised, RetryRecognised
<1>2. QED BY <1>1 DEF IsView, ViewFields

LEMMA CurrentOnClose ==
  ASSUME IsView(view), OnClose
  PROVE  view'.current = view.current
<1>1. UNCHANGED view \/ view' = Disconnected(view) \/ view' = Resting(view)
  BY DEF OnClose
<1>2. QED BY <1>1 DEF IsView, ViewFields, Disconnected, Resting

LEMMA CurrentOnMessage ==
  ASSUME IsView(view), NEW i \in Sockets, OnMessage(i)
  PROVE  /\ sock[i] = "open" /\ place = "room" /\ inbox[i] # <<>>
         /\ inbox' = [inbox EXCEPT ![i] = Tail(@)] /\ UNCHANGED <<wire, srv>>
         /\ view'.current = IF Head(inbox[i]).type = "question" THEN Head(inbox[i]).text
                                                                ELSE view.current
<1>1. /\ sock[i] = "open" /\ place = "room" /\ inbox[i] # <<>>
      /\ inbox' = [inbox EXCEPT ![i] = Tail(@)] /\ UNCHANGED <<wire, srv>>
  BY DEF OnMessage, OnSessionStarted, OnQuestion, OnStatus, OnError, OnDone, OnClosing, Receive
<1>2. CASE OnQuestion(i)
  BY <1>2 DEF OnQuestion, Receive, Asked, Resting, IsView, ViewFields
<1>3. CASE ~OnQuestion(i)
  <2>1. Head(inbox[i]).type # "question"
    BY <1>3 DEF OnMessage, OnSessionStarted, OnStatus, OnError, OnDone, OnClosing, Receive
  <2>2. \/ view' = [view EXCEPT !.disconnected = FALSE, !.phase = "idle"]
        \/ view' = [view EXCEPT !.thinking = TRUE, !.phase = "idle"]
        \/ view' = [view EXCEPT !.thinking = FALSE]
        \/ view' = [Disconnected(view) EXCEPT !.fatal = TRUE]
        \/ view' = [Resting(view) EXCEPT !.done = TRUE]
    BY <1>3 DEF OnMessage, OnSessionStarted, OnStatus, OnError, OnDone, OnClosing
  <2>3. view'.current = view.current
    BY <2>2 DEF IsView, ViewFields, Disconnected, Resting
  <2>4. QED BY <1>1, <2>1, <2>3
<1>4. QED BY <1>1, <1>2, <1>3

\* Steps that leave the connections in the room, the text and what is on the way alone.
LEMMA SameShows ==
  ASSUME Shows, Inside' => Inside, view'.current = view.current, UNCHANGED <<inbox, srv>>,
         \A i \in Sockets : wire'[i] = "in" => wire[i] = "in"
  PROVE  Shows'
  BY DEF Shows

LEMMA AcceptShows ==
  ASSUME Queued, LineInv, TrafficTypes, NEW i \in Sockets, Accept(i)
  PROVE  Shows'
<1>1. sock[i] = "connecting" /\ wire[i] = "dialing" /\ UNCHANGED <<place, view>>
  BY DEF Accept, ServerAlone
<1>2. i = cur /\ Inside
  BY <1>1, RoomAssumption DEF LineInv, OthersClosed
<1>3. \A j \in Sockets : j # i => wire'[j] # "in"
  BY <1>1, <1>2 DEF Queued, Accept, TrafficTypes
<1>4. CASE wire'[i] # "in"
  BY <1>3, <1>4 DEF Shows
<1>5. CASE wire'[i] = "in"
  <2>1. inbox' = [inbox EXCEPT ![i] = <<Msg("session_started", 0), Msg("question", srv'.text)>>]
    BY <1>5 DEF Accept, TrafficTypes
  <2>2. inbox'[i] = <<Msg("session_started", 0), Msg("question", srv'.text)>>
    BY <2>1 DEF TrafficTypes
  <2>3. Leads(inbox'[i], view'.current, srv'.text)
    BY <2>2, NewQuestion, Zenon
  <2>4. QED BY <1>3, <2>3 DEF Shows
<1>6. QED BY <1>4, <1>5

LEMMA MessageShows ==
  ASSUME Shows, TrafficTypes, IsView(view), LineInv, Queued, NEW i \in Sockets, OnMessage(i)
  PROVE  Shows'
<1>1. /\ sock[i] = "open" /\ place = "room" /\ inbox[i] # <<>>
      /\ inbox' = [inbox EXCEPT ![i] = Tail(@)] /\ UNCHANGED <<wire, srv>>
      /\ view'.current = IF Head(inbox[i]).type = "question" THEN Head(inbox[i]).text
                                                             ELSE view.current
  BY CurrentOnMessage
<1>2. Inside /\ i = cur
  BY <1>1 DEF LineInv, OthersClosed, Inside
<1>3. \A j \in Sockets : j # i => wire[j] # "in"
  BY <1>2 DEF Queued
<1>4. inbox'[i] = Tail(inbox[i]) /\ inbox[i] \in Seq(ServerMsg)
  BY <1>1 DEF TrafficTypes
<1>5. ASSUME srv.phase = "in_progress", wire[i] = "in"
      PROVE  Leads(inbox'[i], view'.current, srv'.text)
  <2>1. Leads(inbox[i], view.current, srv.text)
    BY <1>2, <1>5 DEF Shows
  <2>2. Leads(Tail(inbox[i]), IF Head(inbox[i]).type = "question" THEN Head(inbox[i]).text
                                                                  ELSE view.current, srv.text)
    BY <1>1, <1>4, <2>1, LeadsTail, Zenon
  <2>3. QED BY <1>1, <1>4, <2>2
<1>6. QED BY <1>1, <1>3, <1>5 DEF Shows

\* Put in a connection of which the page hears.
LEMMA PutShows ==
  ASSUME TrafficTypes, Queued, NEW i \in Sockets, wire[i] = "in", Inside, NEW ms \in Seq(ServerMsg),
         NEW shown, NEW t, inbox' = Put(i, ms), UNCHANGED wire,
         \/ Asks(ms) = {} /\ Leads(inbox[i], shown, t)
         \/ Asks(ms) # {} /\ Leads(ms, shown, t)
  PROVE  \A j \in Sockets : wire'[j] = "in" => Leads(inbox'[j], shown, t)
<1>1. i = cur /\ sock[i] = "open" /\ \A j \in Sockets : wire[j] = "in" => j = i
  BY DEF Queued
<1>2. inbox'[i] = inbox[i] \o ms /\ inbox[i] \in Seq(ServerMsg)
  BY <1>1 DEF Put, TrafficTypes
<1>3. Leads(inbox[i] \o ms, shown, t)
  BY <1>2, LeadsConcat, Zenon
<1>4. QED BY <1>1, <1>2, <1>3

LEMMA ReadShows ==
  ASSUME Shows, TrafficTypes, Queued, NEW i \in Sockets, ServerReads(i)
  PROVE  Shows'
<1>1. wire[i] = "in" /\ UNCHANGED <<wire, place, view>>
  BY DEF ServerReads, ServerAlone
<1>2. SUFFICES ASSUME Inside, srv.phase = "in_progress", srv'.phase = "in_progress"
               PROVE  \A j \in Sockets : wire'[j] = "in" => Leads(inbox'[j], view.current, srv'.text)
  <2>1. srv.phase # "in_progress" => UNCHANGED srv
    BY DEF ServerReads, Answered, Skipped
  <2>2. QED BY <1>1, <2>1 DEF Shows, Inside
<1>3. Leads(inbox[i], view.current, srv.text)
  BY <1>1, <1>2 DEF Shows
<1>4. srv.text \in 0..Texts /\ srv.text + 1 \in Int /\ 0 \in 0..Texts
  BY RoomAssumption DEF TrafficTypes
<1>5. ASSUME srv'.text = srv.text, inbox' = Put(i, <<Msg("status", 0)>>)
      PROVE  \A j \in Sockets : wire'[j] = "in" => Leads(inbox'[j], view.current, srv'.text)
  <2>1. <<Msg("status", 0)>> \in Seq(ServerMsg) /\ Asks(<<Msg("status", 0)>>) = {}
    BY <1>4, MessageTypes DEF Asks, Msg
  <2>2. QED BY <1>1, <1>2, <1>3, <1>5, <2>1, PutShows
<1>6. ASSUME srv.text < Texts, srv'.text = srv.text + 1,
             \/ inbox' = Put(i, <<Msg("thinking", 0), Msg("question", srv.text + 1)>>)
             \/ inbox' = Put(i, <<Msg("question", srv.text + 1)>>)
      PROVE  \A j \in Sockets : wire'[j] = "in" => Leads(inbox'[j], view.current, srv'.text)
  <2>1. srv.text + 1 \in 0..Texts
    BY <1>4, <1>6, RoomAssumption
  <2>2. /\ <<Msg("thinking", 0), Msg("question", srv.text + 1)>> \in Seq(ServerMsg)
        /\ <<Msg("question", srv.text + 1)>> \in Seq(ServerMsg)
    BY <1>4, <2>1, MessageTypes
  <2>3. PICK ms \in Seq(ServerMsg) : /\ inbox' = Put(i, ms) /\ Asks(ms) # {}
                                     /\ Leads(ms, view.current, srv.text + 1)
    BY <1>6, <2>2, NewQuestion
  <2>4. QED BY <1>1, <1>2, <1>6, <2>3, PutShows
<1>7. \/ srv'.text = srv.text /\ inbox' = Put(i, <<Msg("status", 0)>>)
      \/ /\ srv.text < Texts /\ srv'.text = srv.text + 1
         /\ \/ inbox' = Put(i, <<Msg("thinking", 0), Msg("question", srv.text + 1)>>)
            \/ inbox' = Put(i, <<Msg("question", srv.text + 1)>>)
  <2>1. CASE Answered(i, Head(outbox[i]).a)
    BY <1>2, <2>1 DEF Answered, TrafficTypes
  <2>2. CASE Skipped(i)
    BY <1>2, <2>2 DEF Skipped, TrafficTypes
  <2>3. QED BY <2>1, <2>2 DEF ServerReads
<1>8. QED BY <1>5, <1>6, <1>7

LEMMA NextShows ==
  ASSUME RoomInv, Queued, Shows, [Next]_vars
  PROVE  Shows'
<1>0. TrafficTypes /\ LineInv /\ IsView(view)
  BY DEF RoomInv, Older, CameraInv
<1>1. CASE Elsewhere
  BY <1>0, <1>1, ElsewhereKeeps, SameShows DEF Inside, lineVars
<1>2. CASE Connects
  <2>1. Inside
    BY <1>0, <1>2 DEF Connects, Load, RetryTimer, Reconnect, MayReconnect, LineInv, MayConnect, Inside
  <2>2. \A i \in Sockets : wire'[i] = "in" => wire[i] = "in"
    BY <1>0, <1>2, ConnectsKeeps DEF TrafficTypes
  <2>3. QED BY <1>0, <1>2, <2>1, <2>2, ConnectsKeeps, CurrentStays, SameShows
<1>3. CASE Departs
  <2>1. UNCHANGED <<wire, inbox, srv>> /\ (Inside' => Inside)
    BY <1>3, DepartsKeeps DEF LeaveFrom, Inside
  <2>2. QED BY <1>0, <1>3, <2>1, CurrentStays, SameShows
<1>4. CASE Says
  <2>1. UNCHANGED <<wire, inbox, srv, place>>
    BY <1>4, SaysKeeps DEF Submit, lineVars
  <2>2. QED BY <1>0, <1>4, <2>1, CurrentStays, SameShows DEF Inside
<1>5. CASE SkipQuestion
  BY <1>5, SameShows DEF SkipQuestion, Inside
<1>6. CASE ServerEnds
  <2>1. UNCHANGED <<wire, place, view>> /\ (srv'.phase = "completed" \/ UNCHANGED <<srv, inbox>>)
    BY <1>0, <1>6 DEF ServerEnds, ServerAlone, TrafficTypes
  <2>2. QED BY <2>1, SameShows DEF Shows, Inside
<1>7. ASSUME NEW i \in Sockets, SocketClosed(i) PROVE Shows'
  <2>1. /\ wire' = [wire EXCEPT ![i] = IF @ = "in" THEN "in" ELSE "none"]
        /\ inbox' = [inbox EXCEPT ![i] = <<>>] /\ UNCHANGED <<place, srv>>
        /\ view'.current = view.current
        /\ sock[i] = "closing" \/ wire[i] \in {"cut", "fin"}
    BY <1>0, <1>7, CurrentOnClose DEF SocketClosed
  <2>2. Inside => wire[i] # "in"
    BY <2>1 DEF Queued
  <2>3. Inside => \A j \in Sockets : wire'[j] = "in" => j # i /\ wire[j] = "in"
    BY <1>0, <2>1, <2>2 DEF TrafficTypes
  <2>4. \A j \in Sockets : j # i => inbox'[j] = inbox[j]
    BY <1>0, <2>1 DEF TrafficTypes
  <2>5. QED BY <2>1, <2>3, <2>4 DEF Shows, Inside
<1>8. ASSUME NEW i \in Sockets, Unanswered(i) \/ HangUp(i) PROVE Shows'
  <2>1. wire' = [wire EXCEPT ![i] = "none"] /\ UNCHANGED <<place, view, inbox, srv>>
    BY <1>8 DEF Unanswered, HangUp, ServerAlone
  <2>2. \A j \in Sockets : wire'[j] = "in" => wire[j] = "in"
    BY <1>0, <2>1 DEF TrafficTypes
  <2>3. QED BY <2>1, <2>2, SameShows DEF Inside
<1>9. ASSUME NEW i \in Sockets, Cut(i) PROVE Shows'
  <2>1. /\ \E w \in {"none", "cut"} : wire' = [wire EXCEPT ![i] = w]
        /\ \E kept : inbox' = [inbox EXCEPT ![i] = kept]
        /\ UNCHANGED <<place, view, srv>>
    BY <1>9 DEF Cut, ServerAlone
  <2>2. \A j \in Sockets : wire'[j] = "in" => wire[j] = "in" /\ inbox'[j] = inbox[j]
    BY <1>0, <2>1 DEF TrafficTypes
  <2>3. QED BY <2>1, <2>2 DEF Shows, Inside
<1>10. QED BY <1>0, <1>1, <1>2, <1>3, <1>4, <1>5, <1>6, <1>7, <1>8, <1>9, Steps, AcceptShows,
              MessageShows, ReadShows

LEMMA ShowsIsPending ==
  ASSUME Shows
  PROVE  ShowsPending
<1>1. SUFFICES ASSUME NEW i \in Sockets, place = "room", sock[i] = "open", wire[i] = "in",
                      inbox[i] = <<>>, srv.phase = "in_progress"
               PROVE  view.current = srv.text
  BY DEF ShowsPending
<1>2. Leads(inbox[i], view.current, srv.text)
  BY <1>1 DEF Shows, Inside
<1>3. Asks(inbox[i]) = {}
  BY <1>1 DEF Asks
<1>4. QED BY <1>2, <1>3 DEF Leads

\* handleMessage against BeginLive and HandleAnswer: when a connection is in the room and
\* nothing is on the way, the page shows the text the server waits on, however often the
\* connection was cut before. The strengthening is about the last question on the way.
THEOREM PageShowsPending == Spec => []ShowsPending
<1>1. Init => Shows
  BY DEF Init, Shows
<1>2. AnswerInv /\ Shows /\ [Next]_vars => Shows'
  BY NextShows DEF AnswerInv
<1>3. Spec => []Shows
  BY <1>1, <1>2, AnswersAccounted, PTL DEF Spec
<1>4. QED BY <1>3, ShowsIsPending, PTL

=============================================================================
