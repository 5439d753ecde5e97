---------------------------- MODULE InterviewRoom ----------------------------
(***************************************************************************)
(* The page of a running interview, pages/InterviewRoomPage.tsx with        *)
(* ws/interviewSocket.ts and lib/voiceRecorder.ts, together with the server *)
(* it talks to. The server is InterviewSession reduced to what a connection *)
(* can see: its status, the text that is pending, and the answers recorded. *)
(*                                                                         *)
(* The state of the browser is the page's refs and those of its states that *)
(* guard something. Each callback, timer or resumed await is one action, as *)
(* scripts run to completion. What the candidate and the network may do in  *)
(* a behaviour is "can", fixed at the start.                                *)
(***************************************************************************)
EXTENDS Speech, CameraAnalysis, Sequences, SequencesExt

CONSTANTS Sockets,      \* WebSocket objects that may exist at once
          Retries,      \* length of RETRY_DELAYS
          Texts,        \* questions and follow-ups of the interview
          MaxAnswers,   \* bound on the answers given
          Scenarios     \* sets of things that may happen

ASSUME RoomAssumption == /\ Sockets \subseteq Nat \ {0}
                         /\ Retries \in Nat /\ Texts \in Nat \ {0} /\ MaxAnswers \in Nat
                         /\ Scenarios \subseteq SUBSET
                              {"cut", "answer", "skip", "pause", "sound", "switch", "avatar",
                               "camera", "end", "leave", "logout", "fault"}

VARIABLES
  can,        \* the scenario
  place,      \* the page shown; "loading" and "room" are this one
  token,      \* the login is in localStorage
  view,       \* refs and states of the page that guard handlers
  cur,        \* socketRef: the socket the page uses, or 0
  sock,       \* readyState of each socket
  wire,       \* the connection behind it, as the server and the network see it
  inbox, outbox,  \* messages on the way to and from the page, by socket
  retry,      \* retryTimerRef is set; attemptRef
  pending,    \* pendingAnswersRef
  answers,    \* answers submitted so far
  lost,       \* answers that went into a connection that was cut or refused
  mic,        \* the microphone: recorders asked for, held in voiceRecorderRef, and
              \* running without being held; the button; voiceActiveRef, voiceCancelRef
  asr,        \* recognitions under way, of a recording and of a retry
  ending,     \* the request of handleForceEnd, and where it is
  srv         \* the session on the server

lineVars == <<cur, sock, wire, inbox, outbox, retry, pending, answers, lost>>
voiceVars == <<mic, asr>>
vars == <<can, place, token, view, lineVars, voiceVars, ending, srv, speechVars, cameraVars>>

Answer == [n : 1..MaxAnswers, text : 0..Texts]
ServerMsg == [type : {"session_started", "question", "thinking", "status", "closing",
                      "error", "done"}, text : 0..Texts]
Msg(type, text) == [type |-> type, text |-> text]
ClientMsg == [type : {"answer"}, a : Answer] \cup [type : {"skip"}]

TypeOK ==
  /\ can \in Scenarios
  /\ place \in {"loading", "room", "report", "history", "login"}
  /\ token \in BOOLEAN
  /\ view \in [done : BOOLEAN, fatal : BOOLEAN, disconnected : BOOLEAN, error : BOOLEAN,
               thinking : BOOLEAN, paused : BOOLEAN, current : 0..Texts,
               phase : {"idle", "recording", "transcribing", "sending"}]
  /\ cur \in Sockets \cup {0}
  /\ sock \in [Sockets -> {"closed", "connecting", "open", "closing"}]
  /\ wire \in [Sockets -> {"none", "dialing", "in", "fin", "cut"}]
  /\ inbox \in [Sockets -> Seq(ServerMsg)] /\ outbox \in [Sockets -> Seq(ClientMsg)]
  /\ retry \in [timer : BOOLEAN, attempt : 0..Retries]
  /\ pending \in Seq(Answer)
  /\ answers \in 0..MaxAnswers /\ lost \subseteq 1..MaxAnswers
  /\ mic \in [asking : 0..MaxAnswers, pressed : BOOLEAN, held : BOOLEAN, leaked : BOOLEAN,
               active : BOOLEAN, cancel : BOOLEAN]
  /\ asr \in [stopped : 0..MaxAnswers, retrying : BOOLEAN, failed : BOOLEAN]
  /\ ending \in [shown : BOOLEAN, call : {"none", "sent", "late", "ok", "refused"}]
  /\ srv \in [phase : {"ready", "in_progress", "completed"}, text : 0..Texts, log : Seq(Answer)]
  /\ SpeechType /\ CameraType

Init ==
  /\ can \in Scenarios
  /\ place = "loading" /\ token = TRUE
  /\ view = [done |-> FALSE, fatal |-> FALSE, disconnected |-> FALSE, error |-> FALSE,
             thinking |-> FALSE, paused |-> FALSE, current |-> 0, phase |-> "idle"]
  /\ cur = 0
  /\ sock = [i \in Sockets |-> "closed"] /\ wire = [i \in Sockets |-> "none"]
  /\ inbox = [i \in Sockets |-> <<>>] /\ outbox = [i \in Sockets |-> <<>>]
  /\ retry = [timer |-> FALSE, attempt |-> 0]
  /\ pending = <<>> /\ answers = 0 /\ lost = {}
  /\ mic = [asking |-> 0, pressed |-> FALSE, held |-> FALSE, leaked |-> FALSE, active |-> FALSE, cancel |-> FALSE]
  /\ asr = [stopped |-> 0, retrying |-> FALSE, failed |-> FALSE]
  /\ ending = [shown |-> FALSE, call |-> "none"]
  /\ srv = [phase |-> "ready", text |-> 0, log |-> <<>>]
  /\ SpeechInit("sound" \notin can, "avatar" \in can) /\ CameraInit("camera" \in can)

-----------------------------------------------------------------------------
(* Sockets. *)

\* The page's side of an open socket is gone; the server reads what was sent.
Closed(i) == IF i # 0 /\ sock[i] \in {"connecting", "open"}
             THEN [sock EXCEPT ![i] = "closing"] ELSE sock

\* connectWithRetry: without a token an error is shown and nothing is retried.
ConnectWithRetry(attempt) ==
  IF ~token
  THEN /\ view' = [view EXCEPT !.error = TRUE]
       /\ retry' = [timer |-> FALSE, attempt |-> attempt]
       /\ UNCHANGED <<cur, sock, wire, inbox, outbox>>
  ELSE \E i \in Sockets :
         /\ sock[i] = "closed" /\ wire[i] = "none"
         /\ \A j \in Sockets : j < i => sock[j] # "closed" \/ wire[j] # "none"
         /\ cur' = i
         /\ sock' = [Closed(cur) EXCEPT ![i] = "connecting"]
         /\ wire' = [wire EXCEPT ![i] = "dialing"]
         /\ view' = [view EXCEPT !.disconnected = FALSE, !.error = FALSE, !.fatal = FALSE]
         /\ retry' = [timer |-> FALSE, attempt |-> attempt]
         /\ UNCHANGED <<inbox, outbox>>

\* sendAnswer and sendSkipQuestion on socketRef: refused unless it is open; what
\* is sent into a connection that is already cut is lost.
CanSend == cur # 0 /\ sock[cur] = "open"
Sent(out, m) == [out EXCEPT ![cur] = IF wire[cur] = "in" THEN Append(@, m) ELSE @]
Losing(as) == IF wire[cur] = "in" THEN lost ELSE lost \cup {as[k].n : k \in DOMAIN as}

SubmitAndKeep ==
  LET a == [n |-> answers + 1, text |-> view.current] IN
  /\ answers' = answers + 1
  /\ outbox' = IF CanSend THEN Sent(outbox, [type |-> "answer", a |-> a]) ELSE outbox
  /\ lost' = IF CanSend THEN Losing(<<a>>) ELSE lost
  /\ pending' = Append(pending, a)
  /\ UNCHANGED <<cur, sock, wire, inbox, retry>>
\* submitAnswer: sent, or kept for the next connection.
Submit ==
  LET a == [n |-> answers + 1, text |-> view.current] IN
  /\ answers' = answers + 1
  /\ IF CanSend
     THEN /\ outbox' = Sent(outbox, [type |-> "answer", a |-> a])
          /\ lost' = Losing(<<a>>)
          /\ UNCHANGED pending
     ELSE pending' = Append(pending, a) /\ UNCHANGED <<outbox, lost>>
  /\ UNCHANGED <<cur, sock, wire, inbox, retry>>

-----------------------------------------------------------------------------
(* Entering and leaving the page. *)

\* getInterview answers: the page connects and its avatar is set up.
Load ==
  /\ place = "loading" /\ place' = "room"
  /\ ConnectWithRetry(0)
  /\ \/ avatar.enabled /\ avatar' = [avatar EXCEPT !.status = "loading"]
     \/ avatar.enabled /\ avatar' = [avatar EXCEPT !.status = "failed"]
     \/ ~avatar.enabled /\ UNCHANGED avatar
  /\ UNCHANGED <<can, token, pending, answers, lost, voiceVars, ending, srv,
                 muted, reads, element, sounding, rejecter, cameraVars>>

LoadFails ==
  /\ place = "loading" /\ "fault" \in can /\ place' = "room"
  /\ view' = [view EXCEPT !.error = TRUE]
  /\ UNCHANGED <<can, token, lineVars, voiceVars, ending, srv, speechVars, cameraVars>>

\* The clean-up of the page's effect. A recorder the page does not hold yet is
\* not cancelled, and its cancel mark is taken back.
LeaveFrom(rs, to) ==
  /\ place' = to
  /\ sock' = Closed(cur) /\ cur' = 0
  /\ retry' = [retry EXCEPT !.timer = FALSE]
  /\ pending' = <<>>
  /\ lost' = lost \cup {pending[k].n : k \in DOMAIN pending}
  /\ mic' = [mic EXCEPT !.pressed = FALSE, !.held = FALSE, !.active = FALSE, !.cancel = FALSE]
  /\ DisposeVoice(rs)
Leave(to) == LeaveFrom(reads, to)

LeaveAlone == UNCHANGED <<can, wire, inbox, outbox, answers, asr, srv>>

\* The way back to the list, and the redirect of a session that was logged out.
GoBack ==
  /\ place \in {"loading", "room"} /\ "leave" \in can
  /\ Leave("history") /\ CameraUnmount
  /\ LeaveAlone /\ UNCHANGED <<token, view, ending>>
LoggedOut ==
  /\ place = "room" /\ "logout" \in can
  /\ Leave("login") /\ CameraUnmount /\ token' = FALSE
  /\ LeaveAlone /\ UNCHANGED <<view, ending>>
\* Another tab of the same browser logs out; this one notices at its next use.
TokenRemoved ==
  /\ "logout" \in can /\ token /\ token' = FALSE
  /\ UNCHANGED <<can, place, view, lineVars, voiceVars, ending, srv, speechVars, cameraVars>>

-----------------------------------------------------------------------------
(* The handlers of the socket. *)

Quiet == UNCHANGED speechVars
Resting(v) == [v EXCEPT !.thinking = FALSE, !.phase = "idle"]

GivesUpLate == view.fatal \/ retry.attempt > Retries
GivesUp == view.fatal \/ retry.attempt >= Retries
DisconnectedIfFatal(v) == [Resting(v) EXCEPT !.disconnected = v.fatal]
Disconnected(v) == [Resting(v) EXCEPT !.disconnected = TRUE]

\* onClose: after the end nothing, after a fatal error no retry, otherwise the
\* next attempt, until the delays are used up.
OnClose ==
  IF place # "room" \/ view.done
  THEN UNCHANGED <<view, retry>> /\ Quiet
  ELSE /\ StopVoice /\ UNCHANGED <<muted, avatar>>
       /\ \/ GivesUp /\ view' = Disconnected(view) /\ UNCHANGED retry
          \/ /\ ~GivesUp /\ view' = Resting(view)
             /\ retry' = [timer |-> TRUE, attempt |-> retry.attempt + 1]

\* A socket is closed when the page asked for it, or when the connection is
\* gone and its messages were delivered.
SocketClosed(i) ==
  /\ \/ sock[i] = "closing"
     \/ sock[i] \in {"connecting", "open"} /\ wire[i] \in {"cut", "fin"} /\ inbox[i] = <<>>
  /\ sock' = [sock EXCEPT ![i] = "closed"]
  /\ inbox' = [inbox EXCEPT ![i] = <<>>]
  /\ wire' = [wire EXCEPT ![i] = IF @ = "in" THEN "in" ELSE "none"]
  /\ OnClose
  /\ UNCHANGED <<can, place, token, cur, outbox, pending, answers, lost, voiceVars, ending,
                 srv, cameraVars>>

\* The server has read everything of a connection the page has closed.
HangUp(i) ==
  /\ sock[i] = "closed" /\ wire[i] = "in" /\ outbox[i] = <<>>
  /\ wire' = [wire EXCEPT ![i] = "none"]
  /\ UNCHANGED <<can, place, token, view, cur, sock, inbox, outbox, retry, pending, answers,
                 lost, voiceVars, ending, srv, speechVars, cameraVars>>

RetryTimer ==
  /\ retry.timer
  /\ ConnectWithRetry(retry.attempt)
  /\ UNCHANGED <<can, place, token, pending, answers, lost, voiceVars, ending, srv,
                 speechVars, cameraVars>>

MayReconnectAnytime == place = "room" /\ ~view.fatal
\* The button of the disconnected state.
MayReconnect == place = "room" /\ ~view.fatal /\ view.disconnected
Reconnect ==
  /\ MayReconnect
  /\ ConnectWithRetry(0)
  /\ UNCHANGED <<can, place, token, pending, answers, lost, voiceVars, ending, srv,
                 speechVars, cameraVars>>

\* Only an open socket delivers.
Receive(i, type) ==
  /\ sock[i] = "open" /\ inbox[i] # <<>> /\ Head(inbox[i]).type = type
  /\ place = "room"
  /\ inbox' = [inbox EXCEPT ![i] = Tail(@)]
  /\ UNCHANGED <<can, token, wire, answers, ending, srv, asr>>

FlushLast(out) ==
  IF pending = <<>> THEN out ELSE Sent(out, [type |-> "answer", a |-> Last(pending)])
\* session_started: the back-off starts over and every kept answer is sent.
FlushTo(out) ==
  [out EXCEPT ![cur] = IF wire[cur] = "in"
                       THEN @ \o [k \in DOMAIN pending |-> [type |-> "answer", a |-> pending[k]]]
                       ELSE @]
OnSessionStarted(i) ==
  /\ Receive(i, "session_started")
  /\ view' = [view EXCEPT !.disconnected = FALSE, !.phase = "idle"]
  /\ retry' = [retry EXCEPT !.attempt = 0]
  /\ IF CanSend THEN outbox' = FlushTo(outbox) /\ lost' = Losing(pending)
                ELSE UNCHANGED <<outbox, lost>>
  /\ pending' = <<>>
  /\ UNCHANGED <<place, cur, sock, mic, speechVars, cameraVars>>

AskedUnlessPaused(v, text) == IF v.paused THEN Resting(v) ELSE [Resting(v) EXCEPT !.current = text]
Asked(v, text) == [Resting(v) EXCEPT !.current = text]
\* question and follow_up: shown, and read aloud unless paused.
OnQuestion(i) ==
  /\ Receive(i, "question")
  /\ view' = Asked(view, Head(inbox[i]).text)
  /\ IF view.paused THEN UNCHANGED reads ELSE PlayQuestion(FALSE)
  /\ UNCHANGED <<muted, avatar, element, sounding, rejecter>>
  /\ UNCHANGED <<place, cur, sock, outbox, retry, pending, lost, mic, cameraVars>>

OnStatus(i) ==
  /\ \/ Receive(i, "thinking") /\ view' = [view EXCEPT !.thinking = TRUE, !.phase = "idle"]
     \/ Receive(i, "status") /\ view' = [view EXCEPT !.thinking = FALSE]
  /\ UNCHANGED <<place, cur, sock, outbox, retry, pending, lost, mic, speechVars, cameraVars>>

OnError(i) ==
  /\ Receive(i, "error")
  /\ view' = [Disconnected(view) EXCEPT !.fatal = TRUE]
  /\ UNCHANGED <<place, cur, sock, outbox, retry, pending, lost, mic, speechVars, cameraVars>>

\* done: straight to the report.
OnDone(i) ==
  /\ Receive(i, "done")
  /\ view' = [Resting(view) EXCEPT !.done = TRUE]
  /\ CameraStop
  /\ Leave("report")
  /\ UNCHANGED outbox

\* closing: the closing words are read first, unless muted.
OnClosing(i) ==
  /\ Receive(i, "closing")
  /\ view' = [Resting(view) EXCEPT !.done = TRUE]
  /\ CameraStop
  /\ IF muted
     THEN Leave("report") /\ UNCHANGED outbox
     ELSE /\ PlayQuestion(TRUE)
          /\ UNCHANGED <<muted, avatar, element, sounding, rejecter>>
          /\ UNCHANGED <<place, cur, sock, outbox, retry, pending, lost, mic>>

\* The handler of closing resumes and navigates, from wherever the page is.
AfterClosing(r) ==
  /\ reads[r].at = "returned"
  /\ IF place = "room"
     THEN LeaveFrom([reads EXCEPT ![r] = Idle], "report") /\ CameraUnmount
     ELSE /\ place' = "report" /\ reads' = [reads EXCEPT ![r] = Idle]
          /\ UNCHANGED <<cur, sock, retry, pending, lost, mic, muted, avatar, element,
                         sounding, rejecter, cameraVars>>
  /\ UNCHANGED <<can, token, view, wire, inbox, outbox, answers, asr, ending, srv>>

-----------------------------------------------------------------------------
(* The answers: press to talk, recognition, repetition. *)

\* submitAnswer for a page that is gone changes nothing that lasts.
SubmitOrNot == IF place = "room" THEN Submit ELSE UNCHANGED lineVars

\* MaxAnswers bounds what is said.
MaySpeak == answers + asr.stopped + mic.asking
              + (IF mic.held THEN 1 ELSE 0) + (IF asr.retrying THEN 1 ELSE 0) < MaxAnswers

MayRecord ==
  /\ place = "room" /\ ~view.fatal /\ ~view.thinking /\ ~view.disconnected
  /\ ~ending.shown /\ ~view.paused /\ view.phase \notin {"transcribing", "sending"}
HoldsRecorder == mic.held
\* voiceActiveRef
Recording == mic.active
\* handleStartRecording up to the microphone; a press while one is active only
\* gives up the audio kept for a retry.
StartRecording ==
  /\ MayRecord /\ "answer" \in can /\ ~mic.pressed /\ MaySpeak
  /\ asr' = [asr EXCEPT !.failed = FALSE]
  /\ IF Recording
     THEN mic' = [mic EXCEPT !.pressed = TRUE] /\ UNCHANGED view /\ Quiet
     ELSE /\ mic' = [mic EXCEPT !.pressed = TRUE, !.active = TRUE, !.cancel = FALSE,
                                !.asking = @ + 1]
          /\ view' = [view EXCEPT !.error = FALSE, !.phase = "recording"]
          /\ Interrupt /\ UNCHANGED <<muted, avatar>>
  /\ UNCHANGED <<can, place, token, lineVars, ending, srv, cameraVars>>

\* The recorder the page held before is running on unheld.
Forgotten(m) == [m EXCEPT !.leaked = @ \/ m.held]
\* The microphone opens: recording, unless the button was released meanwhile.
MicReady ==
  /\ mic.asking > 0
  /\ IF mic.cancel
     THEN /\ mic' = [Forgotten(mic) EXCEPT !.asking = @ - 1, !.active = FALSE, !.held = FALSE]
          /\ view' = [view EXCEPT !.phase = "idle"]
     ELSE /\ mic' = [Forgotten(mic) EXCEPT !.asking = @ - 1, !.held = TRUE]
          /\ UNCHANGED view
  /\ UNCHANGED <<can, place, token, lineVars, asr, ending, srv, speechVars, cameraVars>>
MicDenied ==
  /\ mic.asking > 0 /\ "fault" \in can
  /\ mic' = [mic EXCEPT !.asking = @ - 1, !.active = FALSE, !.cancel = FALSE]
  /\ view' = [view EXCEPT !.phase = "idle"]
  /\ UNCHANGED <<can, place, token, lineVars, asr, ending, srv, speechVars, cameraVars>>

\* handleStopRecording: recognise, or leave a mark for a microphone not open yet.
StopRecording ==
  /\ place = "room" /\ mic.pressed
  /\ IF mic.held
     THEN /\ mic' = [mic EXCEPT !.pressed = FALSE, !.held = FALSE]
          /\ asr' = [asr EXCEPT !.stopped = @ + 1]
          /\ view' = [view EXCEPT !.phase = "transcribing"]
     ELSE /\ mic' = [mic EXCEPT !.pressed = FALSE, !.cancel = TRUE]
          /\ UNCHANGED <<asr, view>>
  /\ UNCHANGED <<can, place, token, lineVars, ending, srv, speechVars, cameraVars>>

Recognised ==
  /\ asr.stopped > 0
  /\ mic' = [mic EXCEPT !.active = FALSE]
  /\ \/ /\ asr' = [asr EXCEPT !.stopped = @ - 1]
        /\ view' = [view EXCEPT !.phase = "sending"]
        /\ SubmitOrNot
     \/ /\ "fault" \in can
        /\ asr' = [asr EXCEPT !.stopped = @ - 1, !.failed = TRUE]
        /\ view' = [view EXCEPT !.phase = "idle"]
        /\ UNCHANGED lineVars
  /\ UNCHANGED <<can, place, token, ending, srv, speechVars, cameraVars>>

\* handleRetryASR: offered while idle; it marks nothing as active.
RetryAsr ==
  /\ place = "room" /\ asr.failed /\ view.phase = "idle" /\ ~asr.retrying /\ MaySpeak
  /\ asr' = [asr EXCEPT !.retrying = TRUE]
  /\ UNCHANGED <<can, place, token, view, lineVars, mic, ending, srv, speechVars, cameraVars>>
RetryRecognised ==
  /\ asr.retrying
  /\ \/ /\ asr' = [asr EXCEPT !.retrying = FALSE, !.failed = FALSE]
        /\ view' = [view EXCEPT !.phase = "sending"]
        /\ SubmitOrNot
     \/ /\ \E f \in {FALSE, asr.failed} :
             asr' = [asr EXCEPT !.retrying = FALSE, !.failed = f]
        /\ view' = [view EXCEPT !.phase = "idle"]
        /\ UNCHANGED lineVars
  /\ UNCHANGED <<can, place, token, mic, ending, srv, speechVars, cameraVars>>
DiscardAudio ==
  /\ place = "room" /\ asr.failed /\ view.phase = "idle"
  /\ asr' = [asr EXCEPT !.failed = FALSE]
  /\ UNCHANGED <<can, place, token, view, lineVars, mic, ending, srv, speechVars, cameraVars>>

-----------------------------------------------------------------------------
(* The other buttons. *)

MaySkip ==
  /\ place = "room" /\ ~view.fatal /\ ~view.paused /\ ~view.thinking /\ ~ending.shown
  /\ ~view.disconnected /\ view.phase = "idle" /\ ~view.done
\* handleSkipQuestion: only into an open socket. InFlight bounds the messages on
\* their way when it is pressed again.
InFlight == 2
SkipQuestion ==
  /\ MaySkip /\ "skip" \in can /\ CanSend
  /\ Len(outbox[cur]) + Len(inbox[cur]) < InFlight
  /\ outbox' = Sent(outbox, [type |-> "skip"])
  /\ Interrupt
  /\ UNCHANGED <<muted, avatar, can, place, token, view, cur, sock, wire, inbox, retry, pending,
                 answers, lost, voiceVars, ending, srv, cameraVars>>

MayPause ==
  /\ place = "room" /\ ~view.fatal /\ ~ending.shown /\ ~view.done
  /\ view.phase \notin {"transcribing", "sending"}
TogglePause ==
  /\ MayPause /\ "pause" \in can
  /\ IF view.paused
     THEN view' = [view EXCEPT !.paused = FALSE] /\ Quiet
     ELSE /\ ~mic.active
          /\ view' = [view EXCEPT !.paused = TRUE]
          /\ Interrupt /\ UNCHANGED <<muted, avatar>>
  /\ UNCHANGED <<can, place, token, lineVars, voiceVars, ending, srv, cameraVars>>

MayReplay == view.current # 0 /\ ~muted /\ ~view.paused
\* handleReplay. As Readings bounds the calls under way, it is not pressed while
\* a message waits for one.
Replay ==
  /\ place = "room" /\ "sound" \in can /\ MayReplay /\ \A i \in Sockets : inbox[i] = <<>>
  /\ PlayQuestion(FALSE)
  /\ UNCHANGED <<can, place, token, view, lineVars, voiceVars, ending, srv, muted, avatar,
                 element, sounding, rejecter, cameraVars>>
Switch ==
  /\ place = "room" /\ "switch" \in can
  /\ \/ ~view.paused /\ ToggleMute
     \/ ToggleAvatar
  /\ UNCHANGED <<can, place, token, view, lineVars, voiceVars, ending, srv, cameraVars>>

MayEnd == place = "room" /\ ~view.fatal /\ ~ending.shown /\ ~view.done
\* handleForceEnd up to the request; a request given up earlier is over.
ForceEnd ==
  /\ MayEnd /\ "end" \in can /\ ending.call = "none"
  /\ ending' = [shown |-> TRUE, call |-> "sent"]
  /\ view' = [view EXCEPT !.error = FALSE, !.phase = "idle"]
  /\ Interrupt
  /\ mic' = [mic EXCEPT !.held = FALSE, !.active = FALSE, !.cancel = FALSE]
  /\ CameraStop
  /\ UNCHANGED <<muted, avatar, can, place, token, lineVars, asr, srv>>

\* Unless the end was heard of before, the page goes to the report, from wherever it is.
EndReturns ==
  /\ ending.call = "ok"
  /\ ending' = [shown |-> FALSE, call |-> "none"]
  /\ \/ /\ view.done
        /\ UNCHANGED <<view, place, cur, sock, retry, pending, lost, mic, speechVars, cameraVars>>
     \/ /\ ~view.done /\ view' = [view EXCEPT !.done = TRUE]
        /\ \/ place = "room" /\ Leave("report") /\ CameraUnmount
           \/ /\ place \notin {"loading", "room"} /\ place' = "report"
              /\ UNCHANGED <<cur, sock, retry, pending, lost, mic, speechVars, cameraVars>>
  /\ UNCHANGED <<can, token, wire, inbox, outbox, answers, asr, srv>>
\* Refused, or given up after 20 seconds, when the server may still carry it out.
EndFails ==
  /\ ending.call \in {"sent", "refused"}
  /\ ending' = [shown |-> FALSE, call |-> IF ending.call = "sent" THEN "late" ELSE "none"]
  /\ view' = [view EXCEPT !.error = TRUE]
  /\ UNCHANGED <<can, place, token, lineVars, voiceVars, srv, speechVars, cameraVars>>
=============================================================================
