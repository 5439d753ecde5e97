----------------------------- MODULE RoomProofs ------------------------------
(***************************************************************************)
(* Theorems about RoomSystem for any number of sockets, retries, questions,   *)
(* answers and readings, in any scenario: the camera is off once the           *)
(* interview is over or left, and its observations are sent at most once; and  *)
(* however connections are cut, refused, given up and retried, the page has    *)
(* one socket that may deliver messages.                                     *)
(*                                                                         *)
(* CameraReleased is not inductive: that stopping releases the device needs     *)
(* the hook to hold every stream that an await of start has handed over, and   *)
(* that no run goes on after the end needs the closing words of a page that     *)
(* is gone to find it gone, never still loading.                             *)
(***************************************************************************)
EXTENDS RoomSystem, FiniteSetTheorems, TLAPS

ViewFields ==
  {"done", "fatal", "disconnected", "error", "thinking", "paused", "current", "phase"}
IsView(v) == v = [x \in ViewFields |-> v[x]]

\* Where the stream is while start is on its way, and afterwards.
HandedOver ==
  /\ camera.at \in {"none", "permission"} => camera.tracks = "off" /\ ~camera.held
  /\ camera.at \in {"model", "weights"} =>
       (camera.held /\ camera.runs) \/ camera.tracks # "live"
  /\ camera.at = "over" /\ camera.tracks = "live" => camera.held /\ camera.runs
\* Only a page with an interview under way watches, and what it saw is not sent yet.
RunsInside == camera.runs => place \in {"loading", "room"} /\ ~view.done /\ saving = 0
LoadingIsSilent == place = "loading" => \A r \in Readings : reads[r].at = "idle"

CameraInv ==
  /\ CameraType /\ IsView(view) /\ saving <= 1
  /\ HandedOver /\ RunsInside /\ LoadingIsSilent

-----------------------------------------------------------------------------
(* The hook. *)

LEMMA CleanedCamera ==
  ASSUME CameraInv, camera' = [Cleaned(camera) EXCEPT !.status = "idle"],
         saving' \in Nat, saving' <= 1
  PROVE  CameraType' /\ HandedOver' /\ ~camera'.runs /\ saving' <= 1
  BY DEF CameraInv, CameraType, HandedOver, Cleaned

\* stop and the unmount end the run, wherever the page goes.
LEMMA StopKeeps ==
  ASSUME CameraInv, CameraStop \/ CameraUnmount, IsView(view'), LoadingIsSilent'
  PROVE  CameraInv'
<1>1. saving' \in Nat /\ saving' <= 1
  BY DEF CameraStop, CameraUnmount, CameraInv, CameraType, RunsInside
<1>2. camera' = [Cleaned(camera) EXCEPT !.status = "idle"]
  BY DEF CameraStop, CameraUnmount
<1>3. QED BY <1>1, <1>2, CleanedCamera DEF CameraInv, RunsInside

LEMMA WatchingKeeps ==
  ASSUME CameraInv, Watching
  PROVE  CameraInv'
<1>1. UNCHANGED <<place, view, saving>> /\ UNCHANGED reads
  BY DEF Watching, CameraStep, CameraGranted, CameraResume, CameraFails, CameraFrame,
         DetectFails, speechVars
<1>2. CameraType' /\ HandedOver' /\ (camera'.runs => camera.runs)
  <2>1. CASE CameraGranted
    BY <2>1 DEF CameraGranted, CameraInv, CameraType, HandedOver
  <2>2. CASE CameraResume
    <3>1. CASE ~camera.runs
      <4>1. camera' = [camera EXCEPT !.at = "over", !.tracks = "off", !.held = FALSE]
        BY <2>2, <3>1 DEF CameraResume, Resumed
      <4>2. QED BY <3>1, <4>1, <1>1 DEF CameraInv, CameraType, HandedOver
    <3>2. CASE camera.runs /\ camera.at = "playing"
      <4>1. camera' = [camera EXCEPT !.at = "model", !.held = TRUE]
        BY <2>2, <3>2 DEF CameraResume, Resumed
      <4>2. QED BY <3>2, <4>1, <1>1 DEF CameraInv, CameraType, HandedOver
    <3>3. CASE camera.runs /\ camera.at = "model"
      <4>1. camera' = [camera EXCEPT !.at = "weights"]
        BY <2>2, <3>3 DEF CameraResume, Resumed
      <4>2. QED BY <3>3, <4>1, <1>1 DEF CameraInv, CameraType, HandedOver
    <3>4. CASE camera.runs /\ camera.at = "weights"
      <4>1. camera' = [camera EXCEPT !.at = "over", !.status = "running"]
        BY <2>2, <3>4 DEF CameraResume, Resumed
      <4>2. QED BY <3>4, <4>1, <1>1 DEF CameraInv, CameraType, HandedOver
    <3>5. QED BY <2>2, <3>1, <3>2, <3>3, <3>4 DEF CameraResume
  <2>3. CASE CameraFails
    BY <2>3 DEF CameraFails, Cleaned, CameraInv, CameraType, HandedOver
  <2>4. CASE CameraFrame
    BY <2>4, CameraAssumption DEF CameraFrame, CameraInv, CameraType, HandedOver
  <2>5. CASE DetectFails
    BY <2>5 DEF DetectFails, Cleaned, CameraInv, CameraType, HandedOver
  <2>6. QED BY <2>1, <2>2, <2>3, <2>4, <2>5 DEF Watching, CameraStep
<1>3. QED BY <1>1, <1>2 DEF CameraInv, RunsInside, LoadingIsSilent, IsView

\* A step of another part of the page, which moves at most from loading to the room.
LEMMA OtherKeeps ==
  ASSUME CameraInv, UNCHANGED cameraVars, IsView(view'), view'.done = view.done,
         place' = place \/ (place = "loading" /\ place' = "room"),
         place' = "loading" => UNCHANGED reads
  PROVE  CameraInv'
  BY DEF CameraInv, CameraType, HandedOver, RunsInside, LoadingIsSilent, cameraVars

\* A step of a part that leaves the page as it is.
LEMMA QuietKeeps ==
  ASSUME CameraInv, UNCHANGED <<place, view, cameraVars>>, place = "loading" => UNCHANGED reads
  PROVE  CameraInv'
  BY OtherKeeps DEF CameraInv, IsView

-----------------------------------------------------------------------------
(* Parts of handlers. *)

LEMMA ConnectKeepsView ==
  ASSUME CameraInv, NEW attempt, ConnectWithRetry(attempt)
  PROVE  IsView(view') /\ view'.done = view.done
<1>1. IsView(view)
  BY DEF CameraInv
<1>2. CASE ~token
  BY <1>1, <1>2 DEF ConnectWithRetry, IsView, ViewFields
<1>3. CASE token
  <2>1. view' = [view EXCEPT !.disconnected = FALSE, !.error = FALSE, !.fatal = FALSE]
    BY <1>3 DEF ConnectWithRetry
  <2>2. QED BY <1>1, <2>1 DEF IsView, ViewFields
<1>4. QED BY <1>2, <1>3

LEMMA CloseKeepsView ==
  ASSUME CameraInv, OnClose
  PROVE  IsView(view') /\ view'.done = view.done
<1>1. IsView(view)
  BY DEF CameraInv
<1>2. view' = view \/ view' = Disconnected(view) \/ view' = Resting(view)
  BY DEF OnClose
<1>3. QED BY <1>1, <1>2 DEF Disconnected, Resting, IsView, ViewFields

\* Leaving the page: neither loading any more nor a new run.
LEMMA LeaveGoes ==
  ASSUME NEW rs, NEW to, LeaveFrom(rs, to) PROVE place' = to
  BY DEF LeaveFrom

-----------------------------------------------------------------------------
(* The candidate. *)

LEMMA LeavingKeeps ==
  ASSUME CameraInv, GoBack \/ LoggedOut
  PROVE  CameraInv'
<1>1. CameraUnmount /\ UNCHANGED view /\ place' # "loading"
  BY LeaveGoes DEF GoBack, LoggedOut, Leave
<1>2. QED BY <1>1, StopKeeps DEF CameraInv, IsView, LoadingIsSilent

LEMMA EndingKeeps ==
  ASSUME CameraInv, ForceEnd
  PROVE  CameraInv'
<1>1. /\ CameraStop /\ place = "room" /\ place' = place
      /\ view' = [view EXCEPT !.error = FALSE, !.phase = "idle"]
  BY DEF ForceEnd, MayEnd
<1>2. IsView(view')
  BY <1>1 DEF CameraInv, IsView, ViewFields
<1>3. QED BY <1>1, <1>2, StopKeeps DEF LoadingIsSilent

\* Talking, skipping, pausing and the switches stay in the room.
LEMMA TalkingKeeps ==
  ASSUME CameraInv,
         \/ StartRecording \/ StopRecording \/ RetryAsr \/ DiscardAudio
         \/ SkipQuestion \/ TogglePause \/ Replay \/ Switch
  PROVE  CameraInv'
<1>1. place = "room" /\ place' = place /\ UNCHANGED cameraVars
  BY DEF StartRecording, MayRecord, StopRecording, RetryAsr, DiscardAudio, SkipQuestion,
         MaySkip, TogglePause, MayPause, Replay, Switch
<1>2. \/ UNCHANGED view
      \/ view' = [view EXCEPT !.error = FALSE, !.phase = "recording"]
      \/ view' = [view EXCEPT !.phase = "transcribing"]
      \/ view' = [view EXCEPT !.paused = FALSE]
      \/ view' = [view EXCEPT !.paused = TRUE]
  BY DEF StartRecording, StopRecording, RetryAsr, DiscardAudio, SkipQuestion, TogglePause,
         Replay, Switch
<1>3. IsView(view') /\ view'.done = view.done
  BY <1>2 DEF CameraInv, IsView, ViewFields
<1>4. QED BY <1>1, <1>3, OtherKeeps

LEMMA CandidateKeeps ==
  ASSUME CameraInv, Candidate
  PROVE  CameraInv'
<1>1. CASE TokenRemoved
  BY <1>1, QuietKeeps DEF TokenRemoved, speechVars
<1>2. CASE Reconnect
  <2>1. IsView(view') /\ view'.done = view.done
    BY <1>2, ConnectKeepsView DEF Reconnect
  <2>2. UNCHANGED <<place, cameraVars, reads>>
    BY <1>2 DEF Reconnect, speechVars
  <2>3. QED BY <2>1, <2>2, OtherKeeps
<1>3. QED BY <1>1, <1>2, LeavingKeeps, EndingKeeps, TalkingKeeps DEF Candidate

-----------------------------------------------------------------------------
(* The messages. *)

LEMMA MessageKeeps ==
  ASSUME CameraInv, NEW i \in Sockets, OnMessage(i)
  PROVE  CameraInv'
<1>1. place = "room"
  BY DEF OnMessage, OnSessionStarted, OnQuestion, OnStatus, OnError, OnDone, OnClosing, Receive
<1>2. CASE OnSessionStarted(i) \/ OnQuestion(i) \/ OnStatus(i) \/ OnError(i)
  <2>1. UNCHANGED <<place, cameraVars>>
    BY <1>2 DEF OnSessionStarted, OnQuestion, OnStatus, OnError
  <2>2. \/ view' = [view EXCEPT !.disconnected = FALSE, !.phase = "idle"]
        \/ view' = Asked(view, Head(inbox[i]).text)
        \/ view' = [view EXCEPT !.thinking = TRUE, !.phase = "idle"]
        \/ view' = [view EXCEPT !.thinking = FALSE]
        \/ view' = [Disconnected(view) EXCEPT !.fatal = TRUE]
    BY <1>2 DEF OnSessionStarted, OnQuestion, OnStatus, OnError
  <2>3. IsView(view') /\ view'.done = view.done
    BY <2>2 DEF CameraInv, IsView, ViewFields, Asked, Disconnected, Resting
  <2>4. QED BY <1>1, <2>1, <2>3, OtherKeeps
<1>3. CASE OnDone(i) \/ OnClosing(i)
  <2>1. CameraStop /\ view' = [Resting(view) EXCEPT !.done = TRUE]
    BY <1>3 DEF OnDone, OnClosing
  <2>2. place' # "loading"
    BY <1>1, <1>3, LeaveGoes DEF OnDone, OnClosing, Leave
  <2>3. IsView(view')
    BY <2>1 DEF CameraInv, IsView, ViewFields, Resting
  <2>4. QED BY <2>1, <2>2, <2>3, StopKeeps DEF LoadingIsSilent
<1>4. QED BY <1>2, <1>3 DEF OnMessage

\* The closing words are over: a page that is gone was left from the room.
LEMMA ClosingKeeps ==
  ASSUME CameraInv, NEW r \in Readings, AfterClosing(r)
  PROVE  CameraInv'
<1>1. place # "loading" /\ UNCHANGED view
  BY DEF AfterClosing, CameraInv, LoadingIsSilent
<1>2. CASE place = "room"
  <2>1. CameraUnmount /\ place' = "report"
    BY <1>2, LeaveGoes DEF AfterClosing
  <2>2. QED BY <1>1, <2>1, StopKeeps DEF CameraInv, IsView, LoadingIsSilent
<1>3. CASE place # "room"
  <2>1. place' = "report" /\ UNCHANGED cameraVars
    BY <1>3 DEF AfterClosing
  <2>2. ~camera.runs
    BY <1>1, <1>3 DEF CameraInv, RunsInside
  <2>3. QED BY <1>1, <2>1, <2>2 DEF CameraInv, CameraType, HandedOver, RunsInside,
                                    LoadingIsSilent, IsView, cameraVars
<1>4. QED BY <1>2, <1>3

-----------------------------------------------------------------------------
(* The browser, and the request that ends the interview. *)

LEMMA BrowserKeeps ==
  ASSUME CameraInv, Browser
  PROVE  CameraInv'
<1>1. CASE Load
  <2>1. IsView(view') /\ view'.done = view.done
    BY <1>1, ConnectKeepsView DEF Load
  <2>2. UNCHANGED <<reads, cameraVars>> /\ place = "loading" /\ place' = "room"
    BY <1>1 DEF Load
  <2>3. QED BY <2>1, <2>2, OtherKeeps
<1>2. CASE RetryTimer
  <2>1. IsView(view') /\ view'.done = view.done
    BY <1>2, ConnectKeepsView DEF RetryTimer
  <2>2. UNCHANGED <<place, reads, cameraVars>>
    BY <1>2 DEF RetryTimer, speechVars
  <2>3. QED BY <2>1, <2>2, OtherKeeps
<1>3. CASE MicReady \/ Recognised \/ RetryRecognised \/ EndFails
  <2>1. UNCHANGED <<place, reads, cameraVars>>
    BY <1>3 DEF MicReady, Recognised, RetryRecognised, EndFails, speechVars
  <2>2. \/ UNCHANGED view
        \/ view' = [view EXCEPT !.phase = "idle"]
        \/ view' = [view EXCEPT !.phase = "sending"]
        \/ view' = [view EXCEPT !.error = TRUE]
    BY <1>3 DEF MicReady, Recognised, RetryRecognised, EndFails
  <2>3. IsView(view') /\ view'.done = view.done
    BY <2>2 DEF CameraInv, IsView, ViewFields
  <2>4. QED BY <2>1, <2>3, OtherKeeps
<1>4. CASE EndReturns
  <2>1. CASE place = "room" /\ ~view.done
    <3>1. CameraUnmount /\ place' = "report" /\ view' = [view EXCEPT !.done = TRUE]
      BY <1>4, <2>1, LeaveGoes DEF EndReturns, Leave
    <3>2. IsView(view')
      BY <3>1 DEF CameraInv, IsView, ViewFields
    <3>3. QED BY <3>1, <3>2, StopKeeps DEF LoadingIsSilent
  <2>2. CASE view.done
    BY <1>4, <2>2, QuietKeeps DEF EndReturns, speechVars
  <2>3. CASE ~view.done /\ place # "room"
    <3>1. /\ place # "loading" /\ place' = "report" /\ UNCHANGED cameraVars
          /\ view' = [view EXCEPT !.done = TRUE]
      BY <1>4, <2>3 DEF EndReturns
    <3>2. ~camera.runs /\ IsView(view')
      BY <2>3, <3>1 DEF CameraInv, RunsInside, IsView, ViewFields
    <3>3. QED BY <2>3, <3>1, <3>2 DEF CameraInv, CameraType, HandedOver, RunsInside,
                                      LoadingIsSilent, cameraVars
  <2>4. QED BY <2>1, <2>2, <2>3
<1>5. CASE AvatarLoads
  BY <1>5, QuietKeeps DEF AvatarLoads, AvatarInit
<1>6. CASE \E i \in Sockets : SocketClosed(i)
  <2>1. PICK i \in Sockets : SocketClosed(i)
    BY <1>6
  <2>2. OnClose /\ UNCHANGED <<place, cameraVars>>
    BY <2>1 DEF SocketClosed
  <2>3. place = "loading" => UNCHANGED reads
    BY <2>2 DEF OnClose, Quiet, speechVars
  <2>4. QED BY <2>2, <2>3, CloseKeepsView, OtherKeeps
<1>7. CASE \E i \in Sockets : OnMessage(i)
  BY <1>7, MessageKeeps
<1>8. CASE \E r \in Readings : Speaking(r)
  <2>1. PICK r \in Readings : Speaking(r)
    BY <1>8
  <2>2. reads[r].at # "idle" /\ UNCHANGED <<place, view, cameraVars>>
    BY <2>1 DEF Speaking, SpeechStep, Synthesised, ReadingFails, InitSettled, Decoded, SegmentEnds
  <2>3. place # "loading"
    BY <2>2 DEF CameraInv, LoadingIsSilent
  <2>4. QED BY <2>2, <2>3, QuietKeeps
<1>9. CASE \E r \in Readings : AfterClosing(r)
  BY <1>9, ClosingKeeps
<1>10. QED BY <1>1, <1>2, <1>3, <1>4, <1>5, <1>6, <1>7, <1>8, <1>9 DEF Browser

LEMMA ServerKeeps ==
  ASSUME CameraInv, Server \/ \E i \in Sockets : Cut(i)
  PROVE  CameraInv'
<1>1. UNCHANGED <<place, view, reads, cameraVars>>
  BY DEF Server, Accept, Unanswered, HangUp, ServerReads, ServerEnds, Cut, ServerAlone, speechVars
<1>2. QED BY <1>1, QuietKeeps

-----------------------------------------------------------------------------
LEMMA InitCamera == Init => CameraInv
<1> SUFFICES ASSUME Init PROVE CameraInv
  OBVIOUS
<1>1. CameraType /\ HandedOver /\ saving = 0
  BY CameraAssumption DEF Init, CameraInit, CameraType, HandedOver
<1>2. IsView(view)
  BY DEF Init, IsView, ViewFields
<1>3. RunsInside
  BY <1>1 DEF Init, RunsInside
<1>4. LoadingIsSilent
  BY DEF Init, SpeechInit, Idle, LoadingIsSilent
<1>5. QED BY <1>1, <1>2, <1>3, <1>4 DEF CameraInv

LEMMA NextCamera == CameraInv /\ [Next]_vars => CameraInv'
<1> SUFFICES ASSUME CameraInv, [Next]_vars PROVE CameraInv'
  OBVIOUS
<1>1. CASE Candidate
  BY <1>1, CandidateKeeps
<1>2. CASE Browser
  BY <1>2, BrowserKeeps
<1>3. CASE Server \/ \E i \in Sockets : Cut(i)
  BY <1>3, ServerKeeps
<1>4. CASE Watching
  BY <1>4, WatchingKeeps
<1>5. CASE LoadFails
  <2>1. /\ UNCHANGED <<reads, cameraVars>> /\ place = "loading" /\ place' = "room"
        /\ view' = [view EXCEPT !.error = TRUE]
    BY <1>5 DEF LoadFails, speechVars
  <2>2. IsView(view') /\ view'.done = view.done
    BY <2>1 DEF CameraInv, IsView, ViewFields
  <2>3. QED BY <2>1, <2>2, OtherKeeps
<1>6. CASE MicDenied
  <2>1. UNCHANGED <<place, reads, cameraVars>> /\ view' = [view EXCEPT !.phase = "idle"]
    BY <1>6 DEF MicDenied, speechVars
  <2>2. IsView(view') /\ view'.done = view.done
    BY <2>1 DEF CameraInv, IsView, ViewFields
  <2>3. QED BY <2>1, <2>2, OtherKeeps
<1>7. CASE UNCHANGED vars
  BY <1>7, QuietKeeps DEF vars, speechVars
<1>8. QED BY <1>1, <1>2, <1>3, <1>4, <1>5, <1>6, <1>7 DEF Next

\* useBehaviorAnalysis.ts and its use by the page: when the interview is over or left, no
\* camera is on once start has run out, except one whose playback failed; and what it saw
\* is sent at most once.
THEOREM CameraGoesOff == Spec => []CameraReleased
<1>1. CameraInv => CameraReleased
  BY DEF CameraInv, CameraType, HandedOver, RunsInside, CameraReleased
<1>2. QED BY InitCamera, NextCamera, <1>1, PTL DEF Spec

-----------------------------------------------------------------------------
(***************************************************************************)
(* The line. OneSocket is kept because a connection is only ever opened over   *)
(* one that is closed: by the timer, which the close of the current socket      *)
(* starts, and by the button, which is shown in the disconnected state. That     *)
(* such a state implies a closed socket, unless an error is fatal, is the        *)
(* strengthening.                                                           *)
(***************************************************************************)

Inside == place \in {"loading", "room"}
CurClosed == cur = 0 \/ sock[cur] = "closed"

LineType ==
  /\ sock \in [Sockets -> {"closed", "connecting", "open", "closing"}]
  /\ cur \in Sockets \cup {0}
  /\ retry = [timer |-> retry.timer, attempt |-> retry.attempt]
OthersClosed ==
  /\ Inside => \A i \in Sockets : i # cur => sock[i] = "closed"
  /\ ~Inside => cur = 0 /\ \A i \in Sockets : sock[i] \in {"closed", "closing"}
  /\ place = "loading" => cur = 0
MayConnect ==
  /\ retry.timer => place = "room" /\ CurClosed
  /\ view.disconnected /\ ~view.fatal => CurClosed
LineInv == LineType /\ OthersClosed /\ MayConnect

SameFlags == view'.disconnected = view.disconnected /\ view'.fatal = view.fatal

-----------------------------------------------------------------------------
(* Parts of handlers. *)

LEMMA SameLine ==
  ASSUME LineInv, UNCHANGED <<cur, sock, retry, place>>, SameFlags
  PROVE  LineInv'
  BY DEF LineInv, LineType, OthersClosed, MayConnect, CurClosed, Inside, SameFlags

\* connectWithRetry over a socket that is closed.
LEMMA ConnectLine ==
  ASSUME LineInv, IsView(view), CurClosed, Inside, place' = "room",
         NEW attempt, ConnectWithRetry(attempt)
  PROVE  LineInv'
<1>1. CASE ~token
  <2>1. /\ view' = [view EXCEPT !.error = TRUE]
        /\ retry' = [timer |-> FALSE, attempt |-> attempt] /\ UNCHANGED <<cur, sock>>
    BY <1>1 DEF ConnectWithRetry
  <2>2. SameFlags
    BY <2>1 DEF SameFlags, IsView, ViewFields
  <2>3. QED BY <2>1, <2>2 DEF LineInv, LineType, OthersClosed, MayConnect, CurClosed, Inside,
                              SameFlags
<1>2. CASE token
  <2>1. PICK i \in Sockets :
          /\ cur' = i /\ sock' = [Closed(cur) EXCEPT ![i] = "connecting"]
          /\ view' = [view EXCEPT !.disconnected = FALSE, !.error = FALSE, !.fatal = FALSE]
          /\ retry' = [timer |-> FALSE, attempt |-> attempt]
    BY <1>2 DEF ConnectWithRetry
  <2>2. Closed(cur) = sock
    BY DEF Closed, CurClosed
  <2>3. ~view'.disconnected
    BY <2>1 DEF IsView, ViewFields
  <2>4. \A j \in Sockets : sock[j] = "closed"
    BY RoomAssumption DEF LineInv, LineType, OthersClosed, CurClosed
  <2>5. LineType' /\ OthersClosed'
    BY <2>1, <2>2, <2>4 DEF LineInv, LineType, OthersClosed, Inside
  <2>6. MayConnect'
    BY <2>1, <2>3 DEF MayConnect
  <2>7. QED BY <2>5, <2>6 DEF LineInv
<1>3. QED BY <1>1, <1>2

\* Leaving the page closes its socket.
LEMMA LeaveLine ==
  ASSUME LineInv, Inside, NEW rs, NEW to \in {"report", "history", "login"}, LeaveFrom(rs, to)
  PROVE  LineInv'
<1>1. /\ cur' = 0 /\ sock' = Closed(cur) /\ place' = to
      /\ retry' = [retry EXCEPT !.timer = FALSE]
  BY DEF LeaveFrom
<1>2. \A i \in Sockets : Closed(cur)[i] \in {"closed", "closing"}
  BY RoomAssumption DEF Closed, LineInv, LineType, OthersClosed
<1>3. Closed(cur) \in [Sockets -> {"closed", "connecting", "open", "closing"}]
  BY DEF Closed, LineInv, LineType
<1>4. retry' = [timer |-> FALSE, attempt |-> retry.attempt]
  BY <1>1 DEF LineInv, LineType
<1>5. LineType'
  BY <1>1, <1>3, <1>4 DEF LineType
<1>6. OthersClosed'
  BY <1>1, <1>2 DEF OthersClosed, Inside
<1>7. QED BY <1>1, <1>4, <1>5, <1>6 DEF LineInv, MayConnect, CurClosed

\* onClose, for the only socket there is.
LEMMA CloseLine ==
  ASSUME LineInv, IsView(view), NEW i \in Sockets, SocketClosed(i)
  PROVE  LineInv'
<1>1. /\ sock' = [sock EXCEPT ![i] = "closed"] /\ UNCHANGED <<place, cur>> /\ OnClose
      /\ sock[i] # "closed"
  BY DEF SocketClosed
<1>2. sock' \in [Sockets -> {"closed", "connecting", "open", "closing"}]
  BY <1>1 DEF LineInv, LineType
<1>3. CASE Inside
  <2>1. i = cur /\ place = "room"
    BY <1>1, <1>3, RoomAssumption DEF LineInv, OthersClosed, Inside
  <2>2. \A j \in Sockets : sock'[j] = "closed"
    BY <1>1, <1>3, <2>1 DEF LineInv, LineType, OthersClosed
  <2>3. retry' = [timer |-> retry'.timer, attempt |-> retry'.attempt]
    BY <1>1 DEF OnClose, LineInv, LineType
  <2>4. QED BY <1>1, <1>2, <2>1, <2>2, <2>3
            DEF LineInv, LineType, OthersClosed, MayConnect, CurClosed, Inside
<1>4. CASE ~Inside
  <2>1. UNCHANGED <<view, retry>>
    BY <1>1, <1>4 DEF OnClose, Inside
  <2>2. \A j \in Sockets : sock'[j] \in {"closed", "closing"}
    BY <1>1, <1>4 DEF LineInv, LineType, OthersClosed
  <2>3. QED BY <1>1, <1>2, <1>4, <2>1, <2>2
            DEF LineInv, LineType, OthersClosed, MayConnect, CurClosed, Inside
<1>5. QED BY <1>3, <1>4

\* The server lets a socket in that was waiting: the current one.
LEMMA AcceptLine ==
  ASSUME LineInv, NEW i \in Sockets, Accept(i)
  PROVE  LineInv'
<1>1. /\ sock[i] = "connecting" /\ sock' = [sock EXCEPT ![i] = "open"]
      /\ UNCHANGED <<place, view, cur, retry>>
  BY DEF Accept, ServerAlone
<1>2. Inside /\ i = cur /\ ~CurClosed
  BY <1>1, RoomAssumption DEF LineInv, OthersClosed, CurClosed
<1>3. QED BY <1>1, <1>2 DEF LineInv, LineType, OthersClosed, MayConnect, CurClosed, Inside

-----------------------------------------------------------------------------
(* The steps. *)

LEMMA CandidateLine ==
  ASSUME LineInv, IsView(view), Candidate
  PROVE  LineInv'
<1>1. CASE GoBack \/ LoggedOut
  BY <1>1, LeaveLine DEF GoBack, LoggedOut, Leave, Inside
<1>2. CASE TokenRemoved \/ SkipQuestion \/ Replay \/ Switch \/ RetryAsr \/ DiscardAudio
  BY <1>2, SameLine DEF TokenRemoved, SkipQuestion, Replay, Switch, RetryAsr, DiscardAudio,
                        lineVars, SameFlags
<1>3. CASE StartRecording \/ StopRecording \/ TogglePause \/ ForceEnd
  <2>1. UNCHANGED <<cur, sock, retry, place>>
    BY <1>3 DEF StartRecording, StopRecording, TogglePause, ForceEnd, lineVars
  <2>2. \/ UNCHANGED view
        \/ view' = [view EXCEPT !.error = FALSE, !.phase = "recording"]
        \/ view' = [view EXCEPT !.error = FALSE, !.phase = "idle"]
        \/ view' = [view EXCEPT !.phase = "transcribing"]
        \/ view' = [view EXCEPT !.paused = FALSE]
        \/ view' = [view EXCEPT !.paused = TRUE]
    BY <1>3 DEF StartRecording, StopRecording, TogglePause, ForceEnd
  <2>3. SameFlags
    BY <2>2 DEF SameFlags, IsView, ViewFields
  <2>4. QED BY <2>1, <2>3, SameLine
<1>4. CASE Reconnect
  <2>1. CurClosed /\ Inside
    BY <1>4 DEF Reconnect, MayReconnect, Inside, LineInv, MayConnect
  <2>2. QED BY <1>4, <2>1, ConnectLine DEF Reconnect, MayReconnect
<1>5. QED BY <1>1, <1>2, <1>3, <1>4 DEF Candidate

LEMMA MessageLine ==
  ASSUME LineInv, IsView(view), NEW i \in Sockets, OnMessage(i)
  PROVE  LineInv'
<1>1. Inside
  BY DEF OnMessage, OnSessionStarted, OnQuestion, OnStatus, OnError, OnDone, OnClosing, Receive,
         Inside
<1>2. CASE LeaveFrom(reads, "report")
  BY <1>1, <1>2, LeaveLine
<1>3. CASE OnSessionStarted(i)
  <2>1. /\ UNCHANGED <<cur, sock, place>> /\ retry' = [retry EXCEPT !.attempt = 0]
        /\ view' = [view EXCEPT !.disconnected = FALSE, !.phase = "idle"]
    BY <1>3 DEF OnSessionStarted
  <2>2. ~view'.disconnected
    BY <2>1 DEF IsView, ViewFields
  <2>3. retry' = [timer |-> retry.timer, attempt |-> 0]
    BY <2>1 DEF LineInv, LineType
  <2>4. QED BY <2>1, <2>2, <2>3
            DEF LineInv, LineType, OthersClosed, MayConnect, CurClosed, Inside
<1>4. CASE OnQuestion(i) \/ OnStatus(i)
  <2>1. UNCHANGED <<cur, sock, retry, place>>
    BY <1>4 DEF OnQuestion, OnStatus
  <2>2. \/ view' = Asked(view, Head(inbox[i]).text)
        \/ view' = [view EXCEPT !.thinking = TRUE, !.phase = "idle"]
        \/ view' = [view EXCEPT !.thinking = FALSE]
    BY <1>4 DEF OnQuestion, OnStatus
  <2>3. SameFlags
    BY <2>2 DEF SameFlags, IsView, ViewFields, Asked, Resting
  <2>4. QED BY <2>1, <2>3, SameLine
<1>5. CASE OnError(i)
  <2>1. UNCHANGED <<cur, sock, retry, place>> /\ view' = [Disconnected(view) EXCEPT !.fatal = TRUE]
    BY <1>5 DEF OnError
  <2>2. view'.fatal
    BY <2>1 DEF IsView, ViewFields, Disconnected, Resting
  <2>3. QED BY <2>1, <2>2 DEF LineInv, LineType, OthersClosed, MayConnect, CurClosed, Inside
<1>6. CASE OnClosing(i) /\ UNCHANGED <<place, cur, sock, retry>>
  <2>1. view' = [Resting(view) EXCEPT !.done = TRUE]
    BY <1>6 DEF OnClosing
  <2>2. SameFlags
    BY <2>1 DEF SameFlags, IsView, ViewFields, Resting
  <2>3. QED BY <1>6, <2>2, SameLine
<1>7. QED BY <1>2, <1>3, <1>4, <1>5, <1>6 DEF OnMessage, OnDone, OnClosing, Leave

LEMMA ClosingLine ==
  ASSUME LineInv, LoadingIsSilent, NEW r \in Readings, AfterClosing(r)
  PROVE  LineInv'
<1>1. UNCHANGED view /\ place # "loading"
  BY DEF AfterClosing, LoadingIsSilent
<1>2. CASE place = "room"
  BY <1>2, LeaveLine DEF AfterClosing, Inside
<1>3. CASE place # "room"
  <2>1. UNCHANGED <<cur, sock, retry>> /\ place' = "report"
    BY <1>3 DEF AfterClosing
  <2>2. QED BY <1>1, <1>3, <2>1
            DEF LineInv, LineType, OthersClosed, MayConnect, CurClosed, Inside
<1>4. QED BY <1>2, <1>3

LEMMA BrowserLine ==
  ASSUME LineInv, IsView(view), LoadingIsSilent, Browser
  PROVE  LineInv'
<1>1. CASE Load
  <2>1. CurClosed /\ Inside
    BY <1>1 DEF Load, LineInv, OthersClosed, CurClosed, Inside
  <2>2. QED BY <1>1, <2>1, ConnectLine DEF Load
<1>2. CASE RetryTimer
  <2>1. CurClosed /\ Inside /\ place' = "room"
    BY <1>2 DEF RetryTimer, LineInv, MayConnect, Inside
  <2>2. QED BY <1>2, <2>1, ConnectLine DEF RetryTimer
<1>3. CASE MicReady \/ Recognised \/ RetryRecognised \/ EndFails
  <2>1. UNCHANGED <<cur, sock, retry, place>>
    BY <1>3 DEF MicReady, Recognised, RetryRecognised, EndFails, SubmitOrNot, Submit, lineVars
  <2>2. \/ UNCHANGED view
        \/ view' = [view EXCEPT !.phase = "idle"]
        \/ view' = [view EXCEPT !.phase = "sending"]
        \/ view' = [view EXCEPT !.error = TRUE]
    BY <1>3 DEF MicReady, Recognised, RetryRecognised, EndFails
  <2>3. SameFlags
    BY <2>2 DEF SameFlags, IsView, ViewFields
  <2>4. QED BY <2>1, <2>3, SameLine
<1>4. CASE EndReturns
  <2>1. CASE place = "room" /\ ~view.done
    BY <1>4, <2>1, LeaveLine DEF EndReturns, Leave, Inside
  <2>2. CASE view.done
    BY <1>4, <2>2, SameLine DEF EndReturns, SameFlags
  <2>3. CASE ~view.done /\ place # "room"
    <3>1. /\ place # "loading" /\ place' = "report" /\ UNCHANGED <<cur, sock, retry>>
          /\ view' = [view EXCEPT !.done = TRUE]
      BY <1>4, <2>3 DEF EndReturns
    <3>2. SameFlags
      BY <3>1 DEF SameFlags, IsView, ViewFields
    <3>3. QED BY <2>3, <3>1, <3>2
              DEF LineInv, LineType, OthersClosed, MayConnect, CurClosed, Inside, SameFlags
  <2>4. QED BY <2>1, <2>2, <2>3
<1>5. CASE \E i \in Sockets : SocketClosed(i)
  BY <1>5, CloseLine
<1>6. CASE \E i \in Sockets : OnMessage(i)
  BY <1>6, MessageLine
<1>7. CASE AvatarLoads \/ \E r \in Readings : Speaking(r)
  BY <1>7, SameLine DEF AvatarLoads, Speaking, lineVars, SameFlags
<1>8. CASE \E r \in Readings : AfterClosing(r)
  BY <1>8, ClosingLine
<1>9. QED BY <1>1, <1>2, <1>3, <1>4, <1>5, <1>6, <1>7, <1>8 DEF Browser

LEMMA NextLine ==
  LineInv /\ CameraInv /\ [Next]_vars => LineInv'
<1> SUFFICES ASSUME LineInv, CameraInv, [Next]_vars PROVE LineInv'
  OBVIOUS
<1>1. IsView(view) /\ LoadingIsSilent
  BY DEF CameraInv
<1>2. CASE Candidate
  BY <1>1, <1>2, CandidateLine
<1>3. CASE Browser
  BY <1>1, <1>3, BrowserLine
<1>4. CASE \E i \in Sockets : Accept(i)
  BY <1>4, AcceptLine
<1>5. CASE ServerEnds \/ \E i \in Sockets : Unanswered(i) \/ HangUp(i) \/ ServerReads(i) \/ Cut(i)
  BY <1>5, SameLine DEF ServerEnds, Unanswered, HangUp, ServerReads, Cut, ServerAlone, SameFlags
<1>6. CASE Watching
  BY <1>6, SameLine DEF Watching, lineVars, SameFlags
<1>7. CASE LoadFails \/ MicDenied
  <2>1. UNCHANGED <<cur, sock, retry>> /\ (place' = place \/ (place = "loading" /\ place' = "room"))
    BY <1>7 DEF LoadFails, MicDenied, lineVars
  <2>2. view' = [view EXCEPT !.error = TRUE] \/ view' = [view EXCEPT !.phase = "idle"]
    BY <1>7 DEF LoadFails, MicDenied
  <2>3. SameFlags
    BY <1>1, <2>2 DEF SameFlags, IsView, ViewFields
  <2>4. QED BY <2>1, <2>3
            DEF LineInv, LineType, OthersClosed, MayConnect, CurClosed, Inside, SameFlags
<1>8. CASE UNCHANGED vars
  BY <1>8, SameLine DEF vars, lineVars, SameFlags
<1>9. QED BY <1>2, <1>3, <1>4, <1>5, <1>6, <1>7, <1>8 DEF Next, Server

LEMMA InitLine == Init => LineInv
  BY DEF Init, LineInv, LineType, OthersClosed, MayConnect, CurClosed, Inside

LEMMA LineIsOneSocket == LineInv => OneSocket
<1> SUFFICES ASSUME LineInv PROVE OneSocket
  OBVIOUS
<1> DEFINE Alive == {i \in Sockets : sock[i] \in {"connecting", "open"}}
<1>1. Alive \subseteq {cur}
  BY DEF LineInv, OthersClosed
<1>2. IsFiniteSet({cur}) /\ Cardinality({cur}) = 1
  BY FS_Singleton
<1>3. Cardinality(Alive) <= 1
  BY <1>1, <1>2, FS_Subset
<1>4. QED BY <1>3 DEF OneSocket, LineInv, MayConnect, CurClosed

-----------------------------------------------------------------------------
\* connectWithRetry and onClose (InterviewRoomPage.tsx:428-489): the page never has two
\* sockets that deliver messages, and schedules no attempt while one is alive.
THEOREM SingleSocket == Spec => []OneSocket
BY InitCamera, NextCamera, InitLine, NextLine, LineIsOneSocket, PTL DEF Spec
=============================================================================
