----------------------------- MODULE VoiceProofs -----------------------------
(***************************************************************************)
(* Two theorems about the voices of RoomSystem. In any scenario without a     *)
(* request to end the interview, the page never asks for, or holds, two       *)
(* microphones; and once the room is muted, paused or left, no call of        *)
(* playQuestion believes that it is the current one.                          *)
(*                                                                         *)
(* OneMicrophone alone is not inductive. The argument counts: while the page   *)
(* is there, voiceActiveRef is set exactly when one recording is somewhere     *)
(* between the press of the button and the end of its recognition.            *)
(* QuietMeansStale is inductive with the types of the calls: every step either  *)
(* makes no call fresh that was not, or starts one where the room is loud.      *)
(***************************************************************************)
EXTENDS RoomProofs

MicType ==
  /\ mic \in [asking : Nat, pressed : BOOLEAN, held : BOOLEAN, leaked : BOOLEAN,
              active : BOOLEAN, cancel : BOOLEAN]
  /\ asr \in [stopped : Nat, retrying : BOOLEAN, failed : BOOLEAN]

One(b) == IF b THEN 1 ELSE 0
OneRecording ==
  /\ ~mic.leaked /\ mic.asking + One(mic.held) <= 1
  /\ place \in {"loading", "room"} =>
       mic.asking + One(mic.held) + asr.stopped = One(mic.active)
MicInv == MicType /\ ("end" \notin can => OneRecording)

\* What has nothing to do with the microphone, and does not enter the page.
LEMMA NoMicKeeps ==
  ASSUME MicInv, UNCHANGED <<can, mic, asr>>,
         place' \in {"loading", "room"} => place \in {"loading", "room"}
  PROVE  MicInv'
  BY DEF MicInv, MicType, OneRecording, One

\* Leaving the page gives the recorder up that it holds, not one still asked for.
LEMMA LeavingMic ==
  ASSUME MicInv, UNCHANGED <<can, asr>>, place' \notin {"loading", "room"},
         NEW rs, NEW to, LeaveFrom(rs, to)
  PROVE  MicInv'
<1>1. mic' = [mic EXCEPT !.pressed = FALSE, !.held = FALSE, !.active = FALSE, !.cancel = FALSE]
  BY DEF LeaveFrom
<1>2. MicType'
  BY <1>1 DEF MicInv, MicType
<1>3. mic'.asking = mic.asking /\ mic'.leaked = mic.leaked /\ mic'.held = FALSE
  BY <1>1 DEF MicInv, MicType
<1>4. OneRecording => mic.asking \in Nat /\ mic.asking <= 1 /\ ~mic.leaked
  BY DEF OneRecording, One, MicInv, MicType
<1>5. OneRecording => OneRecording'
  BY <1>3, <1>4 DEF OneRecording, One
<1>6. QED BY <1>2, <1>5 DEF MicInv

-----------------------------------------------------------------------------
(* The handlers of the voice. *)

LEMMA PressMic ==
  ASSUME MicInv, StartRecording \/ StopRecording
  PROVE  MicInv'
<1>0. MicType
  BY DEF MicInv
<1>1. place = "room" /\ UNCHANGED <<can, place>>
  BY DEF StartRecording, MayRecord, StopRecording
<1>2. CASE StartRecording /\ mic.active
  <2>1. mic' = [mic EXCEPT !.pressed = TRUE] /\ asr' = [asr EXCEPT !.failed = FALSE]
    BY <1>2 DEF StartRecording, Recording
  <2>2. MicType' /\ asr'.stopped = asr.stopped
    BY <2>1, <1>0 DEF MicType
  <2>3. /\ mic'.asking = mic.asking /\ mic'.leaked = mic.leaked /\ mic'.held = mic.held
        /\ mic'.active = mic.active
    BY <2>1, <1>0 DEF MicType
  <2>4. QED BY <1>1, <2>2, <2>3 DEF MicInv, OneRecording
<1>3. CASE StartRecording /\ ~mic.active
  <2>1. /\ mic' = [mic EXCEPT !.pressed = TRUE, !.active = TRUE, !.cancel = FALSE, !.asking = @ + 1]
        /\ asr' = [asr EXCEPT !.failed = FALSE]
    BY <1>3 DEF StartRecording, Recording
  <2>2. mic.asking + 1 \in Nat
    BY <1>0 DEF MicType
  <2>3. MicType' /\ asr'.stopped = asr.stopped
    BY <2>1, <2>2, <1>0 DEF MicType
  <2>4. /\ mic'.asking = mic.asking + 1 /\ mic'.leaked = mic.leaked /\ mic'.held = mic.held
        /\ mic'.active
    BY <2>1, <1>0 DEF MicType
  <2>5. OneRecording => mic.asking = 0 /\ ~mic.held /\ asr.stopped = 0 /\ ~mic.leaked
    BY <1>1, <1>3 DEF OneRecording, One, MicInv, MicType
  <2>6. OneRecording => OneRecording'
    BY <1>1, <2>3, <2>4, <2>5 DEF OneRecording, One
  <2>7. QED BY <1>1, <2>3, <2>6 DEF MicInv
<1>4. CASE StopRecording /\ mic.held
  <2>1. /\ mic' = [mic EXCEPT !.pressed = FALSE, !.held = FALSE]
        /\ asr' = [asr EXCEPT !.stopped = @ + 1]
    BY <1>4 DEF StopRecording
  <2>2. asr.stopped + 1 \in Nat
    BY <1>0 DEF MicType
  <2>3. MicType' /\ asr'.stopped = asr.stopped + 1
    BY <2>1, <2>2, <1>0 DEF MicType
  <2>4. /\ mic'.asking = mic.asking /\ mic'.leaked = mic.leaked /\ mic'.held = FALSE
        /\ mic'.active = mic.active
    BY <2>1, <1>0 DEF MicType
  <2>5. OneRecording => mic.asking = 0 /\ asr.stopped = 0 /\ mic.active /\ ~mic.leaked
    BY <1>1, <1>4 DEF OneRecording, One, MicInv, MicType
  <2>6. OneRecording => OneRecording'
    BY <1>1, <2>3, <2>4, <2>5 DEF OneRecording, One
  <2>7. QED BY <1>1, <2>3, <2>6 DEF MicInv
<1>5. CASE StopRecording /\ ~mic.held
  <2>1. mic' = [mic EXCEPT !.pressed = FALSE, !.cancel = TRUE] /\ UNCHANGED asr
    BY <1>5 DEF StopRecording
  <2>2. MicType'
    BY <2>1, <1>0 DEF MicType
  <2>3. /\ mic'.asking = mic.asking /\ mic'.leaked = mic.leaked /\ mic'.held = mic.held
        /\ mic'.active = mic.active
    BY <2>1, <1>0 DEF MicType
  <2>4. QED BY <1>1, <2>1, <2>2, <2>3 DEF MicInv, OneRecording
<1>6. QED BY <1>2, <1>3, <1>4, <1>5

\* The permission comes, perhaps after the page is gone: nothing was held before it.
LEMMA OpenedMic ==
  ASSUME MicInv, MicReady \/ MicDenied
  PROVE  MicInv'
<1>0. MicType
  BY DEF MicInv
<1>1. UNCHANGED <<can, place, asr>> /\ mic.asking > 0
  BY DEF MicReady, MicDenied
<1>2. OneRecording => /\ mic.asking = 1 /\ ~mic.held /\ ~mic.leaked
                      /\ place \in {"loading", "room"} => asr.stopped = 0 /\ mic.active
  BY <1>1 DEF OneRecording, One, MicInv, MicType
<1>3. CASE MicReady /\ ~mic.cancel
  <2>1. mic' = [Forgotten(mic) EXCEPT !.asking = @ - 1, !.held = TRUE]
    BY <1>3 DEF MicReady
  <2>2. mic.asking - 1 \in Nat
    BY <1>0, <1>1 DEF MicType
  <2>3. MicType'
    BY <1>1, <2>1, <2>2, <1>0 DEF MicType, Forgotten
  <2>4. /\ mic'.asking = mic.asking - 1 /\ (~mic.leaked /\ ~mic.held => ~mic'.leaked)
        /\ mic'.held = TRUE /\ mic'.active = mic.active
    BY <2>1, <1>0 DEF MicType, Forgotten
  <2>5. OneRecording => OneRecording'
    BY <1>1, <1>2, <2>4 DEF OneRecording, One
  <2>6. QED BY <1>1, <2>3, <2>5 DEF MicInv
<1>4. CASE MicReady /\ mic.cancel
  <2>1. mic' = [Forgotten(mic) EXCEPT !.asking = @ - 1, !.active = FALSE, !.held = FALSE]
    BY <1>4 DEF MicReady
  <2>2. mic.asking - 1 \in Nat
    BY <1>0, <1>1 DEF MicType
  <2>3. MicType'
    BY <1>1, <2>1, <2>2, <1>0 DEF MicType, Forgotten
  <2>4. /\ mic'.asking = mic.asking - 1 /\ (~mic.leaked /\ ~mic.held => ~mic'.leaked)
        /\ mic'.held = FALSE /\ mic'.active = FALSE
    BY <2>1, <1>0 DEF MicType, Forgotten
  <2>5. OneRecording => OneRecording'
    BY <1>1, <1>2, <2>4 DEF OneRecording, One
  <2>6. QED BY <1>1, <2>3, <2>5 DEF MicInv
<1>5. CASE MicDenied
  <2>1. mic' = [mic EXCEPT !.asking = @ - 1, !.active = FALSE, !.cancel = FALSE]
    BY <1>5 DEF MicDenied
  <2>2. mic.asking - 1 \in Nat
    BY <1>0, <1>1 DEF MicType
  <2>3. MicType'
    BY <1>1, <2>1, <2>2, <1>0 DEF MicType
  <2>4. /\ mic'.asking = mic.asking - 1 /\ mic'.leaked = mic.leaked
        /\ mic'.held = mic.held /\ mic'.active = FALSE
    BY <2>1, <1>0 DEF MicType
  <2>5. OneRecording => OneRecording'
    BY <1>1, <1>2, <2>4 DEF OneRecording, One
  <2>6. QED BY <1>1, <2>3, <2>5 DEF MicInv
<1>6. QED BY <1>3, <1>4, <1>5

LEMMA HeardMic ==
  ASSUME MicInv, Recognised \/ RetryAsr \/ RetryRecognised \/ DiscardAudio
  PROVE  MicInv'
<1>0. MicType
  BY DEF MicInv
<1>1. UNCHANGED <<can, place>>
  BY DEF Recognised, RetryAsr, RetryRecognised, DiscardAudio
<1>2. CASE Recognised
  <2>1. /\ mic' = [mic EXCEPT !.active = FALSE] /\ asr.stopped > 0
        /\ \/ asr' = [asr EXCEPT !.stopped = @ - 1]
           \/ asr' = [asr EXCEPT !.stopped = @ - 1, !.failed = TRUE]
    BY <1>2 DEF Recognised
  <2>2. asr.stopped - 1 \in Nat
    BY <2>1, <1>0 DEF MicType
  <2>3. MicType' /\ asr'.stopped = asr.stopped - 1
    BY <2>1, <2>2, <1>0 DEF MicType
  <2>4. /\ mic'.asking = mic.asking /\ mic'.leaked = mic.leaked /\ mic'.held = mic.held
        /\ mic'.active = FALSE
    BY <2>1, <1>0 DEF MicType
  <2>5. OneRecording /\ place \in {"loading", "room"} =>
          mic.asking = 0 /\ ~mic.held /\ asr.stopped = 1 /\ ~mic.leaked
    BY <2>1 DEF OneRecording, One, MicInv, MicType
  <2>6. OneRecording => OneRecording'
    BY <1>1, <2>3, <2>4, <2>5 DEF OneRecording, One
  <2>7. QED BY <1>1, <2>3, <2>6 DEF MicInv
<1>3. CASE RetryAsr \/ RetryRecognised \/ DiscardAudio
  <2>1. /\ UNCHANGED mic /\ asr'.stopped = asr.stopped
        /\ asr' \in [stopped : Nat, retrying : BOOLEAN, failed : BOOLEAN]
    BY <1>3 DEF RetryAsr, RetryRecognised, DiscardAudio, MicInv, MicType
  <2>2. QED BY <1>1, <2>1 DEF MicInv, MicType, OneRecording, One
<1>4. QED BY <1>2, <1>3

-----------------------------------------------------------------------------
(* The other steps. *)

LEMMA CandidateMic ==
  ASSUME MicInv, Candidate
  PROVE  MicInv'
<1>1. CASE GoBack \/ LoggedOut
  <2>1. PICK to \in {"history", "login"} : LeaveFrom(reads, to) /\ UNCHANGED <<can, asr>>
    BY <1>1 DEF GoBack, LoggedOut, Leave, LeaveAlone
  <2>2. QED BY <2>1, LeaveGoes, LeavingMic
<1>2. CASE TokenRemoved \/ Reconnect \/ SkipQuestion \/ TogglePause \/ Replay \/ Switch
  BY <1>2, NoMicKeeps DEF TokenRemoved, Reconnect, SkipQuestion, TogglePause, Replay, Switch,
                          voiceVars
<1>3. CASE ForceEnd
  BY <1>3 DEF ForceEnd, MicInv, MicType
<1>4. QED BY <1>1, <1>2, <1>3, PressMic, HeardMic DEF Candidate

LEMMA MessageMic ==
  ASSUME MicInv, NEW i \in Sockets, OnMessage(i)
  PROVE  MicInv'
<1>1. UNCHANGED <<can, asr>> /\ place = "room"
  BY DEF OnMessage, OnSessionStarted, OnQuestion, OnStatus, OnError, OnDone, OnClosing, Receive
<1>2. CASE UNCHANGED mic
  BY <1>1, <1>2, NoMicKeeps
<1>3. CASE LeaveFrom(reads, "report")
  BY <1>1, <1>3, LeaveGoes, LeavingMic
<1>4. QED BY <1>2, <1>3 DEF OnMessage, OnSessionStarted, OnQuestion, OnStatus, OnError, OnDone,
                            OnClosing, Leave

LEMMA ClosingMic ==
  ASSUME MicInv, NEW r \in Readings, AfterClosing(r)
  PROVE  MicInv'
<1>1. UNCHANGED <<can, asr>>
  BY DEF AfterClosing
<1>2. CASE place = "room"
  <2>1. LeaveFrom([reads EXCEPT ![r] = Idle], "report")
    BY <1>2 DEF AfterClosing
  <2>2. QED BY <1>1, <2>1, LeaveGoes, LeavingMic
<1>3. CASE place # "room"
  BY <1>1, <1>3, NoMicKeeps DEF AfterClosing
<1>4. QED BY <1>2, <1>3

LEMMA BrowserMic ==
  ASSUME MicInv, Browser
  PROVE  MicInv'
<1>1. CASE Load \/ RetryTimer \/ AvatarLoads \/ EndFails
  BY <1>1, NoMicKeeps DEF Load, RetryTimer, AvatarLoads, EndFails, voiceVars
<1>2. CASE MicReady \/ Recognised \/ RetryRecognised
  BY <1>2, OpenedMic, HeardMic
<1>3. CASE EndReturns
  <2>1. UNCHANGED <<can, asr>>
    BY <1>3 DEF EndReturns
  <2>2. CASE UNCHANGED <<place, mic>>
    BY <2>1, <2>2, NoMicKeeps
  <2>3. CASE LeaveFrom(reads, "report")
    BY <2>1, <2>3, LeaveGoes, LeavingMic
  <2>4. CASE place' = "report" /\ UNCHANGED mic
    BY <2>1, <2>4, NoMicKeeps
  <2>5. QED BY <1>3, <2>2, <2>3, <2>4 DEF EndReturns, Leave
<1>4. CASE \E i \in Sockets : SocketClosed(i)
  BY <1>4, NoMicKeeps DEF SocketClosed, voiceVars
<1>5. CASE \E i \in Sockets : OnMessage(i)
  BY <1>5, MessageMic
<1>6. CASE \E r \in Readings : Speaking(r)
  BY <1>6, NoMicKeeps DEF Speaking, voiceVars
<1>7. CASE \E r \in Readings : AfterClosing(r)
  BY <1>7, ClosingMic
<1>8. QED BY <1>1, <1>2, <1>3, <1>4, <1>5, <1>6, <1>7 DEF Browser

LEMMA NextMic == MicInv /\ [Next]_vars => MicInv'
<1> SUFFICES ASSUME MicInv, [Next]_vars PROVE MicInv'
  OBVIOUS
<1>1. CASE Candidate
  BY <1>1, CandidateMic
<1>2. CASE Browser
  BY <1>2, BrowserMic
<1>3. CASE Server \/ \E i \in Sockets : Cut(i)
  <2>1. UNCHANGED <<can, place, mic, asr>>
    BY <1>3 DEF Server, Accept, Unanswered, HangUp, ServerReads, ServerEnds, Cut, ServerAlone,
                voiceVars
  <2>2. QED BY <2>1, NoMicKeeps
<1>4. CASE Watching \/ LoadFails
  BY <1>4, NoMicKeeps DEF Watching, LoadFails, voiceVars
<1>5. CASE MicDenied
  BY <1>5, OpenedMic
<1>6. CASE UNCHANGED vars
  BY <1>6, NoMicKeeps DEF vars, voiceVars
<1>7. QED BY <1>1, <1>2, <1>3, <1>4, <1>5, <1>6 DEF Next

LEMMA InitMic == Init => MicInv
  BY DEF Init, MicInv, MicType, OneRecording, One

-----------------------------------------------------------------------------
\* voiceActiveRef (InterviewRoomPage.tsx:619-704): as long as no end is requested, a
\* microphone is opened only when no other is asked for or held, and none is forgotten.
THEOREM SingleMicrophone == Spec => []OneMicrophone
<1>1. MicInv => OneMicrophone
  BY DEF MicInv, MicType, OneRecording, One, OneMicrophone
<1>2. QED BY InitMic, NextMic, <1>1, PTL DEF Spec

-----------------------------------------------------------------------------
(* The interviewer's voice. *)

Calls ==
  [at : {"idle", "synth", "init", "decode", "avatar", "player", "returned", "hung"},
   fresh : BOOLEAN, left : 0..MaxSegments, leave : BOOLEAN]
Hushed == muted \/ (view.paused /\ ~view.done) \/ place \notin {"loading", "room"}
\* rs makes no call fresh that reads has not.
NoFresher(rs) == \A r \in Readings : rs[r].fresh => reads[r].fresh
Stale(rs) == \A r \in Readings : ~rs[r].fresh
SpeechInv == reads \in [Readings -> Calls] /\ IsView(view) /\ QuietMeansStale

-----------------------------------------------------------------------------
(* Operators on calls. *)

LEMMA OverCalls ==
  ASSUME NEW rs \in [Readings -> Calls], NEW r \in Readings
  PROVE  /\ Over(rs, r) \in [Readings -> Calls] /\ Hang(rs, r) \in [Readings -> Calls]
         /\ \A s \in Readings : /\ Over(rs, r)[s].fresh => rs[s].fresh
                                /\ Hang(rs, r)[s].fresh => rs[s].fresh
<1>1. Idle \in Calls /\ ~Idle.fresh
  BY SpeechAssumption DEF Idle, Calls
<1>2. \A a \in {"returned", "hung"} :
        /\ [rs[r] EXCEPT !.at = a, !.fresh = FALSE] \in Calls
        /\ [rs[r] EXCEPT !.at = a, !.fresh = FALSE].fresh = FALSE
  BY DEF Calls
<1>3. QED BY <1>1, <1>2 DEF Over, Hang

LEMMA OutdatedCalls ==
  ASSUME NEW rs \in [Readings -> Calls]
  PROVE  Outdated(rs) \in [Readings -> Calls] /\ Stale(Outdated(rs))
<1>1. \A r \in Readings : /\ [rs[r] EXCEPT !.fresh = FALSE] \in Calls
                          /\ [rs[r] EXCEPT !.fresh = FALSE].fresh = FALSE
  BY DEF Calls
<1>2. QED BY <1>1 DEF Outdated, Stale

LEMMA SilencedCalls ==
  ASSUME NEW rs \in [Readings -> Calls]
  PROVE  /\ Silenced(rs) \in [Readings -> Calls]
         /\ \A r \in Readings : Silenced(rs)[r].fresh => rs[r].fresh
<1>1. \A r \in Readings : Silenced(rs)[r] \in {rs[r], Over(rs, r)[r], Hang(rs, r)[r]}
  BY DEF Silenced
<1>2. \A r \in Readings : Silenced(rs)[r] \in Calls /\ (Silenced(rs)[r].fresh => rs[r].fresh)
  BY <1>1, OverCalls
<1>3. Silenced(rs) = [r \in Readings |-> Silenced(rs)[r]]
  BY DEF Silenced
<1>4. QED BY <1>2, <1>3

\* stopVoice, alone or with a new version.
LEMMA StoppedCalls ==
  ASSUME SpeechInv, NEW rs, StopVoiceOn(rs), rs = reads \/ rs = Outdated(reads)
  PROVE  reads' \in [Readings -> Calls] /\ NoFresher(reads')
                                        /\ (rs = Outdated(reads) => Stale(reads'))
<1>1. reads' = Silenced(rs) /\ rs \in [Readings -> Calls]
  BY OutdatedCalls DEF StopVoiceOn, SpeechInv
<1>2. \A r \in Readings : rs[r].fresh => reads[r].fresh
  BY OutdatedCalls DEF SpeechInv, Stale
<1>3. QED BY <1>1, <1>2, SilencedCalls, OutdatedCalls DEF NoFresher, Stale, SpeechInv

LEMMA InterruptedCalls ==
  ASSUME SpeechInv, Interrupt PROVE reads' \in [Readings -> Calls] /\ Stale(reads')
  BY StoppedCalls DEF Interrupt

LEMMA LeftCalls ==
  ASSUME SpeechInv, NEW rs \in [Readings -> Calls], NEW to, LeaveFrom(rs, to)
  PROVE  reads' \in [Readings -> Calls] /\ Stale(reads')
<1>1. reads' = Silenced(Outdated(rs))
  BY DEF LeaveFrom, DisposeVoice, StopVoiceOn
<1>2. QED BY <1>1, OutdatedCalls, SilencedCalls DEF Stale

LEMMA PlayedCalls ==
  ASSUME SpeechInv, NEW leave \in BOOLEAN, PlayQuestion(leave)
  PROVE  reads' \in [Readings -> Calls] /\ (muted => UNCHANGED reads)
<1>1. CASE muted
  BY <1>1 DEF PlayQuestion, SpeechInv
<1>2. CASE ~muted
  <2>1. PICK r \in Readings, n \in 1..MaxSegments :
          reads' = [Outdated(reads) EXCEPT ![r] =
                      [at |-> "synth", fresh |-> TRUE, left |-> n, leave |-> leave]]
    BY <1>2 DEF PlayQuestion
  <2>2. [at |-> "synth", fresh |-> TRUE, left |-> n, leave |-> leave] \in Calls
    BY SpeechAssumption DEF Calls
  <2>3. QED BY <1>2, <2>1, <2>2, OutdatedCalls DEF SpeechInv
<1>3. QED BY <1>1, <1>2

-----------------------------------------------------------------------------
(* Three ways in which a step keeps the invariant. *)

LEMMA ByNoFresher ==
  ASSUME SpeechInv, reads' \in [Readings -> Calls], NoFresher(reads'), IsView(view'),
         Hushed' => Hushed
  PROVE  SpeechInv'
  BY DEF SpeechInv, NoFresher, QuietMeansStale, Hushed

LEMMA ByStale ==
  ASSUME reads' \in [Readings -> Calls], Stale(reads'), IsView(view')
  PROVE  SpeechInv'
  BY DEF SpeechInv, Stale, QuietMeansStale

LEMMA ByLoud ==
  ASSUME reads' \in [Readings -> Calls], IsView(view'), ~Hushed'
  PROVE  SpeechInv'
  BY DEF SpeechInv, QuietMeansStale, Hushed

\* Steps that leave the calls alone and hush nothing.
SameHush ==
  /\ view'.paused = view.paused /\ view'.done = view.done /\ IsView(view')
  /\ UNCHANGED muted /\ (place' = place \/ (place = "loading" /\ place' = "room"))
LEMMA BySame ==
  ASSUME SpeechInv, UNCHANGED reads, SameHush
  PROVE  SpeechInv'
  BY ByNoFresher DEF SpeechInv, NoFresher, Hushed, SameHush

-----------------------------------------------------------------------------
(* Readings. *)

\* A call goes on from one of its awaits.
LEMMA SpeakingKeeps ==
  ASSUME SpeechInv, NEW r \in Readings, Speaking(r)
  PROVE  SpeechInv'
<1>1. UNCHANGED <<place, view, muted>>
  BY DEF Speaking, SpeechStep, Synthesised, ReadingFails, InitSettled, Decoded, SegmentEnds
<1>2. \/ reads' = Over(reads, r)
      \/ \E a \in {"init", "decode", "avatar", "player"} : reads' = [reads EXCEPT ![r].at = a]
      \/ reads[r].left > 1 /\ reads' = [reads EXCEPT ![r].at = "synth", ![r].left = @ - 1]
  BY DEF Speaking, SpeechStep, Synthesised, ReadingFails, InitSettled, Decoded, SegmentEnds, Play
<1>3. reads' \in [Readings -> Calls] /\ NoFresher(reads')
  <2>1. CASE reads' = Over(reads, r)
    BY <2>1, OverCalls DEF SpeechInv, NoFresher
  <2>2. CASE \E a \in {"init", "decode", "avatar", "player"} : reads' = [reads EXCEPT ![r].at = a]
    <3>1. PICK a \in {"init", "decode", "avatar", "player"} : reads' = [reads EXCEPT ![r].at = a]
      BY <2>2
    <3>2. [reads[r] EXCEPT !.at = a] \in Calls /\ [reads[r] EXCEPT !.at = a].fresh = reads[r].fresh
      BY DEF SpeechInv, Calls
    <3>3. QED BY <3>1, <3>2 DEF SpeechInv, NoFresher
  <2>3. CASE reads[r].left > 1 /\ reads' = [reads EXCEPT ![r].at = "synth", ![r].left = @ - 1]
    <3>1. reads[r] \in Calls
      BY DEF SpeechInv
    <3>2. reads[r].left - 1 \in 0..MaxSegments
      BY <2>3, <3>1, SpeechAssumption DEF Calls
    <3>3. /\ [reads[r] EXCEPT !.at = "synth", !.left = reads[r].left - 1] \in Calls
          /\ [reads[r] EXCEPT !.at = "synth", !.left = reads[r].left - 1].fresh = reads[r].fresh
      BY <3>1, <3>2 DEF Calls
    <3>4. reads' = [reads EXCEPT ![r] = [reads[r] EXCEPT !.at = "synth", !.left = reads[r].left - 1]]
      BY <2>3 DEF SpeechInv
    <3>5. QED BY <3>3, <3>4 DEF SpeechInv, NoFresher
  <2>4. QED BY <1>2, <2>1, <2>2, <2>3
<1>4. QED BY <1>1, <1>3, ByNoFresher DEF SpeechInv, Hushed, IsView

-----------------------------------------------------------------------------
(* The candidate. *)

LEMMA SwitchKeeps ==
  ASSUME SpeechInv, Switch
  PROVE  SpeechInv'
<1>1. UNCHANGED <<place, view>> /\ IsView(view')
  BY DEF Switch, SpeechInv, IsView
<1>2. CASE Interrupt
  BY <1>1, <1>2, InterruptedCalls, ByStale
<1>3. CASE UNCHANGED reads /\ (muted' => muted)
  BY <1>1, <1>3, ByNoFresher DEF SpeechInv, NoFresher, Hushed
<1>4. QED BY <1>2, <1>3 DEF Switch, ToggleMute, ToggleAvatar

LEMMA CandidateSpeech ==
  ASSUME SpeechInv, Candidate
  PROVE  SpeechInv'
<1>1. IsView(view) /\ reads \in [Readings -> Calls]
  BY DEF SpeechInv
<1>2. CASE GoBack \/ LoggedOut
  <2>1. PICK to : LeaveFrom(reads, to) /\ UNCHANGED view
    BY <1>2 DEF GoBack, LoggedOut, Leave
  <2>2. QED BY <1>1, <2>1, LeftCalls, ByStale DEF IsView
<1>3. CASE TokenRemoved \/ RetryAsr \/ DiscardAudio
  BY <1>1, <1>3, BySame DEF TokenRemoved, RetryAsr, DiscardAudio, SameHush, speechVars, IsView
<1>4. CASE Reconnect
  <2>1. \/ view' = [view EXCEPT !.error = TRUE]
        \/ view' = [view EXCEPT !.disconnected = FALSE, !.error = FALSE, !.fatal = FALSE]
    BY <1>4 DEF Reconnect, ConnectWithRetry
  <2>2. view'.paused = view.paused /\ view'.done = view.done /\ IsView(view')
    BY <1>1, <2>1 DEF IsView, ViewFields
  <2>3. QED BY <1>4, <2>2, BySame DEF Reconnect, SameHush, speechVars
<1>5. CASE Interrupt /\ IsView(view')
  BY <1>5, InterruptedCalls, ByStale
<1>6. CASE StartRecording
  <2>1. CASE mic.active
    BY <1>1, <1>6, <2>1, BySame DEF StartRecording, Recording, Quiet, SameHush, speechVars, IsView
  <2>2. CASE ~mic.active
    <3>1. Interrupt /\ view' = [view EXCEPT !.error = FALSE, !.phase = "recording"]
      BY <1>6, <2>2 DEF StartRecording, Recording
    <3>2. QED BY <1>1, <1>5, <3>1 DEF IsView, ViewFields
  <2>3. QED BY <2>1, <2>2
<1>7. CASE StopRecording
  <2>1. UNCHANGED view \/ view' = [view EXCEPT !.phase = "transcribing"]
    BY <1>7 DEF StopRecording
  <2>2. view'.paused = view.paused /\ view'.done = view.done /\ IsView(view')
    BY <1>1, <2>1 DEF IsView, ViewFields
  <2>3. QED BY <1>7, <2>2, BySame DEF StopRecording, SameHush, speechVars
<1>8. CASE SkipQuestion
  BY <1>1, <1>5, <1>8 DEF SkipQuestion, IsView
<1>9. CASE TogglePause
  <2>1. CASE view.paused
    <3>1. view' = [view EXCEPT !.paused = FALSE] /\ UNCHANGED <<place, muted, reads>>
      BY <1>9, <2>1 DEF TogglePause, Quiet, speechVars
    <3>2. ~view'.paused /\ IsView(view')
      BY <1>1, <3>1 DEF IsView, ViewFields
    <3>3. QED BY <1>1, <3>1, <3>2, ByNoFresher DEF NoFresher, Hushed
  <2>2. CASE ~view.paused
    <3>1. Interrupt /\ view' = [view EXCEPT !.paused = TRUE]
      BY <1>9, <2>2 DEF TogglePause
    <3>2. QED BY <1>1, <1>5, <3>1 DEF IsView, ViewFields
  <2>3. QED BY <2>1, <2>2
<1>10. CASE Replay
  <2>1. /\ PlayQuestion(FALSE) /\ UNCHANGED <<place, view, muted>> /\ place = "room"
        /\ ~muted /\ ~view.paused
    BY <1>10 DEF Replay, MayReplay
  <2>2. QED BY <1>1, <2>1, PlayedCalls, ByLoud DEF Hushed, IsView
<1>11. CASE Switch
  BY <1>11, SwitchKeeps
<1>12. CASE ForceEnd
  <2>1. Interrupt /\ view' = [view EXCEPT !.error = FALSE, !.phase = "idle"]
    BY <1>12 DEF ForceEnd
  <2>2. QED BY <1>1, <1>5, <2>1 DEF IsView, ViewFields
<1>13. QED BY <1>2, <1>3, <1>4, <1>6, <1>7, <1>8, <1>9, <1>10, <1>11, <1>12 DEF Candidate

-----------------------------------------------------------------------------
(* The messages. *)

\* A question is read aloud only in a room that is loud; closing words even in a pause.
LEMMA MessageSpeech ==
  ASSUME SpeechInv, NEW i \in Sockets, OnMessage(i)
  PROVE  SpeechInv'
<1>1. IsView(view) /\ reads \in [Readings -> Calls]
  BY DEF SpeechInv
<1>2. place = "room"
  BY DEF OnMessage, OnSessionStarted, OnQuestion, OnStatus, OnError, OnDone, OnClosing, Receive
<1>3. CASE OnSessionStarted(i) \/ OnStatus(i) \/ OnError(i)
  <2>1. UNCHANGED <<place, muted, reads>>
    BY <1>3 DEF OnSessionStarted, OnStatus, OnError, speechVars
  <2>2. \/ view' = [view EXCEPT !.disconnected = FALSE, !.phase = "idle"]
        \/ view' = [view EXCEPT !.thinking = TRUE, !.phase = "idle"]
        \/ view' = [view EXCEPT !.thinking = FALSE]
        \/ view' = [Disconnected(view) EXCEPT !.fatal = TRUE]
    BY <1>3 DEF OnSessionStarted, OnStatus, OnError
  <2>3. view'.paused = view.paused /\ view'.done = view.done /\ IsView(view')
    BY <1>1, <2>2 DEF IsView, ViewFields, Disconnected, Resting
  <2>4. QED BY <2>1, <2>3, BySame DEF SameHush
<1>4. CASE OnQuestion(i)
  <2>1. /\ UNCHANGED <<place, muted>> /\ view' = Asked(view, Head(inbox[i]).text)
        /\ IF view.paused THEN UNCHANGED reads ELSE PlayQuestion(FALSE)
    BY <1>4 DEF OnQuestion
  <2>2. view'.paused = view.paused /\ view'.done = view.done /\ IsView(view')
    BY <1>1, <2>1 DEF IsView, ViewFields, Asked, Resting
  <2>3. CASE view.paused \/ muted
    <3>1. UNCHANGED reads
      BY <2>1, <2>3, PlayedCalls
    <3>2. QED BY <2>1, <2>2, <3>1, BySame DEF SameHush
  <2>4. CASE ~view.paused /\ ~muted
    <3>1. reads' \in [Readings -> Calls]
      BY <2>1, <2>4, PlayedCalls
    <3>2. QED BY <1>2, <2>1, <2>2, <2>4, <3>1, ByLoud DEF Hushed
  <2>5. QED BY <2>3, <2>4
<1>5. CASE OnDone(i) \/ OnClosing(i)
  <2>1. view' = [Resting(view) EXCEPT !.done = TRUE]
    BY <1>5 DEF OnDone, OnClosing
  <2>2. view'.done /\ IsView(view')
    BY <1>1, <2>1 DEF IsView, ViewFields, Resting
  <2>3. CASE LeaveFrom(reads, "report")
    BY <1>1, <2>2, <2>3, LeftCalls, ByStale
  <2>4. CASE ~muted /\ PlayQuestion(TRUE) /\ UNCHANGED <<muted, place>>
    <3>1. reads' \in [Readings -> Calls]
      BY <2>4, PlayedCalls
    <3>2. QED BY <1>2, <2>2, <2>4, <3>1, ByLoud DEF Hushed
  <2>5. QED BY <1>5, <2>3, <2>4 DEF OnDone, OnClosing, Leave
<1>6. QED BY <1>3, <1>4, <1>5 DEF OnMessage

LEMMA ClosingSpeech ==
  ASSUME SpeechInv, LoadingIsSilent, NEW r \in Readings, AfterClosing(r)
  PROVE  SpeechInv'
<1>1. IsView(view') /\ UNCHANGED view /\ reads \in [Readings -> Calls] /\ place # "loading"
  BY DEF AfterClosing, SpeechInv, IsView, LoadingIsSilent
<1>2. Idle \in Calls /\ ~Idle.fresh
  BY SpeechAssumption DEF Idle, Calls
<1>3. [reads EXCEPT ![r] = Idle] \in [Readings -> Calls]
  BY <1>1, <1>2
<1>4. CASE place = "room"
  BY <1>1, <1>3, <1>4, LeftCalls, ByStale DEF AfterClosing
<1>5. CASE place # "room"
  <2>1. reads' = [reads EXCEPT ![r] = Idle]
    BY <1>5 DEF AfterClosing
  <2>2. NoFresher(reads')
    BY <1>1, <1>2, <2>1 DEF NoFresher
  <2>3. Hushed
    BY <1>1, <1>5 DEF Hushed
  <2>4. QED BY <1>1, <1>3, <2>1, <2>2, <2>3, ByNoFresher
<1>6. QED BY <1>4, <1>5

-----------------------------------------------------------------------------
LEMMA BrowserSpeech ==
  ASSUME SpeechInv, LoadingIsSilent, Browser
  PROVE  SpeechInv'
<1>1. IsView(view) /\ reads \in [Readings -> Calls]
  BY DEF SpeechInv
<1>2. CASE Load \/ RetryTimer
  <2>1. \/ view' = [view EXCEPT !.error = TRUE]
        \/ view' = [view EXCEPT !.disconnected = FALSE, !.error = FALSE, !.fatal = FALSE]
    BY <1>2 DEF Load, RetryTimer, ConnectWithRetry
  <2>2. view'.paused = view.paused /\ view'.done = view.done /\ IsView(view')
    BY <1>1, <2>1 DEF IsView, ViewFields
  <2>3. UNCHANGED <<muted, reads>> /\ (place' = place \/ (place = "loading" /\ place' = "room"))
    BY <1>2 DEF Load, RetryTimer, speechVars
  <2>4. QED BY <2>2, <2>3, BySame DEF SameHush
<1>3. CASE MicReady \/ Recognised \/ RetryRecognised \/ EndFails
  <2>1. UNCHANGED <<place, muted, reads>>
    BY <1>3 DEF MicReady, Recognised, RetryRecognised, EndFails, speechVars
  <2>2. \/ UNCHANGED view
        \/ view' = [view EXCEPT !.phase = "idle"]
        \/ view' = [view EXCEPT !.phase = "sending"]
        \/ view' = [view EXCEPT !.error = TRUE]
    BY <1>3 DEF MicReady, Recognised, RetryRecognised, EndFails
  <2>3. view'.paused = view.paused /\ view'.done = view.done /\ IsView(view')
    BY <1>1, <2>2 DEF IsView, ViewFields
  <2>4. QED BY <2>1, <2>3, BySame DEF SameHush
<1>4. CASE EndReturns
  <2>1. CASE place = "room" /\ ~view.done
    <3>1. LeaveFrom(reads, "report") /\ view' = [view EXCEPT !.done = TRUE]
      BY <1>4, <2>1 DEF EndReturns, Leave
    <3>2. IsView(view')
      BY <1>1, <3>1 DEF IsView, ViewFields
    <3>3. QED BY <1>1, <3>1, <3>2, LeftCalls, ByStale
  <2>2. CASE view.done
    BY <1>1, <1>4, <2>2, BySame DEF EndReturns, SameHush, speechVars, IsView
  <2>3. CASE ~view.done /\ place # "room"
    <3>1. /\ place # "loading" /\ place' = "report" /\ UNCHANGED reads
          /\ view' = [view EXCEPT !.done = TRUE]
      BY <1>4, <2>3 DEF EndReturns, speechVars
    <3>2. IsView(view') /\ NoFresher(reads') /\ Hushed
      BY <1>1, <2>3, <3>1 DEF IsView, ViewFields, NoFresher, Hushed
    <3>3. QED BY <1>1, <3>1, <3>2, ByNoFresher
  <2>4. QED BY <2>1, <2>2, <2>3
<1>5. CASE AvatarLoads
  BY <1>1, <1>5, BySame DEF AvatarLoads, AvatarInit, SameHush, IsView
<1>6. CASE \E i \in Sockets : SocketClosed(i)
  <2>1. OnClose /\ UNCHANGED place
    BY <1>6 DEF SocketClosed
  <2>2. view' = view \/ view' = Disconnected(view) \/ view' = Resting(view)
    BY <2>1 DEF OnClose
  <2>3. view'.paused = view.paused /\ view'.done = view.done /\ IsView(view')
    BY <1>1, <2>2 DEF IsView, ViewFields, Disconnected, Resting
  <2>4. CASE UNCHANGED speechVars
    BY <2>1, <2>3, <2>4, BySame DEF SameHush, speechVars
  <2>5. CASE StopVoice /\ UNCHANGED muted
    <3>1. reads' \in [Readings -> Calls] /\ NoFresher(reads')
      BY <2>5, StoppedCalls DEF StopVoice
    <3>2. QED BY <2>1, <2>3, <2>5, <3>1, ByNoFresher DEF Hushed
  <2>6. QED BY <2>1, <2>4, <2>5 DEF OnClose, Quiet
<1>7. CASE \E i \in Sockets : OnMessage(i)
  BY <1>7, MessageSpeech
<1>8. CASE \E r \in Readings : Speaking(r)
  BY <1>8, SpeakingKeeps
<1>9. CASE \E r \in Readings : AfterClosing(r)
  BY <1>9, ClosingSpeech
<1>10. QED BY <1>2, <1>3, <1>4, <1>5, <1>6, <1>7, <1>8, <1>9 DEF Browser

LEMMA NextSpeech == SpeechInv /\ CameraInv /\ [Next]_vars => SpeechInv'
<1> SUFFICES ASSUME SpeechInv, CameraInv, [Next]_vars PROVE SpeechInv'
  OBVIOUS
<1>1. IsView(view) /\ LoadingIsSilent
  BY DEF CameraInv
<1>2. CASE Candidate
  BY <1>2, CandidateSpeech
<1>3. CASE Browser
  BY <1>1, <1>3, BrowserSpeech
<1>4. CASE Server \/ Watching \/ \E i \in Sockets : Cut(i)
  <2>1. UNCHANGED <<place, view, muted, reads>>
    BY <1>4 DEF Server, Accept, Unanswered, HangUp, ServerReads, ServerEnds, Cut, ServerAlone,
                Watching, speechVars
  <2>2. QED BY <1>1, <2>1, BySame DEF SameHush, IsView
<1>5. CASE LoadFails \/ MicDenied
  <2>1. view' = [view EXCEPT !.error = TRUE] \/ view' = [view EXCEPT !.phase = "idle"]
    BY <1>5 DEF LoadFails, MicDenied
  <2>2. view'.paused = view.paused /\ view'.done = view.done /\ IsView(view')
    BY <1>1, <2>1 DEF IsView, ViewFields
  <2>3. QED BY <1>5, <2>2, BySame DEF LoadFails, MicDenied, SameHush, speechVars
<1>6. CASE UNCHANGED vars
  BY <1>1, <1>6, BySame DEF vars, speechVars, SameHush, IsView
<1>7. QED BY <1>2, <1>3, <1>4, <1>5, <1>6 DEF Next

LEMMA InitSpeech == Init => SpeechInv
<1> SUFFICES ASSUME Init PROVE SpeechInv
  OBVIOUS
<1>1. Idle \in Calls /\ ~Idle.fresh
  BY SpeechAssumption DEF Idle, Calls
<1>2. reads = [r \in Readings |-> Idle] /\ IsView(view)
  BY DEF Init, SpeechInit, IsView, ViewFields
<1>3. QED BY <1>1, <1>2 DEF SpeechInv, QuietMeansStale

-----------------------------------------------------------------------------
\* speechVersionRef (InterviewRoomPage.tsx:219-341): once muted, paused or left, nothing that
\* is still being synthesised or decoded goes on to a further segment; only closing words are
\* read in a paused room.
THEOREM QuietStaysQuiet == Spec => []QuietMeansStale
<1>1. SpeechInv => QuietMeansStale
  BY DEF SpeechInv
<1>2. QED BY InitCamera, NextCamera, InitSpeech, NextSpeech, <1>1, PTL DEF Spec
=============================================================================
