------------------------------- MODULE Speech -------------------------------
(***************************************************************************)
(* How the interview room reads the interviewer's words aloud: playQuestion *)
(* and the switches of InterviewRoomPage.tsx, lib/voicePlayer.ts and the    *)
(* speak and stop of lib/avatar/avatarController.ts.                        *)
(*                                                                         *)
(* A reading is one call of playQuestion, suspended at one of its awaits:   *)
(* the synthesis of a segment ("synth"), the avatar's initialisation        *)
(* ("init"), the decoding of the audio ("decode"), the end of the audio as  *)
(* played by the avatar ("avatar") or by an <audio> element ("player").     *)
(* "fresh" says that speechVersionRef still has the call's version. The     *)
(* call made for the closing words ("leave") is awaited by the message      *)
(* handler: it is "returned" when the handler may go on, and "hung" when    *)
(* the promise it awaits can never settle.                                  *)
(***************************************************************************)
EXTENDS Naturals, FiniteSets

CONSTANTS Readings,     \* names of the calls of playQuestion under way at once
          MaxSegments   \* segments a text is split into, at most

ASSUME SpeechAssumption == /\ Readings \subseteq Nat \ {0}
                           /\ MaxSegments \in Nat \ {0}

VARIABLES muted,      \* ttsMutedRef
          avatar,     \* avatarEnabledRef and the controller's status
          reads,      \* the calls of playQuestion
          element,    \* the reading whose <audio> the player holds, or 0
          sounding,   \* readings whose <audio> element is playing
          rejecter    \* the reading behind the avatar's pendingReject, or 0

speechVars == <<muted, avatar, reads, element, sounding, rejecter>>

AvatarStatus == {"idle", "loading", "ready", "failed"}
Idle == [at |-> "idle", fresh |-> FALSE, left |-> 0, leave |-> FALSE]

SpeechType ==
  /\ muted \in BOOLEAN
  /\ avatar \in [enabled : BOOLEAN, status : AvatarStatus]
  /\ reads \in [Readings ->
        [at : {"idle", "synth", "init", "decode", "avatar", "player", "returned", "hung"},
         fresh : BOOLEAN, left : 0..MaxSegments, leave : BOOLEAN]]
  /\ element \in Readings \cup {0}
  /\ sounding \subseteq Readings
  /\ rejecter \in Readings \cup {0}

\* Whether the avatar is switched on is remembered from earlier visits.
SpeechInit(quiet, kept) ==
  /\ muted = quiet
  /\ avatar \in [enabled : IF kept THEN BOOLEAN ELSE {FALSE}, status : {"idle"}]
  /\ reads = [r \in Readings |-> Idle]
  /\ element = 0 /\ sounding = {} /\ rejecter = 0

-----------------------------------------------------------------------------
(* Parts of handlers. *)

\* The call r of playQuestion returns.
Over(rs, r) ==
  [rs EXCEPT ![r] = IF @.leave THEN [@ EXCEPT !.at = "returned", !.fresh = FALSE] ELSE Idle]

\* The promise that r awaits will never settle.
Hang(rs, r) ==
  [rs EXCEPT ![r] = IF @.leave THEN [@ EXCEPT !.at = "hung", !.fresh = FALSE] ELSE Idle]

StillCurrent(rs) == rs
\* speechVersionRef.current += 1
Outdated(rs) == [r \in Readings |-> [rs[r] EXCEPT !.fresh = FALSE]]

\* stopVoice: the held <audio> is paused without settling its promise, and the
\* avatar's queue is cleared; pendingReject, if set, makes that call return.
Silenced(rs) ==
  [r \in Readings |->
     CASE rs[r].at = "player" /\ r = element -> Hang(rs, r)[r]
       [] rs[r].at = "avatar" /\ avatar.status = "ready" ->
            IF r = rejecter THEN Over(rs, r)[r] ELSE Hang(rs, r)[r]
       [] OTHER -> rs[r]]

StopVoiceOn(rs) ==
  /\ reads' = Silenced(rs)
  /\ sounding' = sounding \ {element}
  /\ element' = 0
  /\ rejecter' = IF avatar.status = "ready" THEN 0 ELSE rejecter
StopVoice == StopVoiceOn(reads)
Interrupt == StopVoiceOn(Outdated(reads))

\* playQuestion up to its first await. It outdates the calls before it and
\* stops nothing.
PlayQuestion(leave) ==
  IF muted
  THEN UNCHANGED reads
  ELSE \E r \in Readings, n \in 1..MaxSegments :
         /\ reads[r].at = "idle"
         /\ \A s \in Readings : s < r => reads[s].at # "idle"
         /\ reads' = [Outdated(reads) EXCEPT ![r] =
                        [at |-> "synth", fresh |-> TRUE, left |-> n, leave |-> leave]]

\* voicePlayer.play: the stop() it calls first is the window's, not the
\* player's, so an element that is playing plays on and is forgotten.
Play(r) ==
  /\ reads' = [reads EXCEPT ![r].at = "player"]
  /\ element' = r
  /\ sounding' = sounding \cup {r}

\* dispose: stop, then the engine is released.
DisposeVoice(rs) ==
  /\ StopVoiceOn(Outdated(rs))
  /\ avatar' = [avatar EXCEPT !.status = "idle"]
  /\ UNCHANGED muted

-----------------------------------------------------------------------------
(* Steps of the browser. *)

\* The segment arrives; a call that is outdated gives up, otherwise playSegment
\* chooses who speaks.
Synthesised(r) ==
  /\ reads[r].at = "synth"
  /\ \/ /\ ~reads[r].fresh
        /\ reads' = Over(reads, r)
        /\ UNCHANGED <<element, sounding>>
     \/ /\ reads[r].fresh /\ avatar.enabled /\ avatar.status \in {"loading", "ready"}
        /\ reads' = [reads EXCEPT ![r].at =
                       IF avatar.status = "loading" THEN "init" ELSE "decode"]
        /\ UNCHANGED <<element, sounding>>
     \/ /\ reads[r].fresh /\ ~(avatar.enabled /\ avatar.status \in {"loading", "ready"})
        /\ Play(r)
  /\ UNCHANGED <<muted, avatar, rejecter>>

\* Synthesis, playback or its start fails: the call ends.
ReadingFails(r) ==
  /\ reads[r].at \in {"synth", "player"}
  /\ reads[r].at = "player" => r \in sounding
  /\ reads' = Over(reads, r)
  /\ sounding' = sounding \ {r}
  /\ UNCHANGED <<muted, avatar, element, rejecter>>

\* The avatar's engine is there, or could not be loaded.
AvatarInit ==
  /\ avatar.status = "loading"
  /\ \E s \in {"ready", "failed"} : avatar' = [avatar EXCEPT !.status = s]
  /\ UNCHANGED <<muted, reads, element, sounding, rejecter>>

\* speak goes on after initPromise, and falls back when the engine is not ready.
InitSettled(r) ==
  /\ reads[r].at = "init" /\ avatar.status # "loading"
  /\ IF avatar.status = "ready"
     THEN reads' = [reads EXCEPT ![r].at = "decode"] /\ UNCHANGED <<element, sounding>>
     ELSE Play(r)
  /\ UNCHANGED <<muted, avatar, rejecter>>

\* speak has the audio decoded: it is queued, or the player takes over. The
\* version is not looked at again.
Decoded(r) ==
  /\ reads[r].at = "decode"
  /\ \/ /\ avatar.status = "ready"
        /\ reads' = [reads EXCEPT ![r].at = "avatar"]
        /\ rejecter' = r
        /\ UNCHANGED <<element, sounding>>
     \/ Play(r) /\ UNCHANGED rejecter
  /\ UNCHANGED <<muted, avatar>>

\* A segment has been heard to its end.
SegmentEnds(r) ==
  /\ \/ reads[r].at = "avatar" /\ avatar.status = "ready"
     \/ reads[r].at = "player" /\ r \in sounding
  /\ reads' = IF reads[r].fresh /\ reads[r].left > 1
              THEN [reads EXCEPT ![r].at = "synth", ![r].left = @ - 1]
              ELSE Over(reads, r)
  /\ sounding' = sounding \ {r}
  /\ rejecter' = IF reads[r].at = "avatar" THEN 0 ELSE rejecter
  /\ UNCHANGED <<muted, avatar, element>>

SpeechStep(r) ==
  \/ Synthesised(r) \/ ReadingFails(r) \/ InitSettled(r) \/ Decoded(r) \/ SegmentEnds(r)

-----------------------------------------------------------------------------
(* The candidate's switches. *)

ToggleMute ==
  /\ muted' = ~muted
  /\ IF muted' THEN Interrupt ELSE UNCHANGED <<reads, element, sounding, rejecter>>
  /\ UNCHANGED avatar

\* Switching the avatar on for the first time initialises it.
ToggleAvatar ==
  /\ avatar' = [enabled |-> ~avatar.enabled,
                status |-> IF ~avatar.enabled /\ avatar.status = "idle"
                           THEN "loading" ELSE avatar.status]
  /\ IF avatar.enabled THEN Interrupt ELSE UNCHANGED <<reads, element, sounding, rejecter>>
  /\ UNCHANGED muted
=============================================================================
