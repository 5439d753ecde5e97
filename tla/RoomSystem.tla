----------------------------- MODULE RoomSystem -----------------------------
(***************************************************************************)
(* The room of InterviewRoom connected to the server: ws/handler.go reads    *)
(* the messages of a connection one after the other, and what               *)
(* InterviewSession does in many statements is one step here. Connections    *)
(* are cut at any moment in scenarios with "cut".                           *)
(***************************************************************************)
EXTENDS InterviewRoom

ServerAlone == UNCHANGED <<can, place, token, view, cur, retry, pending, answers,
                           voiceVars, speechVars, cameraVars>>

\* Messages written to a connection reach the page while its socket is open.
Put(i, ms) == [inbox EXCEPT ![i] = IF sock[i] = "open" THEN @ \o ms ELSE @]
\* Hub.Broadcast: to every registered connection.
Told(box, type) ==
  [i \in Sockets |-> IF wire[i] = "in" /\ sock[i] = "open"
                     THEN Append(box[i], Msg(type, 0)) ELSE box[i]]
\* The end is broadcast by the service; what it returns, "thinking", is written to the
\* connection that brought the end about after that.
EndTold(i, type) ==
  [Told(inbox, type) EXCEPT ![i] = IF sock[i] = "open" THEN Append(@, Msg("thinking", 0)) ELSE @]

\* Serve up to its read loop: BeginLive begins the session, repeats the pending
\* text, or refuses; after an error the server closes.
Accept(i) ==
  /\ wire[i] = "dialing" /\ sock[i] = "connecting"
  /\ sock' = [sock EXCEPT ![i] = "open"]
  /\ \/ /\ srv.phase # "completed"
        /\ srv' = [srv EXCEPT !.phase = "in_progress", !.text = IF @ = 0 THEN 1 ELSE @]
        /\ wire' = [wire EXCEPT ![i] = "in"]
        /\ inbox' = [inbox EXCEPT ![i] =
                       <<Msg("session_started", 0), Msg("question", srv'.text)>>]
     \/ /\ srv.phase = "completed" \/ "fault" \in can
        /\ wire' = [wire EXCEPT ![i] = "fin"]
        /\ inbox' = [inbox EXCEPT ![i] = <<Msg("error", 0)>>]
        /\ UNCHANGED srv
  /\ UNCHANGED <<outbox, lost, ending>> /\ ServerAlone

\* The page gave the socket up before the server answered.
Unanswered(i) ==
  /\ wire[i] = "dialing" /\ sock[i] # "connecting"
  /\ wire' = [wire EXCEPT ![i] = "none"]
  /\ UNCHANGED <<sock, inbox, outbox, lost, ending, srv>> /\ ServerAlone

\* The network, or the heartbeat's deadline, cuts a connection; what was sent to
\* the server is lost, what was sent to the page may still be there.
Cut(i) ==
  /\ "cut" \in can /\ wire[i] \in {"dialing", "in"}
  /\ wire' = [wire EXCEPT ![i] = IF sock[i] = "closed" THEN "none" ELSE "cut"]
  /\ \E kept \in {inbox[i], <<>>} : inbox' = [inbox EXCEPT ![i] = kept]
  /\ lost' = lost \cup {outbox[i][k].a.n : k \in {j \in DOMAIN outbox[i] :
                                                    outbox[i][j].type = "answer"}}
  /\ outbox' = [outbox EXCEPT ![i] = <<>>]
  /\ UNCHANGED <<sock, ending, srv>> /\ ServerAlone

\* HandleAnswer: recorded, then the next text or, after the last, the closing;
\* a failing model leaves the text pending.
Answered(i, a) ==
  IF srv.phase # "in_progress"
  THEN /\ lost' = lost \cup {a.n} /\ inbox' = Put(i, <<Msg("status", 0)>>)
       /\ UNCHANGED srv
  ELSE /\ UNCHANGED lost
       /\ \/ /\ srv.text < Texts
             /\ srv' = [srv EXCEPT !.text = @ + 1, !.log = Append(@, a)]
             /\ inbox' = Put(i, <<Msg("thinking", 0), Msg("question", srv.text + 1)>>)
          \/ /\ srv.text = Texts
             /\ srv' = [srv EXCEPT !.phase = "completed", !.log = Append(@, a)]
             /\ inbox' = EndTold(i, "closing")
          \/ /\ "fault" \in can
             /\ srv' = [srv EXCEPT !.log = Append(@, a)]
             /\ inbox' = Put(i, <<Msg("status", 0)>>)

Skipped(i) ==
  /\ IF srv.phase # "in_progress"
     THEN inbox' = Put(i, <<Msg("status", 0)>>) /\ UNCHANGED srv
     ELSE IF srv.text < Texts
     THEN /\ srv' = [srv EXCEPT !.text = @ + 1]
          /\ inbox' = Put(i, <<Msg("question", srv.text + 1)>>)
     ELSE /\ srv' = [srv EXCEPT !.phase = "completed"]
          /\ inbox' = EndTold(i, "done")
  /\ UNCHANGED lost

ServerReads(i) ==
  /\ wire[i] = "in" /\ outbox[i] # <<>>
  /\ outbox' = [outbox EXCEPT ![i] = Tail(@)]
  /\ LET m == Head(outbox[i]) IN
       \/ m.type = "answer" /\ Answered(i, m.a)
       \/ m.type = "skip" /\ Skipped(i)
  /\ UNCHANGED <<sock, wire, ending>> /\ ServerAlone

\* The HTTP request that ends the interview is carried out, waited for or not.
ServerEnds ==
  /\ ending.call \in {"sent", "late"}
  /\ \/ /\ srv.phase = "in_progress"
        /\ srv' = [srv EXCEPT !.phase = "completed"]
        /\ inbox' = Told(inbox, "done")
        /\ ending' = [ending EXCEPT !.call = IF @ = "sent" THEN "ok" ELSE "none"]
     \/ /\ srv.phase # "in_progress"
        /\ ending' = [ending EXCEPT !.call = IF @ = "sent" THEN "refused" ELSE "none"]
        /\ UNCHANGED <<srv, inbox>>
  /\ UNCHANGED <<sock, wire, outbox, lost>> /\ ServerAlone

-----------------------------------------------------------------------------
Speaking(r) ==
  /\ SpeechStep(r)
  /\ UNCHANGED <<can, place, token, view, lineVars, voiceVars, ending, srv, cameraVars>>
AvatarLoads ==
  /\ AvatarInit
  /\ UNCHANGED <<can, place, token, view, lineVars, voiceVars, ending, srv, cameraVars>>
Watching ==
  /\ CameraStep \/ CameraFrame \/ DetectFails
  /\ UNCHANGED <<can, place, token, view, lineVars, voiceVars, ending, srv, speechVars>>

OnMessage(i) ==
  \/ OnSessionStarted(i) \/ OnQuestion(i) \/ OnStatus(i) \/ OnError(i) \/ OnDone(i) \/ OnClosing(i)

Candidate ==
  \/ GoBack \/ LoggedOut \/ TokenRemoved \/ Reconnect
  \/ StartRecording \/ StopRecording \/ RetryAsr \/ DiscardAudio
  \/ SkipQuestion \/ TogglePause \/ Replay \/ Switch \/ ForceEnd

Browser ==
  \/ Load \/ RetryTimer \/ MicReady \/ Recognised \/ RetryRecognised \/ EndReturns \/ EndFails
  \/ AvatarLoads
  \/ \E i \in Sockets : SocketClosed(i) \/ OnMessage(i)
  \/ \E r \in Readings : Speaking(r) \/ AfterClosing(r)

Server ==
  \/ \E i \in Sockets : Accept(i) \/ Unanswered(i) \/ HangUp(i) \/ ServerReads(i)
  \/ ServerEnds

Next ==
  \/ Candidate \/ Browser \/ Server \/ Watching
  \/ LoadFails \/ MicDenied
  \/ \E i \in Sockets : Cut(i)

Spec == Init /\ [][Next]_vars

(* The browser's loop and the server go on; each part on its own, so that none *)
(* is kept waiting by another.                                                 *)
Runs ==
  /\ WF_vars(Load) /\ WF_vars(RetryTimer) /\ WF_vars(ServerEnds)
  /\ WF_vars(EndReturns \/ EndFails) /\ WF_vars(AvatarLoads)
  /\ \A i \in Sockets : /\ WF_vars(SocketClosed(i)) /\ WF_vars(OnMessage(i))
                        /\ WF_vars(Accept(i)) /\ WF_vars(Unanswered(i))
                        /\ WF_vars(HangUp(i)) /\ WF_vars(ServerReads(i))
  /\ \A r \in Readings : WF_vars(Speaking(r)) /\ WF_vars(AfterClosing(r))
FairSpec == Spec /\ Runs

-----------------------------------------------------------------------------
(* Properties. *)

\* connectWithRetry and onClose: the page never has two sockets of which both
\* may deliver messages, and no attempt is scheduled while one is alive.
OneSocket ==
  /\ Cardinality({i \in Sockets : sock[i] \in {"connecting", "open"}}) <= 1
  /\ retry.timer => place = "room" /\ (cur = 0 \/ sock[cur] = "closed")

\* The answers in a sequence of them, on the way to the server, and anywhere.
Numbers(as) == {as[k].n : k \in DOMAIN as}
IsAnswer(i, k) == k \in DOMAIN outbox[i] /\ outbox[i][k].type = "answer"
OnTheWay(i) == {outbox[i][k].a.n : k \in {j \in DOMAIN outbox[i] : IsAnswer(i, j)}}
Distinct(as) == \A j, k \in DOMAIN as : as[j].n = as[k].n => j = k

\* submitAnswer and the queue of kept answers: no answer is on its way, kept or
\* recorded twice, whatever is cut and reconnected.
AnsweredOnce ==
  /\ Distinct(srv.log) /\ Distinct(pending)
  /\ Numbers(srv.log) \cap Numbers(pending) = {}
  /\ \A i \in Sockets :
       /\ \A j, k \in DOMAIN outbox[i] :
            IsAnswer(i, j) /\ IsAnswer(i, k) /\ outbox[i][j].a.n = outbox[i][k].a.n => j = k
       /\ OnTheWay(i) \cap (Numbers(srv.log) \cup Numbers(pending)) = {}
       /\ \A j \in Sockets \ {i} : OnTheWay(i) \cap OnTheWay(j) = {}

\* The page drops no answer of its own accord: each is recorded, kept, on its
\* way, or went down with a connection or with the page.
NothingDropped ==
  1..answers = lost \cup Numbers(srv.log) \cup Numbers(pending) \cup UNION {OnTheWay(i) : i \in Sockets}

\* handleMessage against BeginLive and HandleAnswer: when a connection is in the
\* room and nothing is on the way, the page shows the text the server waits on.
ShowsPending ==
  \A i \in Sockets :
    place = "room" /\ i = cur /\ sock[i] = "open" /\ wire[i] = "in"
      /\ inbox[i] = <<>> /\ outbox[i] = <<>> /\ srv.phase = "in_progress"
    => view.current = srv.text

\* speechVersionRef: once muted, paused or left, no call of playQuestion believes
\* that it is the current one; only closing words are read in a paused room.
QuietMeansStale ==
  muted \/ (view.paused /\ ~view.done) \/ place \notin {"loading", "room"} =>
    \A r \in Readings : ~reads[r].fresh

\* useBehaviorAnalysis: when the interview is over or left, no camera is on once
\* start has run out, except one whose playback failed; and its observations are
\* sent at most once.
CameraReleased ==
  /\ (place \notin {"loading", "room"} \/ view.done) /\ camera.at \in {"none", "over"} =>
       camera.tracks # "live"
  /\ saving <= 1

\* voiceActiveRef: the page never opens a second microphone over a first one, as
\* long as no end is requested in between.
OneMicrophone ==
  "end" \notin can =>
    /\ ~mic.leaked
    /\ mic.asking + (IF mic.held THEN 1 ELSE 0) <= 1
    /\ place = "room" /\ mic.held => mic.active

\* An interview that is over is noticed through any number of cut connections:
\* the page moves on, says that it is disconnected or cannot go in, or waits for
\* closing words the candidate has silenced.
EndNoticed ==
  srv.phase = "completed" ~> \/ place # "room" \/ view.disconnected \/ view.error
                             \/ \E r \in Readings : reads[r].at = "hung"

\* "播完（或静音）后进入报告页": after the closing words, or muting them, the page
\* goes to the report (InterviewRoomPage.tsx:383).
ClosingLeads == view.done ~> place # "room"
=============================================================================
