# A TLA+ model of Interview-Assistant

Interview-Assistant lets a candidate practise job interviews: a Go backend
(`src/backend`) keeps interview sessions in MySQL and their live state in Redis,
asks a language model for questions, decisions and scores, and talks to a React
client (`src/frontend`) over HTTP and WebSocket. This directory models it in
three parts that meet at named interfaces:

- the **session** on the server, statement by statement
  (`InterviewSession` with `DecideRules`, `SessionLifecycle`, `InterviewDialogue`);
- the **room**, the page of a running interview with its sockets, voice and
  camera, against the session as a connection sees it
  (`InterviewRoom`, `Speech`, `CameraAnalysis`, composed in `RoomSystem`);
- the **pages** around it, with routing, login and requests that are answered in
  any order (`PrepPage`, `ImportDialog`, `ManagePanels`, `ReportPage`,
  `SessionPages`, `PageServer`, composed in `Pages`).

1. [Inventory](#1-inventory)
2. [Plan](#2-plan)
3. [Modules and the code](#3-modules-and-the-code)
4. [What the runs check](#4-what-the-runs-check)
5. [Bounds](#5-bounds)
6. [Fairness](#6-fairness)
7. [What is proved](#7-what-is-proved)
8. [Where code and documents differ](#8-where-code-and-documents-differ)
9. [What is left out](#9-what-is-left-out)

## 1. Inventory

Paths are relative to `src/backend/internal` (backend) and `src/frontend/src`
(client).

| component | state | operations | status |
|---|---|---|---|
| **interview session** `interview/service.go`, `repo.go`, `sessionredis/store.go` | MySQL: the session row (status, started_at, feedback), its questions, its turns; Redis: the live state (question index, follow-ups, turn counter, pending text), 48 h TTL | Create, CreateFromBank, Start, BeginLive, HandleAnswer, SkipQuestion, ForceEnd, Delete, Finish | modelled but for the arrangement of questions |
| **decision rules** `interview/decide.go`, `limits.go` | none | ApplyDecideRules | modelled |
| **room, server side** `ws/handler.go`, `ws/hub.go` | per session the registered connections; per connection a read loop | Serve, Register, Unregister, BroadcastDone, BroadcastClosing | modelled, a failed write is a cut |
| **evaluation** `analysis/service.go` | feedback and evaluation error of the session row | Evaluate, Retry, GetReport | modelled, scores abstract |
| **room page** `pages/InterviewRoomPage.tsx`, `ws/interviewSocket.ts` | socket, retry timer and attempt, queued answers, flags (done, fatal, disconnected, thinking, paused), phase of the voice button | connect, reconnect with back-off, send, receive, record, pause, skip, replay, end, leave | modelled |
| **voice** `lib/voicePlayer.ts`, `lib/voiceRecorder.ts`, `lib/avatar/avatarController.ts` | the `<audio>` element held, the avatar's queue, a version number that outdates readings, the recorder | playQuestion, stop, mute, avatar on and off, record, recognise | modelled |
| **behavior analysis** `behavior/useBehaviorAnalysis.ts`, `cameraFeed.ts` | camera stream, model, aggregate | start over four awaits, frame, stop, unmount, save once | modelled |
| **preparation page** `pages/CreateInterviewPage.tsx` | the material (job, job description, resume, bank questions, project), a dialog, a dozen waiting flags | read a file, choose, search the cloud, import, reset, create and start | modelled |
| **import dialog** `components/QuestionImportModal.tsx` | step, questions of the preview, waiting flags | parse text, file, image or cloud document; confirm | modelled |
| **management pages** `pages/ManagePage.tsx` | copies of three lists, selections, dialogs | add, edit, delete, rename, upload | modelled but for filters and preview |
| **report page** `pages/ReportPage.tsx` | feedback, timer, number of polls | load, poll 10 s x 30, retry | modelled but for extras the style sheet hides |
| **session list, detail, start, login pages** | rows, a session, the mode of the login forms | open, start, store questions, log in | modelled |
| **shell** `App.tsx`, `auth/AuthContext.tsx`, `auth/ProtectedRoute.tsx`, `api/client.ts` | route, token, user | navigate, redirect, forget the login on 401, give up after 20 s | modelled |
| question bank, resume library, job info, authentication (server) | rows of a user | one statement or a check and a statement each | single steps of `PageServer` and `Pages` |
| WPS authorization `wpsoauth/` | one-time states and codes in Redis, tokens in MySQL, a refresh mutex | authorize, callback, exchange, TokenForUser | only the login it ends in |
| recalc command, trends and user dialog, behavior store, model and speech clients, upload, OCR, WPS files, precheck, project, profile, analytics, configuration | none, or one row written by one statement | one call each | not modelled (section 9) |

**How they interact.** On the server every WebSocket connection and every HTTP
request has a goroutine of its own; they share the rows in MySQL, the live
state in Redis and the hub's map, and no lock or transaction spans a handler.
`Finish` calls the evaluator and the hub. In the browser one page is mounted at
a time; everything runs in one thread, and what interleaves are callbacks:
socket events, timers, resumed awaits, presses. A handler that awaits keeps
running after its page is gone. The pages share the token and the user in
`localStorage` and React's context. The room talks to the server by messages
(`answer`, `skip` out; `session_started`, `question`, `thinking`, `status`,
`closing`, `done`, `error` in) and one request, the forced end.

**What is hard.** On the server:

- A handler reads the live state, waits for the language model for up to
  minutes, and writes its copy back; of two tabs, the last writer wins.
- Each turn is three writes to two stores that fail one by one, and the process
  may die in between. `AppendTurn` computes the next number in one statement
  and inserts in another.
- `Start` checks the status, waits for the model, and replaces the questions
  without checking again. Several handlers may finish one session.
- A connection may be between registration and its read loop when the end of
  the session is broadcast. The model's answers are untrusted.

In the browser:

- A connection can go while answers are queued, on the way, or being
  recognised; sockets that were replaced still deliver their close event.
- A text is read over three kinds of awaits, by two players, and may be muted,
  paused, replaced or left at each; stopping a player settles its promise or
  does not. The microphone and the camera are granted late, when nobody may
  want them any more.
- Answers to requests come out of order, after a time-out whose request is still
  carried out, after a reset or another page, or with a 401 that forgets a login
  made meanwhile.

**What makes it correct.** The session follows its lifecycle; the opening is
asked once; the turn counter, on which the limits depend, agrees with the
transcript or lags behind; the conversation has the designed shape and ends; the
end is told to everyone and leads to a score or an error. In the room one socket
delivers, no answer is recorded twice or dropped, the page shows what the server
waits for, silence stays silent, devices are given back, and an end is noticed.
Around it, no page waits for nothing, none is shown without the login it needs,
a session is created once and entered when it is ready, and a change to the bank
is read back only when all of it was made.

`PROJECT.json` lists the hazards one by one with their lines and properties.

## 2. Plan

What was built, in order of importance:

1. `DecideRules`, `InterviewSession` with its room and evaluation, and two
   abstract specifications: `SessionLifecycle` (status and score) and
   `InterviewDialogue` (the conversation the transcript shows).
2. Its runs with two tabs, crashes, a patient candidate and two starts, and the
   documented promises the code does not keep; its proofs
   (`InterviewSessionProofs`, `OneStartProofs`, `OneTabProofs`).
3. `Speech`, `CameraAnalysis`, `InterviewRoom` and their composition with the
   server's side, `RoomSystem`; proofs `RoomProofs`, `VoiceProofs`,
   `AnswerProofs`.
4. The pages, each as functions from its state to an effect, and their
   composition `Pages`; proofs `PageHandlerProofs`, `PagesProofs`.

What would add most from here:

- `WpsTokens`: one-time state and code, rotation of refresh tokens under the
  mutex with the callback outside it.
- The statements of an import of questions and of a resume upload, for two tabs.
- `buildQuestionItems` against a reference definition.

## 3. Modules and the code

### The session

**`DecideRules`** is `ApplyDecideRules` with its limits. Elapsed time is reduced
to one bit (`late`: the 60 minutes are over), and the model's proposal is one of
its three legal actions, `""` for a failed call, or `"other"` for any other
string: the code unmarshals the answer into a plain string and passes on what
it does not know.

**`InterviewSession`** is one session. Its variables are the stores
(`status`, `questions`, `turns`, `feedback`, `failed`; `live`), the room
(`joined`, `told`), and for every worker, that is a connection or an HTTP caller,
what a goroutine has: the next statement `pc`, the request `op`, and its local
copies (`mine` of the live state, `kinds` of the question list, the `turn` it
appends and the `seq` it computed, the `result` of its evaluation).

A request is accepted by one action (`BeginLive`, `HandleAnswer`,
`SkipQuestion`, `Start`, `ForceEnd`, `Delete`, `Retry`), which contains the
handler's first read. Each later SQL statement, Redis command or model
call is an action:

| statement | action | next |
|---|---|---|
| `ListQuestions` in `loadOwnedSession` | `ListQuestions` | `BeginSession`, `ReconnectLive` or `GetState` |
| `UPDATE ... WHERE status = 'ready'` | `BeginSession` | opening, or `Reread` for the loser |
| `GetByID` after a lost race | `Reread` | `ReconnectLive` or refused |
| `store.Get` in `reconnectLive` | `ReconnectLive` | into the read loop, or refused |
| `store.Get` in HandleAnswer / SkipQuestion | `GetState` | answer turn; next question; finish |
| `decideNext` | `Decide` | follow-up, next question, closing, or error |
| `GetQuestionByIndex` | `PickQuestion` | `MarkQuestionAsked` |
| `MarkQuestionAsked` | `MarkQuestionAsked` | `AppendTurn` |
| `SELECT MAX(seq)` / `INSERT` of `AppendTurn` | `ReadMaxSeq` / `InsertTurn` | by kind of turn |
| `store.Save` | `SaveState` | handler returns |
| `CompleteSession`, `store.Delete` | `CompleteSession`, `ClearState` | `HasFeedback` |
| `HasFeedback`, `Evaluate`, `SaveEvaluation...` | `HasFeedback`, `Evaluate`, `SaveEvaluation` | `Broadcast`, or return for a retry |
| `BroadcastDone`, `BroadcastClosing` | `Broadcast` | handler returns |
| `StartSession` (one transaction) | `StartSession` | handler returns |

Around them: `Disconnect` (client gone, or the heartbeat's read deadline),
`Fail` (a statement fails or the process dies, and the handler's memory is
gone), `TimePasses` and `ExpireState` (the Redis TTL).

Abstractions, all of data: texts are their question's number; a score is the
number of turns it was computed from; a request that is refused at its first
check changes nothing and is no step. The owner check is assumed to succeed, as
all requests are the owner's. `store.Get` in `ForceEnd` has no effect on what
follows, and `GetByID` with the checks after it is one step with the acceptance
of the request. The unique key `(session_id, seq)` and the cascades are those
of the database schema. Creation is its result: `Init` is a draft without
questions or a ready session with its questions.

**`SessionLifecycle`** and **`InterviewDialogue`** are the promises: see their
headers. `InterviewSession` maps its status and feedback to the first, and its
transcript (number of main questions, follow-ups since the last one, last turn)
to the second. **`MCInterviewSession`** fixes the workers and what callers may
issue.

### The room

As scripts run to completion, each callback, timer or resumed await is one
action of **`InterviewRoom`**. Its variables are the page's refs and those of its
states that guard something:

| variable | code |
|---|---|
| `place`, `token` | which page is shown; the token in `localStorage` |
| `view` | `doneRef`, `fatalErrorRef`, `disconnected`, `error`, `thinking`, `pausedRef`, the current question, `voicePhase` |
| `cur`, `sock`, `wire`, `inbox`, `outbox` | `socketRef`; each WebSocket's `readyState`, what has become of its connection, and messages on the way |
| `retry`, `pending` | `retryTimerRef` and `attemptRef`; `pendingAnswersRef` |
| `mic`, `asr` | recorders asked for, held (`voiceRecorderRef`) and running unheld, `voiceActiveRef`, `voiceCancelRef`; recognitions under way and the audio kept for another try |
| `ending` | `handleForceEnd`'s request: sent, given up after 20 s but still carried out, answered |
| `srv` | the session as a connection sees it: phase, pending text, answers recorded |
| `answers`, `lost` | what was answered, and which answers went down with a connection (history variables) |

`onClose`, `session_started`, `question`/`follow_up`, `thinking`, `status`,
`error`, `done` and `closing` are actions of their own (`SocketClosed`,
`OnSessionStarted`, `OnQuestion`, `OnStatus`, `OnError`, `OnDone`, `OnClosing`);
so are the buttons (`StartRecording`, `StopRecording`, `RetryAsr`, `SkipQuestion`,
`TogglePause`, `Replay`, `Switch`, `ForceEnd`, `Reconnect`) and every await that
resumes (`Load`, `MicReady`, `Recognised`, `EndReturns`, `AfterClosing`).
`Leave` is the clean-up of the page's effect, which is part of each action that
leaves.

**`Speech`** is `playQuestion`: a reading is one call of it, suspended at one of
its awaits. Stopping an `<audio>` element leaves the call that waits for it
`"hung"`; stopping the avatar lets the call behind `pendingReject` return and
leaves others hung. **`CameraAnalysis`** is the hook: where `start` is suspended,
whether the stream is held, and what has become of its tracks.

**`RoomSystem`** adds the server's read loop and the network: `Accept` (the whole
of `BeginLive`), `ServerReads` (the whole of `HandleAnswer` or `SkipQuestion`),
`ServerEnds`, `Cut`. It relies on what `InterviewSession` shows: a reconnect
repeats the pending text, an answer is recorded before the next text is sent, and
the end is told to every connection in the room, after which the connection that brought
it about is told `thinking` (`EndTold`). **`MCRoom`** names the scenarios.

### The pages

**`PageEffects`** is the form in which a handler is written: what one run of
JavaScript, up to its next await, does to its page, which requests it sends and
where it navigates. A page's module gives its state (`PrepOpened`, ...), what can be
pressed (`PrepPresses`), what an answer does (`PrepAnswer`), and which request ends
which wait (`PrepWaits`). A second half of an async function is in the answer of
the request it awaits; what its closure has kept is in the request (`to`, `from`,
`known`).

| module | code |
|---|---|
| `ImportDialog` | `QuestionImportModal.tsx` |
| `PrepPage` | `CreateInterviewPage.tsx`; "text" and "url" are the resume's text and its archive's address, by file |
| `ManagePanels` | the three panels of `ManagePage.tsx` |
| `ReportPage` | `ReportPage.tsx`: load, timer, poll, give up, retry |
| `SessionPages` | `HubPage`, `InterviewListPage`, `InterviewDetailPage`, `LoginPage` |
| `PageServer` | the server's handlers for questions, resumes, jobs, sessions and reports as outcomes |

**`Pages`** composes them: `Press` is any button of the page on the screen,
`Navigate` the bar at its top, `Serve` the server carrying a request out, `Deliver`
its answer, `TimesOut` the 20 seconds of `fetchJSON`, after which a write may still be
carried out, `PollTick` the report's timer, `Expire` the end of a token.
`Becomes` renders: it applies `ProtectedRoute` and the redirects, mounts the page of a
new route with its requests, and disowns those of the page that is gone, whose
handlers still send and navigate. `Denied` is the 401 in `fetchJSON`, which forgets
whatever login there is. **`MCPages`** lists the scenarios.

## 4. What the runs check

| run | instance | properties |
|---|---|---|
| `TwoTabs` | two connections, a caller that starts, ends and deletes | `TypeOK`, `TurnCountNeverAhead`, `PendingWasRecorded`, `AskedUpToCurrent`, `DecideNeverPanics`, `FirstQuestionOnce`, `ImplementsLifecycle` |
| `Crashes` | one connection and one caller, each statement may be the last, live state expires, retries of the report | the same but for `TypeOK`, `DecideNeverPanics` |
| `OneTab` | one connection, a caller with every request, a model within its contract | `LiveMatchesTranscript`, `TranscriptBounded`, `ImplementsDialogue`; liveness: `InterviewEnds`, `EndedIsEvaluated` |
| `TwoStarts` | two callers that start, one that ends | `TurnCountNeverAhead`, `PendingWasRecorded`; liveness: `EveryoneIsTold` |
| `Room` | the room page in seven scenarios | `TypeOK`, `OneSocket`, `AnsweredOnce`, `NothingDropped`, `ShowsPending`, `QuietMeansStale`, `CameraReleased`, `OneMicrophone`; liveness: `EndNoticed` |
| `Pages` | all other pages in 25 scenarios | `PagesTypeOK`, `RoomIsReady`, `ProtectedNeedsLogin`, `NeverStuck`, `NothingHangs`, `OneStart`, `FreshList`; liveness: `ReportSettles` |
| `StartRace`, `FollowUpRace`, `LostPending`, `OrphanState`, `OffContract`, `SilencedClosing` | small instances | one documented promise each, violated (section 8) |

What they show of the session:

- *Concurrent handlers do not corrupt the stores' agreement.* The unique key
  makes a lost `AppendTurn` race an error of one handler before it counts its
  turn, so the counter only lags; and as `Save` comes last, no reconnect shows a
  text the transcript does not have. This holds even with two starts.
- *One starter is enough for the rest.* The compare-and-set in `BeginSession`
  picks one opener, and no list of questions changes after it, so an index
  read later still fits the list read earlier (`DecideNeverPanics`). With two
  starts it does not: in `TwoStarts` the panicking branch of `Decide` is
  reached, and the properties that need one starter are not checked there.
- *With one tab the live state is exact* (`LiveMatchesTranscript`), the limits
  work, and the conversation is the designed one. The bound is
  `MaxTurns + 2 + questions`: the answer that reaches the limit and the closing
  come on top of it, and skipping counts turns but never tests the limit.
- *The end is told to everyone* although the broadcast and an entering
  connection race, because `Serve` registers before `BeginLive`.

Of the room:

- *Reconnecting is orderly.* However connections are cut and refused, one socket
  may deliver at a time, because an attempt starts only from a closed one; the
  close event of a socket the page itself replaced finds nothing to retry.
- *Answers.* None is sent twice, kept twice or dropped by the page; what is lost
  went down with a connection or with the page. And whenever a connection is in the
  room and nothing is on its way, the page shows the text the server waits for,
  after pauses, skips, lost messages and repeated questions.
- *Silence.* Once muted, paused or left, no reading goes on to its next
  segment, at whatever await it was. Only the closing words are read in a paused
  room.
- *Devices.* The camera is off when the interview is over or left, at
  whichever of its awaits the start was; the exception is a stream whose playback
  failed. No second microphone is opened over a first, unless the interview is
  ended by force while a permission is pending.
- *The end is noticed*, or the page says that it is disconnected, or that it cannot go
  in, or it waits for silenced closing words (section 8).

Of the pages:

- *No wait without its request*: each of some thirty waiting flags belongs to a
  request under way that will clear it, through time-outs, refusals, resets, closed
  dialogs and changes of page.
- *Login.* A late 401 may forget a newer login, but never leaves a page that needs
  one on the screen.
- *Starting.* Buttons pressed again do not create or start a second session,
  and the room is entered only for a session with questions.
- *Lists.* For a candidate who stays and is answered in time, a change to the bank is
  read back only after all of it was made: the answer to the reading that was asked for
  last shows the bank as it is, if no answer to a reading came since it was asked for, no
  change is under way and nothing failed; earlier readings may still be on their
  way. What one of them shows when it comes after that is not claimed, and may be an
  older list (section 9).
- *Reports.* For a candidate who stays, a report that is there comes to be seen.

The passing runs set `CHECK_DEADLOCK FALSE`: a deleted session, an interview that
is over and left, or a page with nothing under way and no moves left, rightly stops.

## 5. Bounds

The session:

- `MaxRows`: no new message once the transcript has that many turns (handlers
  already running may exceed it). Two tabs with `MaxRows = 4` reach the opening, both
  orders of two concurrent answers, a follow-up or the next question, and
  the closing. `OneTab` uses 14, above the bound the property claims (8 + 2 + 3),
  so there the limits of the code and not the bound stop the interview.
- `QuestionCounts`: one or two questions after the opening instead of 5 to 8:
  first, middle and last question are what the rules tell apart.
- `MaxTurns` 5, 6 or 8 instead of 30 and `PersonaLimit` 1 or 2 (the code has 1, 2
  and 4). In `OneTab` both limits are reached: 8 turns are enough for two
  follow-ups on one question before the limit of turns, and too few for all of
  them on every question. The violation runs set `MaxTurns` out of reach where the
  limit is not the point.
- Two connections suffice for every race over one row, as handlers
  share only the stores; a caller adds a third actor.
- Symmetry of the two connections is used only in runs without liveness.

The room:

- `Sockets` two: the one in use and one that was replaced; a name is used again when
  its socket is closed and its connection gone.
- `Retries` 1 instead of 5: the first, a later and the last attempt are what `onClose`
  tells apart, and session_started sets the count back.
- `Texts` 2, `MaxAnswers` 2: an answer may be kept, on the way and recorded while
  another is spoken, and the last text leads to the closing.
- `Readings` 2, `MaxSegments` 2: a reading and one that outdates it, each with a next
  segment; `EnoughFrames` 2: too few, enough.
- `InFlight` 2 bounds messages under way when skip is pressed again; replay is not
  pressed while a message waits, so that a message always finds a free reading.
- A scenario is a set of things that may happen; together the seven pair each part
  with those it shares state with: cuts with answers and skips, the forced end with
  answers and pauses, the sounds with switches, avatar, skips and pauses, closing words with
  leaving, the camera with every way out. `SilencedClosing` uses one of its own.

The pages:

- Two each of questions, banks, files, jobs and sessions, and a limit of two
  resumes instead of five: one that is changed and one that is not, a list that is
  full.
- `Polls` 2 instead of 30: a poll before the last and the last.
- `InFlight` 2: requests a press may add to (effects of a page add theirs regardless),
  enough for every pair of answers out of order. `Moves` 3, `MaxLogins` 2: away, back
  and away again, and one login over another.
- A scenario is a page to start on, what is stored, and the parts of the application
  used; `"fault"` lets requests fail and `"slow"` time out.

## 6. Fairness

`HandlersRun` (session) is weak fairness of each worker's current statement: once a
request is accepted its goroutine runs on. The code justifies it: nothing waits
for another handler, SQL and Redis calls return or fail, a model call has a
client timeout (90 s, at most two attempts) and an evaluation a deadline of two
minutes (`evaluationTimeout`). Accepting a request is never fair in itself.

`Patient` adds an assumption on the candidate, not on the code: a connection
that can enter the room eventually does, and one that can answer again
and again eventually answers. `InterviewEnds` is about such a candidate.
Liveness runs of the session have no unreliable worker: after a crash between
`CompleteSession` and the stored score nothing evaluates the session by itself.

`Runs` (room) is weak fairness of each kind of event on its own: the browser
delivers close events and messages, runs its timers, resumes its awaits (the
forced end's request by the 20 s limit), and the server accepts, reads and hangs
up. The candidate is not fair, and neither are cuts, denials and the microphone.

`Fairness` (pages) is weak fairness of the oldest request, which is served and
answered (`fetchJSON` has its time limit, and the server's handlers theirs), and of
the report's timer.

## 7. What is proved

`tlapm` checks every proof to the last leaf, for all values of the constants,
from the named assumptions of the modules (`SessionAssumption`,
`NoLiveAssumption`, `DecideAssumption`; `RoomAssumption`, `SpeechAssumption`,
`CameraAssumption`; `PagesAssumption`, `ScenarioAssumption`), which TLC evaluates in the runs.

`InterviewSessionProofs`, without further hypothesis:

- `TypeCorrect`: `TypeOK` is invariant. It is not inductive: that `Save` writes
  a complete live state depends on the handler holding one. `TypeInv` adds
  `Handlers`: what each phase of each request may hold (`HandlerOK`).
- `TurnCountCorrect`, `PendingCorrect`: the two agreements between Redis and
  MySQL. Their strengthening `Agreement` extends both to the copies in flight:
  a handler that is going to save has a counter no larger than the transcript,
  and at the `Save` its pending text is recorded. It survives other
  handlers because transcripts only grow (`AgreementKept`), and a deletion
  because all of it is conditional on the row existing.

`OneStartProofs`, assuming that at most one caller may start the session
(`OneStarter`; `StartRace` shows why):

- `LifecycleImplemented`: the refinement of `SessionLifecycle`. Its invariant is
  `Course`: before the session begins no worker is past its early phases, a
  worker that generates questions sees a draft (or nothing), one that is
  finishing sees a completed session (or nothing), so an unconditional UPDATE
  never moves the status backwards.
- `FirstQuestionCorrect`: the opening is asked at most once. `OpeningOK` says
  that at most one handler holds the right to ask it and that while one does,
  the transcript does not have it; `Numbered` ties the text of a turn in flight to
  the copy of the live state, so that no other handler appends question 1.
- `AskedCorrect`, `DecideSafe`: the current question exists, it and all before
  it are flagged, and `decideNext` indexes within the list loaded before. The
  invariant `Asked` says the same of every copy of the live state in flight and
  of the question a handler is recording, and that a list loaded just before
  `store.Get` is as long as the session's. Flags are only ever set
  (`ThroughKept`), and by `Course` no list is replaced once the session began.

`OneTabProofs`, assuming in addition (`OneTab`) that there is one connection, that its
statements succeed and its process lives, that the model keeps to the three actions of
its contract, and that some question list is the longest. All other callers may start,
end, delete and retry at any moment, and their handlers may fail anywhere; the TTL may
expire. `TwoTabs`, `FollowUpRace`, `LostPending` and `OffContract` show what
happens without each:

- `LiveStateCorrect`, `TranscriptCorrect`. `LiveMatchesTranscript` speaks of the
  moments between two messages; `TabInv` says at each statement of the connection's
  handler what the transcript ends with and what the handler's copy counts: it still
  matches while an answer is about to be recorded, counts one turn less once it is, and
  what is going to be saved matches again (`TabOK`). A transcript at rest is within the
  limit plus one turn per main question, since a skip is not checked against it
  (`Within`); `ListOK` keeps the self-introduction first in the list, which is what
  makes a second main question the first one that may be followed up. How many turns
  of each kind there are after an append is a lemma each (`MainsAppend` and those after it).
- `DialogueImplemented`: the refinement of `InterviewDialogue`. Under `TabInv` every
  `InsertTurn` is an `Ask`, `Answer`, `FollowUp` or `Close` of the abstract dialogue,
  a deletion is its `Remove`, and every other step, those of other callers included,
  stutters.

The room, in any scenario and for any number of sockets, retries, texts, answers,
readings and segments:

- `SingleSocket` (`RoomProofs`). `OneSocket` is kept because a connection is only
  opened over a closed one. `LineInv` says so: while the page is there every
  other socket is closed, a set timer and the disconnected state (unless an
  error is fatal) imply that the current one is.
- `CameraGoesOff` (`RoomProofs`). `CameraInv` says who holds the stream at each
  await (`HandedOver`), that only a page with an interview under way watches and has
  not sent what it saw (`RunsInside`), and that nothing is read while the page
  loads, so that the late handler of a closing never finds a page that is still
  to become one.
- `SingleMicrophone` (`VoiceProofs`). It counts: while the page is there
  and no end is requested, recorders asked for, held or being recognised are one
  exactly if `voiceActiveRef` is set (`OneRecording`).
- `QuietStaysQuiet` (`VoiceProofs`). `SpeechInv` adds the types of the readings to
  the property; every step either makes no reading current that was not
  (`NoFresher`) or starts one where the room is loud.

- `RoomTypes` (`AnswerProofs`). `TypeOK` bounds the answers, which are numbered when they
  are recognised; so `Spoken` counts also what is still being recorded, recognised or
  asked permission for, at most one of which `OneRecording` allows.
- `EachAnswerOnce`, `NoAnswerDropped`. `Accounted` follows an answer from place to place:
  no number is twice in the server's log, the page's queue and the outboxes of all
  connections, and together with `lost` they make up `1..answers`. `FlushTo` moves the queue to a connection just
  opened, whose outbox must then be empty, so the invariant also says that a connection
  that is not in the room has nothing in it.
- `PageShowsPending`. `Shows` says for each connection which message of its inbox will
  bring the page up to date: the last one that carries a text is the server's pending
  text, and if there is none the page has it already. `LineInv` is needed because the page
  reads only from the connection it uses.

The pages (`PagesProofs`), for any number of sessions, questions, files, jobs, banks,
logins and moves, in any scenario: one starts on a page there is, on that of a session only
with an id that can be stored, and in the room only if that session has its questions
(`ScenarioAssumption`). There is at least one login and one bank, and the empty keyword is a
keyword (`PagesAssumption`): the code opens its dialogs with it, logs in, and imports into a
bank.

- `PagesNeedLogin`. Every step that renders goes through `Landing`, and one that does
  not keeps both halves of the login. `Guarded` adds that the login is a pair and that
  finitely many tokens are alive, so that the next one is not 0.
- The others go through every handler of every page, some hundred. `PageHandlerProofs`
  sorts these once: a handler is `Tame` if it keeps the fields that say what the page is
  about and whether it starts an interview, leads neither to a page of a session nor to
  the question bank, and sends nothing that creates, starts or reads one. All are tame but those that `PressEffects`
  and `HandledEffects` name.
- `ReportNeverStuck`. `PageInv` says that the page shown is the one of the route, that it
  has the fields of its kind, and that a report page is `Settled`; that an answer may be
  for a page that is gone, or come back to the same route opened anew, is where the
  first part is needed.
- `OneStartAtOnce`. `OneInv`: at most one request under way is the page's and creates or
  starts a session, and while there is one the page is `Busy`. A button that sends one
  is disabled on a busy page, and the answer to `createInterview` that sends
  `startInterview` takes the former's place.
- `RoomEnteredReady`. `RoomInv` says that every request about a session is about one there
  is, that an answer on its way (`Truthful`) and the status a page shows (`PageReady`) say
  no more of a session than is so, and that the room's session has its questions. It
  survives whatever the server does because a session never loses its questions
  (`Grown`), and pages that come and go because their requests keep the route they were
  sent from.

- `NothingEverHangs`, `PagesTyped`. `NothingHangs` is not inductive, because the question
  bank reads its list again for three ends and clears, when it comes, only the flag of the
  change it was asked for: a list for one change must not be the only thing that stands
  for the wait for another. `HangInv` therefore tells requests apart by what they were sent
  for (`Tag`) and asks for a request of this tag for every flag (`Sharp`). A handler is shown
  to keep its page's type and to be `Turned`: each wait of the page it leaves is a wait of
  before that the answer does not end, or is ended by the request it sends. An answer
  then takes away one request and only waits that its own handler clears; a time-out takes
  the request from the page and tells the page so in the same step; and a page that is opened
  anew asks for all it waits for. The types are needed in the same invariant: what an answer
  brings is of the type of what it was asked for, whoever asked.
- `LastReadingIsFresh`. `FreshInv` speaks of a candidate who has stayed at the bank and is
  answered in time. All requests are then the page's, and while the list is `loading` and
  nothing has failed, a change is still under way after which the list will be read again
  (`Disturbs`), or the reading asked for last (`LastList`) is not served yet or was served
  the bank as it is (`Current`). Whatever changes the bank is itself such a change, and a
  change that fails leaves an error until another is begun. A reading that is asked for
  becomes the last one and is not served; an answer to an earlier one clears `loading`, and
  from then on nothing is claimed until the list is read again. So when no change is
  under way and `loading` is still set, the answer to the last reading is of the bank as
  it is, with others still on their way. Requests are kept in the order they were
  sent, so the proof follows the places of a sequence that is appended to and loses
  elements (`AppendedPlaces`, `RemainingPlace`). One who moves away
  counts a move, so that nobody comes to this state from elsewhere (`BankStays`); this is why
  no handler but the navigation may lead to the bank (`Calm`, `HandledElsewhere`).

So every invariant and every action property of the passing runs is proved. Only
model-checked are the liveness properties, which are outside what the prover handles.

## 8. Where code and documents differ

Checked (each run ends with a trace):

- `StartRace`: a second `Start`, accepted while the session was a draft, sets a
  running interview back to `ready`; the design says that in_progress only ends.
- `FollowUpRace`: two tabs answering at once exceed the follow-up limit.
- `LostPending`: a crash between `BeginSession` and `Save` leaves a session that
  is in progress and can be neither joined nor begun; the acceptance list
  promises that reconnecting keeps what is pending.
- `OrphanState`: a handler saves after `Delete` cleared the live state, which
  then stays for up to 48 hours.
- `OffContract`: an action outside the contract is an error after the answer
  was stored and before the counter is saved, so no limit ends such an
  interview.
- `SilencedClosing`: `closing` awaits `playQuestion` and then goes to the report
  "播完（或静音）后" (`InterviewRoomPage.tsx:383`). Muting or switching the
  avatar off while the words are played stops the audio without settling the promise that
  is awaited, so the page stays in the room. If muting came before the closing, the page
  does go on. (Recording, which stops the audio too, is refused by then: the server has
  written `thinking` after `closing` to the connection whose answer was the last.)

Read, not worth a run:

- `README.md` of the repository says Redis allows one live room per session (any
  number of connections may join), and that concurrent `BeginLive` calls may repeat
  the first question (the compare-and-set prevents it, see `FirstQuestionOnce`). The
  comment on `evaluateAsync` says the evaluation runs in the background (`Finish`
  calls it without a goroutine, so the request that ends the interview waits for it).
- Starting with a chosen bank: a session created from the bank is `ready` at once.
  The page then calls `start` (`CreateInterviewPage.tsx:519`), which the server refuses for
  anything but a draft (`service.go:350`), so every such start ends in an error and leaves
  a ready session behind. The bank's design document
  (`docs/superpowers/specs/2026-08-10-question-bank-v2a-design.md`) has the page go to the
  room directly. In `Pages` this is the only outcome of the scenario with a bank and a
  start.
- `TopBar`'s logout goes to `/welcome`, which is no route (the welcome page is at `/`).

## 9. What is left out

Hazards that the models contain or that were seen, and that no line of the
repository promises against, so that no property is stated:

- *Room.* `play` calls a bare `stop()`, the window's, so an element that is playing
  plays on unheld and a muted page can be heard (`voicePlayer.ts:34`; in `Speech`:
  `sounding` without `element`). A forced end while a permission is pending leaves a
  recorder running; a failed one leaves the camera off; it is given up after 20 s
  while the server may evaluate for two minutes. A second answer that was queued goes to
  whatever question comes after the first. The late navigation of the closing and of
  the forced end moves a candidate who has left by then. A missing token shows an error without the button that reconnects.
- *Preparation.* Answers of the cloud search come in any order
  (`CreateInterviewPage.tsx:317`), answers after a reset fill the page again, and a resume's
  text and address may be of two files. A start that fails after the creation leaves a draft,
  and pressing again makes another. A start that succeeds late moves a candidate who has left.
- *Management.* The list of the bank is read again after every change, and `load`
  (`ManagePage.tsx:191`) does not tell one reading's answer from another's. Renaming
  one bank while the renaming of another is under way (`handleRenameBank`,
  `ManagePage.tsx:339`, does not look at `saving`) makes two readings; if the first was
  served before the second renaming was carried out and is answered last, the page goes on
  showing the list without it, and nothing is under way that would correct this. `Pages`
  has these behaviours. `FreshList` says what does hold, of the
  reading that was asked for last, and says nothing of an earlier one answered after it.
  Adding a question patches question -1 and always fails
  (`ManagePage.tsx:307`); a rename that fails half way splits a bank; a batch deletion includes
  selections a filter hides; a double click stores a job twice; a file parsed after the import
  dialog was closed shows in the next one.
- *Login and report.* The user read by a request that ends after a logout comes back
  (`AuthContext.tsx`). A failed poll or retry hides the button that would try again
  (`ReportPage.tsx:341`). A retry answered after leaving starts a timer nobody clears.

Not modelled:

- The order `CreateFromBank` gives its questions (a shuffle over data), the
  scoring itself, the heartbeat's timing (any cut), and several sessions at once on the
  server: no handler of a session touches another.
- In the browser: the clock, wording and layout, sample conversion and mouth shapes, the
  splitting of a text into segments (their number counts), the aggregation of frames, filters,
  sorting, the inline preview of a resume, questions edited in the import dialog, questions stored
  from a GitHub project, and the parts of the report page that `ReportPage.css:502` hides. Two tabs of
  the pages: `InterviewSession` has them where the server's rows are at stake, and
  `TokenRemoved` is another tab's logout.
- The statements inside the bank's import and the resume upload; each is one step, as one
  tab never issues two of them at once.
- WPS authorization but for the login it ends in: one-time states and refresh tokens touch
  nothing of an interview.
- Components that keep no state of their own or write a single row in a single statement
  around one external call: behavior store, trends, profile, user dialog, precheck, project,
  analytics, expression, the clients of external services, the recalc command (a loop over
  retries), and configuration.
