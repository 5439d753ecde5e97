------------------------------ MODULE ReportPage ------------------------------
(***************************************************************************)
(* pages/ReportPage.tsx: shows the report of a session as soon as there is   *)
(* one. Until then a timer asks for it every ten seconds, at most Polls       *)
(* times (30 in the code), and a button has it made again.                   *)
(*                                                                         *)
(* "shown" is whether there is feedback, "available" what the page believes   *)
(* of it, "demo" the fixed report shown to a mock login. The page's further   *)
(* reads on mount (the session, expression and behavior) are one request,     *)
(* "parts": what they bring, and the buttons beside it, ReportPage.css:502    *)
(* hides.                                                                   *)
(***************************************************************************)
EXTENDS PageEffects

CONSTANTS Polls

ReportOpened(id) ==
  [kind |-> "report", id |-> id, loading |-> TRUE, shown |-> FALSE, available |-> "unknown",
   demo |-> FALSE, failed |-> FALSE, retrying |-> FALSE, timer |-> FALSE, polls |-> 0,
   gaveUp |-> FALSE]
\* Session 0 is a demonstration record's, which is not there.
ReportType(Sessions) ==
  [kind : {"report"}, id : Sessions \cup {0}, loading : BOOLEAN, shown : BOOLEAN,
   available : {"unknown", "no", "yes"}, demo : BOOLEAN, failed : BOOLEAN, retrying : BOOLEAN,
   timer : BOOLEAN, polls : 0..Polls, gaveUp : BOOLEAN]

\* The effect on mount asks for everything at once.
ReportLoads(id) == <<Req("getReport", {id}), Req("parts", {id})>>

-----------------------------------------------------------------------------
StartPolling(p) == [p EXCEPT !.timer = TRUE, !.polls = 0, !.gaveUp = FALSE]
StopPolling(p) == [p EXCEPT !.timer = FALSE]
HasReport(p) == [p EXCEPT !.shown = TRUE, !.available = "yes"]

\* A mock login is answered 401 and shown the demonstration report.
ReportLoaded(p, available, ok, denied) ==
  LET done == [p EXCEPT !.loading = FALSE] IN
  Shows(CASE ok /\ available -> HasReport(done)
          [] ok /\ ~available -> StartPolling([done EXCEPT !.shown = FALSE, !.available = "no"])
          [] denied -> [done EXCEPT !.demo = TRUE, !.available = "yes"]
          [] OTHER -> [done EXCEPT !.failed = TRUE])

\* The timer waits for no answer before it asks again.
Poll(p) == Sends([p EXCEPT !.polls = @ + 1], "pollReport", {p.id})
\* mutant: the page gives up without saying so
PolledQuietly(p, available, ok) ==
  Shows(CASE ok /\ available -> StopPolling(HasReport(p))
          [] ok /\ ~available -> IF p.polls >= Polls THEN StopPolling(p) ELSE p
          [] OTHER -> StopPolling([p EXCEPT !.failed = TRUE]))
\* mutant: a poll that finds the report does not show it
PolledUnseen(p, available, ok) ==
  Shows(CASE ok -> p
          [] OTHER -> StopPolling([p EXCEPT !.failed = TRUE]))
Polled(p, available, ok) ==
  Shows(CASE ok /\ available -> StopPolling(HasReport(p))
          [] ok /\ ~available ->
               IF p.polls >= Polls THEN StopPolling([p EXCEPT !.gaveUp = TRUE]) ELSE p
          [] OTHER -> StopPolling([p EXCEPT !.failed = TRUE]))

HandleRetry(p) == Sends([p EXCEPT !.retrying = TRUE, !.failed = FALSE], "retryReport", {p.id})
Retried(p, available, ok) ==
  LET done == [p EXCEPT !.retrying = FALSE] IN
  Shows(CASE ok /\ available -> StopPolling(HasReport(done))
          [] ok /\ ~available ->
               StartPolling([done EXCEPT !.shown = FALSE, !.available = "no", !.failed = FALSE])
          [] OTHER -> [done EXCEPT !.failed = TRUE])

-----------------------------------------------------------------------------
\* An error takes the place of the waiting message and of its button.
ShowsError(p) == p.failed /\ ~p.shown
ReportPresses(p) ==
  {Goes(p, Route("list", 0))}
  \cup When(~p.loading /\ ~ShowsError(p) /\ p.available = "no" /\ ~p.retrying, {HandleRetry(p)})

ReportAnswer(p, r, ok, denied, val) ==
  CASE r.op = "getReport" -> ReportLoaded(p, val.yes, ok, denied)
    [] r.op = "pollReport" -> Polled(p, val.yes, ok)
    [] r.op = "retryReport" -> Retried(p, val.yes, ok)
    [] OTHER -> Nothing(p)
ReportWaits(p) ==
  When(p.loading, {{"getReport"}}) \cup When(p.retrying, {{"retryReport"}})
=============================================================================
