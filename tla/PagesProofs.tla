----------------------------- MODULE PagesProofs -----------------------------
(***************************************************************************)
(* Theorems about Pages for any number of sessions, questions, logins and  *)
(* moves, any scenario that ScenarioAssumption admits, and whatever the pages' *)
(* handlers do: no page that needs a login is left on the screen without one, *)
(* the report page never waits without a timer, a page starts one session at *)
(* a time, the room is entered only for a session that has its questions, no *)
(* page waits for a request that is not under way, everything is of its type, *)
(* and the reading of the question bank that was asked for last brings the *)
(* bank as it is.                                                          *)
(*                                                                         *)
(* Each has an inductive invariant of its own. Guarded: the login is a pair, *)
(* so that what changes one of its halves leaves the other, and the logins *)
(* handed out are finitely many, so that the next one has a number that is not *)
(* 0. PageInv: the page shown is the one of the route and has the fields of *)
(* its kind. OneInv: while a request that creates or starts a session is under *)
(* way, its page is busy. RoomInv: what a page or an answer on its way says of *)
(* a session has been so on the server, where a session only advances.     *)
(* HangInv: page, store and requests are of their types, and every wait of the *)
(* page has a request of its own, told apart by what it was sent for.      *)
(* FreshInv: while the list is read again, what was changed is still to be *)
(* read, or the reading that was asked for last is of the bank as it is.   *)
(***************************************************************************)
EXTENDS PageHandlerProofs, FiniteSetTheorems, SequenceTheorems, WellFoundedInduction

IsPair(l) == l = [token |-> l.token, user |-> l.user]
Guarded == IsPair(login) /\ IsFiniteSet(live) /\ ProtectedNeedsLogin

-----------------------------------------------------------------------------
(* Operators. *)

\* ProtectedRoute: a route is shown only to a login, whatever was asked for.
LEMMA LandingGuarded ==
  ASSUME NEW l, NEW to
  PROVE  Landing(l, to).at \in Protected => LoggedIn(l)
  BY DEF Landing, Route, Protected, WithTopBar, Tabs

\* A page stays as it is only while the user does; a new login must then keep the token.
LEMMA BecomesGuarded ==
  ASSUME NEW l, NEW e, NEW who, NEW mine, NEW rest,
         IsPair(l),
         path.at \in Protected /\ l.user = login.user => LoggedIn(l),
         Becomes(l, e, who, mine, rest)
  PROVE  IsPair(login') /\ ProtectedNeedsLogin'
<1>1. login' = l /\ path' = Rendered(l, e)
  BY DEF Becomes
<1>2. CASE e.go = Stay /\ l.user = login.user
  BY <1>1, <1>2 DEF Rendered, ProtectedNeedsLogin, IsPair
<1>3. CASE ~(e.go = Stay /\ l.user = login.user)
  <2>1. PICK to : path' = Landing(l, to)
    BY <1>1, <1>3 DEF Rendered
  <2>2. QED BY <1>1, <2>1, LandingGuarded DEF ProtectedNeedsLogin, IsPair
<1>4. QED BY <1>2, <1>3

\* A step of the page itself, which leaves the login alone.
LEMMA StepGuarded ==
  ASSUME Guarded, NEW e, NEW who, NEW mine, NEW rest, Becomes(login, e, who, mine, rest),
         UNCHANGED live
  PROVE  Guarded'
  BY BecomesGuarded DEF Guarded, ProtectedNeedsLogin

\* What leaves the login and the route alone disturbs nothing.
LEMMA UntouchedGuarded ==
  ASSUME Guarded, UNCHANGED <<login, path>>, IsFiniteSet(live')
  PROVE  Guarded'
  BY DEF Guarded, IsPair, ProtectedNeedsLogin

LEMMA AsLoggedIn ==
  ASSUME NEW n \in Nat \ {0} PROVE IsPair(As(n)) /\ LoggedIn(As(n))
  BY DEF As, IsPair, LoggedIn

-----------------------------------------------------------------------------
(* Steps. *)

LEMMA InitGuarded == Init => Guarded
<1> SUFFICES ASSUME Init PROVE Guarded
  OBVIOUS
<1>1. IsFiniteSet(live)
  BY FS_Singleton DEF Init
<1>2. IsPair(login) /\ ProtectedNeedsLogin
  BY AsLoggedIn DEF Init, As, NoLogin, IsPair, ProtectedNeedsLogin, LoggedIn
<1>3. QED BY <1>1, <1>2 DEF Guarded

LEMMA LogoutGuarded == Guarded /\ HandleLogout => Guarded'
<1> SUFFICES ASSUME Guarded, HandleLogout PROVE Guarded'
  OBVIOUS
<1> DEFINE e == IF path.at = "detail" THEN Nothing(page) ELSE Goes(page, Route("notfound", 0))
<1>1. Becomes(NoLogin, e, path, TRUE, net) /\ UNCHANGED live
  BY DEF HandleLogout
<1>2. CASE path.at \in Protected /\ NoLogin.user = login.user
  BY <1>2 DEF Guarded, ProtectedNeedsLogin, LoggedIn, NoLogin
<1>3. CASE ~(path.at \in Protected /\ NoLogin.user = login.user)
  <2>1. IsPair(NoLogin)
    BY DEF IsPair, NoLogin
  <2>2. IsPair(login') /\ ProtectedNeedsLogin'
    BY <1>1, <1>3, <2>1, BecomesGuarded
  <2>3. QED BY <1>1, <2>2 DEF Guarded
<1>4. QED BY <1>2, <1>3

LEMMA EnterGuarded == Guarded /\ EnterApp => Guarded'
<1> SUFFICES ASSUME Guarded, EnterApp PROVE Guarded'
  OBVIOUS
<1>1. Mock \in Nat \ {0}
  BY PagesAssumption DEF Mock
<1>2. Becomes(As(Mock), Goes(page, Route("hub", 0)), path, TRUE, net) /\ UNCHANGED live
  BY DEF EnterApp
<1>3. IsPair(login') /\ ProtectedNeedsLogin'
  BY <1>1, <1>2, AsLoggedIn, BecomesGuarded
<1>4. QED BY <1>2, <1>3 DEF Guarded

\* The application is loaded at the login page's address, which needs no login.
LEMMA ReturnGuarded == Guarded /\ WpsReturns => Guarded'
<1> SUFFICES ASSUME Guarded, WpsReturns PROVE Guarded'
  OBVIOUS
<1> DEFINE l == [login EXCEPT !.user = IF login.token = 0 THEN 0 ELSE @]
<1>1. login' = l /\ path' = Landing(l, Route("login", 0)) /\ UNCHANGED live
  BY DEF WpsReturns
<1>2. IsPair(l)
  BY DEF Guarded, IsPair
<1>3. QED BY <1>1, <1>2, LandingGuarded DEF Guarded, ProtectedNeedsLogin, IsPair

-----------------------------------------------------------------------------
(* Answers. *)

\* fetchJSON on 401: the token alone is taken only from the login page.
LEMMA DeniedGuarded ==
  ASSUME Guarded, NEW r
  PROVE  /\ IsPair(Denied(r).login)
         /\ path.at \in Protected /\ Denied(r).login.user = login.user
              => LoggedIn(Denied(r).login)
<1>1. CASE r.op \in KeepsLogin \/ r.by = Mock
  BY <1>1 DEF Denied, Guarded, ProtectedNeedsLogin
<1>2. CASE ~(r.op \in KeepsLogin \/ r.by = Mock) /\ path.at = "login"
  BY <1>2 DEF Denied, Guarded, IsPair, Protected, WithTopBar, Tabs
<1>3. CASE ~(r.op \in KeepsLogin \/ r.by = Mock) /\ path.at # "login"
  BY <1>3 DEF Denied, Guarded, IsPair, NoLogin, ProtectedNeedsLogin, LoggedIn
<1>4. QED BY <1>1, <1>2, <1>3

\* An answer that logs in brings both halves; one that brings the user keeps the token.
LEMMA LoginAfterGuarded ==
  ASSUME Guarded, NEW r
  PROVE  /\ IsPair(LoginAfter(r))
         /\ path.at \in Protected /\ LoginAfter(r).user = login.user => LoggedIn(LoginAfter(r))
<1>1. CASE r.op = "exchange"
  <2>1. Cardinality(live) + 1 \in Nat \ {0}
    BY FS_CardinalityType DEF Guarded
  <2>2. QED BY <1>1, <2>1, AsLoggedIn DEF LoginAfter
<1>2. CASE r.op = "me"
  BY <1>2 DEF LoginAfter, Guarded, IsPair, ProtectedNeedsLogin, LoggedIn
<1>3. CASE r.op \notin {"exchange", "me"}
  BY <1>3 DEF LoginAfter, Guarded, ProtectedNeedsLogin
<1>4. QED BY <1>1, <1>2, <1>3

LEMMA DeliverGuarded ==
  ASSUME Guarded, NEW k \in DOMAIN net, Deliver(k)
  PROVE  Guarded'
<1> DEFINE r == net[k]
<1>1. PICK a \in Answers(r) :
        IF a = "denied"
        THEN LET d == Denied(r)
                 e == Handled(r, FALSE, TRUE) IN
             Becomes(d.login, IF d.go = Stay THEN e ELSE [e EXCEPT !.go = d.go],
                     r.who, r.mine, RemoveAt(net, k)) /\ UNCHANGED live
        ELSE /\ Becomes(IF a = "ok" THEN LoginAfter(r) ELSE login, Handled(r, a = "ok", FALSE),
                        r.who, r.mine, RemoveAt(net, k))
             /\ live' = IF a = "ok" /\ r.op = "exchange" THEN live \cup {login'.token} ELSE live
  BY DEF Deliver
<1>2. CASE a = "denied"
  <2> DEFINE e == Handled(r, FALSE, TRUE)
             f == IF Denied(r).go = Stay THEN e ELSE [e EXCEPT !.go = Denied(r).go]
  <2>1. Becomes(Denied(r).login, f, r.who, r.mine, RemoveAt(net, k)) /\ UNCHANGED live
    BY <1>1, <1>2
  <2> HIDE DEF f, r
  <2>2. IsPair(login') /\ ProtectedNeedsLogin'
    BY <2>1, DeniedGuarded, BecomesGuarded
  <2>3. QED BY <2>1, <2>2 DEF Guarded
<1>3. CASE a # "denied"
  <2> DEFINE l == IF a = "ok" THEN LoginAfter(r) ELSE login
             e == Handled(r, a = "ok", FALSE)
  <2>1. /\ Becomes(l, e, r.who, r.mine, RemoveAt(net, k))
        /\ live' = IF a = "ok" /\ r.op = "exchange" THEN live \cup {login'.token} ELSE live
    BY <1>1, <1>3
  <2>2. /\ IsPair(l)
        /\ path.at \in Protected /\ l.user = login.user => LoggedIn(l)
    BY LoginAfterGuarded DEF Guarded, ProtectedNeedsLogin
  <2>3. IsFiniteSet(live')
    BY <2>1, FS_AddElement DEF Guarded
  <2> HIDE DEF l, e, r
  <2>4. IsPair(login') /\ ProtectedNeedsLogin'
    BY <2>1, <2>2, BecomesGuarded
  <2>5. QED BY <2>3, <2>4 DEF Guarded
<1>4. QED BY <1>2, <1>3

-----------------------------------------------------------------------------
LEMMA NextGuarded == Guarded /\ [Next]_vars => Guarded'
<1> SUFFICES ASSUME Guarded, [Next]_vars PROVE Guarded'
  OBVIOUS
<1>1. CASE Press
  <2>1. PICK e \in Presses : Becomes(login, e, path, TRUE, net) /\ UNCHANGED live
    BY <1>1 DEF Press
  <2>2. QED BY <2>1, StepGuarded
<1>2. CASE Navigate
  <2>1. PICK at : Becomes(login, Goes(page, Route(at, 0)), path, TRUE, net) /\ UNCHANGED live
    BY <1>2 DEF Navigate
  <2>2. QED BY <2>1, StepGuarded
<1>3. CASE HandleLogout
  BY <1>3, LogoutGuarded
<1>4. CASE EnterApp
  BY <1>4, EnterGuarded
<1>5. CASE WpsReturns
  BY <1>5, ReturnGuarded
<1>6. CASE \E k \in DOMAIN net : Serve(k)
  BY <1>6, UntouchedGuarded DEF Serve, Guarded
<1>7. CASE \E k \in DOMAIN net : Deliver(k)
  BY <1>7, DeliverGuarded
<1>8. CASE \E k \in DOMAIN net : TimesOut(k)
  <2>1. PICK k \in DOMAIN net : TimesOut(k)
    BY <1>8
  <2>2. PICK rest : /\ Becomes(login, Handled(net[k], FALSE, FALSE), net[k].who, net[k].mine, rest)
                    /\ UNCHANGED live
    BY <2>1 DEF TimesOut
  <2>3. QED BY <2>2, StepGuarded
<1>9. CASE PollTick
  BY <1>9, StepGuarded DEF PollTick
<1>10. CASE Expire
  BY <1>10, UntouchedGuarded, FS_RemoveElement DEF Expire, Guarded
<1>11. CASE RoomBegins \/ ServerEvaluates
  BY <1>11, UntouchedGuarded DEF RoomBegins, ServerEvaluates, Guarded
<1>12. CASE RoomOver
  BY <1>12, StepGuarded DEF RoomOver
<1>13. CASE UNCHANGED vars
  BY <1>13, UntouchedGuarded DEF vars, Guarded
<1>14. QED
  BY <1>1, <1>2, <1>3, <1>4, <1>5, <1>6, <1>7, <1>8, <1>9, <1>10, <1>11, <1>12, <1>13 DEF Next

\* auth/ProtectedRoute.tsx and api/client.ts:121-145: whatever is pressed, answered, refused
\* or timed out, a page that needs a login is shown only to one.
THEOREM PagesNeedLogin == Spec => []ProtectedNeedsLogin
<1>1. Guarded => ProtectedNeedsLogin
  BY DEF Guarded
<1>2. QED BY InitGuarded, NextGuarded, <1>1, PTL DEF Spec
-----------------------------------------------------------------------------
(* The page of the route. *)

\* The fields of a page that tell whether it is at work.
Shape(p) ==
  /\ "kind" \in DOMAIN p
  /\ p.kind = "prep" => "phase" \in DOMAIN p
  /\ p.kind = "detail" => {"id", "status", "starting"} \subseteq DOMAIN p
  /\ p.kind = "room" => "id" \in DOMAIN p
  /\ p.kind = "report" =>
       {"loading", "shown", "available", "failed", "retrying", "timer", "polls", "gaveUp", "demo"}
         \subseteq DOMAIN p
Settled(p) ==
  p.kind = "report" /\ p.available = "no" => p.timer \/ p.gaveUp \/ p.failed \/ p.retrying
Kept(q, p) == Shape(q) /\ q.kind = p.kind
PageInv == Shape(page) /\ page.kind = path.at /\ Settled(page)

LEMMA SameKept ==
  ASSUME NEW p, NEW q, Same(q, p), Shape(p) PROVE Kept(q, p)
  BY DEF Same, Shape, Core, Kept

LEMMA OpenedShape ==
  ASSUME NEW to PROVE Shape(OpenedPage(to)) /\ OpenedPage(to).kind = to.at /\ Settled(OpenedPage(to))
<1>1. CASE to.at = "prep"
  BY <1>1 DEF OpenedPage, PrepOpened, Shape, Settled
<1>2. CASE to.at \in {"hub", "list"}
  BY <1>2 DEF OpenedPage, ListOpened, Shape, Settled
<1>3. CASE to.at \in {"bank", "resumes", "jobs"}
  BY <1>3 DEF OpenedPage, BankOpened, ResumesOpened, JobsOpened, Shape, Settled
<1>4. CASE to.at = "report"
  BY <1>4 DEF OpenedPage, ReportOpened, Shape, Settled
<1>5. CASE to.at \in {"detail", "login"}
  BY <1>5 DEF OpenedPage, DetailOpened, LoginOpened, Shape, Settled
<1>6. CASE to.at \notin {"prep", "hub", "list", "bank", "resumes", "jobs", "report", "detail", "login"}
  BY <1>6 DEF OpenedPage, Plain, Shape, Settled
<1> QED BY <1>1, <1>2, <1>3, <1>4, <1>5, <1>6

LEMMA WildKept ==
  ASSUME NEW p, Shape(p)
  PROVE  /\ p.kind = "prep" => /\ Kept(Starting(p).page, p) /\ Kept(GivenUp(p).page, p)
                               /\ \A id : /\ Kept(Preparing(p, id).page, p)
                                          /\ Kept(Entering(p, id).page, p)
         /\ p.kind = "detail" => /\ Kept(Asking(p).page, p) /\ Kept(Unstarted(p).page, p)
                                 /\ \A x, ok : Kept(DetailLoaded(p, x, ok).page, p)
         /\ Kept(Outset(p).page, p)
         /\ \A to : Kept(Goes(p, to).page, p)
<1>1. ASSUME p.kind = "prep"
      PROVE  /\ Kept(Starting(p).page, p) /\ Kept(GivenUp(p).page, p)
             /\ \A id : Kept(Preparing(p, id).page, p) /\ Kept(Entering(p, id).page, p)
  <2>1. /\ Kept([p EXCEPT !.failed = FALSE, !.phase = "creating"], p)
        /\ Kept([p EXCEPT !.failed = TRUE, !.phase = "none"], p)
        /\ Kept([p EXCEPT !.phase = "generating"], p) /\ Kept([p EXCEPT !.phase = "none"], p)
    BY <1>1 DEF Shape, Kept
  <2> QED BY <2>1, EffectPage DEF Starting, GivenUp, Preparing, Entering
<1>2. ASSUME p.kind = "detail"
      PROVE  /\ Kept(Asking(p).page, p) /\ Kept(Unstarted(p).page, p)
             /\ \A x, ok : Kept(DetailLoaded(p, x, ok).page, p)
  <2>1. Kept([p EXCEPT !.starting = TRUE], p) /\ Kept([p EXCEPT !.starting = FALSE], p)
    BY <1>2 DEF Shape, Kept
  <2>2. Kept(Asking(p).page, p)
    BY <2>1, EffectPage DEF Asking
  <2>3. Kept(Unstarted(p).page, p)
    BY <2>1, EffectPage DEF Unstarted
  <2>4. ASSUME NEW x, NEW ok PROVE Kept(DetailLoaded(p, x, ok).page, p)
    <3> DEFINE q == [p EXCEPT !.loading = FALSE, !.failed = ~ok, !.status = IF ok THEN x ELSE @]
    <3>1. Kept(q, p)
      BY <1>2 DEF Shape, Kept
    <3> HIDE DEF q
    <3> QED BY <3>1, EffectPage DEF DetailLoaded, q
  <2> QED BY <2>2, <2>3, <2>4
<1>3. \A to : Kept(Goes(p, to).page, p)
  BY EffectPage DEF Kept
<1> QED BY <1>1, <1>2, <1>3 DEF Outset

LEMMA PressKept ==
  ASSUME Shape(page), NEW e \in Presses PROVE Kept(e.page, page)
  BY PressEffects, WildKept, SameKept DEF Tame
LEMMA HandledKept ==
  ASSUME NEW r, Shape(Asker(r)), NEW ok \in BOOLEAN, NEW denied
  PROVE  Kept(Handled(r, ok, denied).page, Asker(r))
<1> DEFINE p == Asker(r)
           e == Handled(r, ok, denied)
<1>1. ASSUME Tame(e, p) PROVE Kept(e.page, p)
  BY <1>1, SameKept DEF Tame
<1> QED BY <1>1, HandledEffects, WildKept

LEMMA PressSettled ==
  ASSUME Shape(page), Settled(page), NEW e \in Presses PROVE Settled(e.page)
<1>1. CASE page.kind # "report"
  BY <1>1, PressKept DEF Kept, Settled
<1>2. CASE page.kind = "report"
  <2>1. e = HandleRetry(page) \/ e = Goes(page, Route("list", 0))
    BY <1>2 DEF Presses, ReportPresses, When
  <2>2. Settled(HandleRetry(page).page)
    <3>1. HandleRetry(page).page = [page EXCEPT !.retrying = TRUE, !.failed = FALSE]
      BY EffectPage DEF HandleRetry
    <3> QED BY <1>2, <3>1 DEF Shape, Settled
  <2> QED BY <2>1, <2>2, EffectPage
<1> QED BY <1>1, <1>2
LEMMA PollSettled ==
  ASSUME Shape(page), Settled(page), page.kind = "report"
  PROVE  Kept(Poll(page).page, page) /\ Settled(Poll(page).page)
<1>1. Poll(page).page = [page EXCEPT !.polls = @ + 1]
  BY EffectPage DEF Poll
<1> QED BY <1>1 DEF Kept, Shape, Settled

\* ReportPage.tsx:164-292, the answers to its four requests.
LEMMA ReportSettled ==
  ASSUME NEW p, Shape(p), Settled(p), p.kind = "report", NEW r, NEW ok \in BOOLEAN, NEW denied, NEW val
  PROVE  Settled(ReportAnswer(p, r, ok, denied, val).page)
<1>1. ASSUME NEW available PROVE Settled(ReportLoaded(p, available, ok, denied).page)
  <2> DEFINE done == [p EXCEPT !.loading = FALSE]
             none == [done EXCEPT !.shown = FALSE, !.available = "no"]
  <2>1. /\ Settled(HasReport(done)) /\ Settled(StartPolling(none))
        /\ Settled([done EXCEPT !.demo = TRUE, !.available = "yes"])
        /\ Settled([done EXCEPT !.failed = TRUE])
    BY DEF HasReport, StartPolling, Shape, Settled
  <2> HIDE DEF none
  <2> QED BY <2>1, EffectPage DEF ReportLoaded, none
<1>2. ASSUME NEW available PROVE Settled(Polled(p, available, ok).page)
  <2>1. /\ Settled(StopPolling(HasReport(p)))
        /\ Settled(StopPolling([p EXCEPT !.gaveUp = TRUE]))
        /\ Settled(StopPolling([p EXCEPT !.failed = TRUE]))
    BY DEF HasReport, StopPolling, Shape, Settled
  <2> QED BY <2>1, EffectPage DEF Polled
<1>3. ASSUME NEW available PROVE Settled(Retried(p, available, ok).page)
  <2> DEFINE done == [p EXCEPT !.retrying = FALSE]
             none == [done EXCEPT !.shown = FALSE, !.available = "no", !.failed = FALSE]
  <2>1. /\ Settled(StopPolling(HasReport(done))) /\ Settled(StartPolling(none))
        /\ Settled([done EXCEPT !.failed = TRUE])
    BY DEF HasReport, StopPolling, StartPolling, Shape, Settled
  <2> HIDE DEF none
  <2> QED BY <2>1, EffectPage DEF Retried, none
<1>4. Settled(Nothing(p).page)
  BY EffectPage DEF Nothing
<1> QED BY <1>1, <1>2, <1>3, <1>4 DEF ReportAnswer

LEMMA HandledSettled ==
  ASSUME NEW r, Shape(Asker(r)), Settled(Asker(r)), NEW ok \in BOOLEAN, NEW denied
  PROVE  Settled(Handled(r, ok, denied).page)
<1> DEFINE p == Asker(r)
           e == Handled(r, ok, denied)
<1>1. CASE p.kind # "report"
  BY <1>1, HandledKept DEF Kept, Settled
<1>2. CASE p.kind = "report"
  <2>1. e = Nothing(p) \/ e = ReportAnswer(p, r, ok, denied, r.val)
    BY <1>2 DEF Handled, Answer
  <2> QED BY <1>2, <2>1, ReportSettled, EffectPage DEF Nothing
<1> QED BY <1>1, <1>2

IsEffect(e) == e = [page |-> e.page, send |-> e.send, go |-> e.go]
LEMMA HandledIsEffect ==
  ASSUME NEW r, NEW ok \in BOOLEAN, NEW denied PROVE IsEffect(Handled(r, ok, denied))
<1>1. /\ \A q : IsEffect(Shows(q)) /\ \A to : IsEffect(Goes(q, to))
      /\ \A q, op, ids : IsEffect(Sends(q, op, ids))
  BY DEF IsEffect, Shows, Goes, Sends, Asks
<1>2. ASSUME NEW e, NEW p, Tame(e, p) PROVE IsEffect(e)
  BY <1>2 DEF Tame, Calm, IsEffect
<1>3. ASSUME NEW p, NEW x
      PROVE  /\ IsEffect(GivenUp(p)) /\ IsEffect(Outset(p)) /\ IsEffect(Unstarted(p))
             /\ IsEffect(Preparing(p, x)) /\ IsEffect(Entering(p, x))
             /\ IsEffect(DetailLoaded(p, x, ok))
  BY <1>1 DEF GivenUp, Outset, Unstarted, Preparing, Entering, DetailLoaded
<1> QED BY <1>2, <1>3, HandledEffects

\* The page is what its handler made of it, what it was, or a new one.
LEMMA BecomesPage ==
  ASSUME PageInv, NEW l, NEW e, NEW who, NEW mine, NEW rest, Becomes(l, e, who, mine, rest),
         mine => Kept(e.page, page) /\ Settled(e.page)
  PROVE  PageInv'
<1>1. \/ path' = path /\ page' = page
      \/ path' = path /\ mine /\ page' = e.page
      \/ page' = OpenedPage(path')
  <2> DEFINE to == Rendered(l, e)
  <2>1. path' = to /\ IF to = path THEN page' = (IF mine THEN e.page ELSE page)
                      ELSE page' = OpenedPage(to)
    BY DEF Becomes
  <2> HIDE DEF to
  <2>2. CASE to = path
    BY <2>1, <2>2, Zenon
  <2>3. CASE to # path
    BY <2>1, <2>3
  <2> QED BY <2>2, <2>3
<1>2. CASE path' = path /\ page' = page
  BY <1>2 DEF PageInv
<1>3. CASE path' = path /\ mine /\ page' = e.page
  BY <1>3 DEF PageInv, Kept
<1>4. CASE page' = OpenedPage(path')
  BY <1>4, OpenedShape DEF PageInv
<1> QED BY <1>1, <1>2, <1>3, <1>4

LEMMA UntouchedPage == PageInv /\ UNCHANGED <<page, path>> => PageInv'
  BY DEF PageInv

LEMMA GoesPage ==
  ASSUME PageInv, NEW to, NEW l, NEW who, NEW mine, NEW rest,
         Becomes(l, Goes(page, to), who, mine, rest) \/ Becomes(l, Nothing(page), who, mine, rest)
  PROVE  PageInv'
<1>1. Kept(page, page) /\ Settled(page)
  BY DEF PageInv, Kept
<1>2. Goes(page, to).page = page /\ Nothing(page).page = page
  BY EffectPage DEF Nothing
<1>3. CASE Becomes(l, Goes(page, to), who, mine, rest)
  BY <1>1, <1>2, <1>3, BecomesPage
<1>4. CASE Becomes(l, Nothing(page), who, mine, rest)
  BY <1>1, <1>2, <1>4, BecomesPage
<1> QED BY <1>3, <1>4

LEMMA AskerPage ==
  ASSUME PageInv, NEW r
  PROVE  Shape(Asker(r)) /\ Settled(Asker(r)) /\ (r.mine => Asker(r) = page)
  BY OpenedShape DEF PageInv, Asker

LEMMA HandledPage ==
  ASSUME PageInv, NEW r, NEW ok \in BOOLEAN, NEW denied, r.mine
  PROVE  Kept(Handled(r, ok, denied).page, page) /\ Settled(Handled(r, ok, denied).page)
  BY AskerPage, HandledKept, HandledSettled

LEMMA DeliverPage ==
  ASSUME PageInv, NEW k \in DOMAIN net, Deliver(k) PROVE PageInv'
<1> DEFINE r == net[k]
<1>1. PICK a \in Answers(r) :
        IF a = "denied"
        THEN LET d == Denied(r)
                 e == Handled(r, FALSE, TRUE) IN
             Becomes(d.login, IF d.go = Stay THEN e ELSE [e EXCEPT !.go = d.go],
                     r.who, r.mine, RemoveAt(net, k)) /\ UNCHANGED live
        ELSE /\ Becomes(IF a = "ok" THEN LoginAfter(r) ELSE login, Handled(r, a = "ok", FALSE),
                        r.who, r.mine, RemoveAt(net, k))
             /\ live' = IF a = "ok" /\ r.op = "exchange" THEN live \cup {login'.token} ELSE live
  BY DEF Deliver
<1> HIDE DEF r
<1>2. CASE a = "denied"
  <2> DEFINE e == Handled(r, FALSE, TRUE)
             to == Denied(r).go
             f == IF to = Stay THEN e ELSE [e EXCEPT !.go = to]
  <2>1. Becomes(Denied(r).login, f, r.who, r.mine, RemoveAt(net, k))
    BY <1>1, <1>2
  <2>2. IsEffect(e)
    BY HandledIsEffect
  <2>3. r.mine => Kept(e.page, page) /\ Settled(e.page)
    BY HandledPage
  <2> HIDE DEF e
  <2>4. f.page = e.page
    BY <2>2 DEF IsEffect
  <2> HIDE DEF f
  <2> QED BY <2>1, <2>3, <2>4, BecomesPage
<1>3. CASE a # "denied"
  <2> DEFINE ok == a = "ok"
             e == Handled(r, ok, FALSE)
             l == IF ok THEN LoginAfter(r) ELSE login
  <2>1. Becomes(l, e, r.who, r.mine, RemoveAt(net, k))
    BY <1>1, <1>3
  <2>2. ok \in BOOLEAN
    OBVIOUS
  <2> HIDE DEF ok
  <2>3. r.mine => Kept(e.page, page) /\ Settled(e.page)
    BY <2>2, HandledPage
  <2> HIDE DEF e, l
  <2> QED BY <2>1, <2>3, BecomesPage
<1> QED BY <1>2, <1>3

LEMMA TimesOutPage ==
  ASSUME PageInv, NEW k \in DOMAIN net, TimesOut(k) PROVE PageInv'
<1> DEFINE r == net[k]
           e == Handled(r, FALSE, FALSE)
<1>1. PICK rest : Becomes(login, e, r.who, r.mine, rest)
  BY DEF TimesOut
<1>2. r.mine => Kept(e.page, page) /\ Settled(e.page)
  BY HandledPage
<1> HIDE DEF e, r
<1> QED BY <1>1, <1>2, BecomesPage

LEMMA ReturnPage ==
  ASSUME PageInv, WpsReturns PROVE PageInv'
<1>1. \A q : LoginReturned(q).page = [LoginOpened EXCEPT !.loading = TRUE]
             \/ LoginReturned(q).page = [LoginOpened EXCEPT !.failed = TRUE]
  BY EffectPage DEF LoginReturned
<1>2. page' = OpenedPage(path') \/ \E ok \in BOOLEAN : /\ path' = Route("login", 0)
                                                       /\ page' = LoginReturned(ok).page
  BY DEF WpsReturns
<1>3. CASE page' = OpenedPage(path')
  BY <1>3, OpenedShape DEF PageInv
<1>4. CASE \E ok \in BOOLEAN : path' = Route("login", 0) /\ page' = LoginReturned(ok).page
  BY <1>1, <1>4 DEF LoginOpened, Route, PageInv, Shape, Settled
<1> QED BY <1>2, <1>3, <1>4

LEMMA InitPage == Init => PageInv
  BY OpenedShape DEF Init, PageInv

LEMMA NextPage == PageInv /\ [Next]_vars => PageInv'
<1> SUFFICES ASSUME PageInv, [Next]_vars PROVE PageInv'
  OBVIOUS
<1>1. CASE Press
  <2>1. PICK e \in Presses : Becomes(login, e, path, TRUE, net)
    BY <1>1 DEF Press
  <2>2. Kept(e.page, page) /\ Settled(e.page)
    BY PressKept, PressSettled DEF PageInv
  <2> QED BY <2>1, <2>2, BecomesPage
<1>2. CASE Navigate
  BY <1>2, GoesPage DEF Navigate
<1>3. CASE HandleLogout
  BY <1>3, GoesPage DEF HandleLogout
<1>4. CASE EnterApp
  BY <1>4, GoesPage DEF EnterApp
<1>5. CASE WpsReturns
  BY <1>5, ReturnPage
<1>6. CASE \E k \in DOMAIN net : Serve(k) \/ Deliver(k) \/ TimesOut(k)
  <2>1. PICK k \in DOMAIN net : Serve(k) \/ Deliver(k) \/ TimesOut(k)
    BY <1>6
  <2>2. CASE Serve(k)
    BY <2>2, UntouchedPage DEF Serve
  <2> QED BY <2>1, <2>2, DeliverPage, TimesOutPage
<1>7. CASE PollTick
  <2>1. Becomes(login, Poll(page), path, TRUE, net) /\ page.kind = "report"
    BY <1>7 DEF PollTick
  <2>2. Kept(Poll(page).page, page) /\ Settled(Poll(page).page)
    BY <2>1, PollSettled DEF PageInv
  <2> QED BY <2>1, <2>2, BecomesPage
<1>8. CASE Expire \/ RoomBegins \/ ServerEvaluates
  BY <1>8, UntouchedPage DEF Expire, RoomBegins, ServerEvaluates
<1>9. CASE RoomOver
  BY <1>9, GoesPage DEF RoomOver
<1>10. CASE UNCHANGED vars
  BY <1>10, UntouchedPage DEF vars
<1> QED BY <1>1, <1>2, <1>3, <1>4, <1>5, <1>6, <1>7, <1>8, <1>9, <1>10 DEF Next

\* ReportPage.tsx:164-292. In whatever order its four requests are answered or time out,
\* a report page that awaits a report has a timer running, or says why it has none.
THEOREM ReportNeverStuck == Spec => []NeverStuck
<1>1. PageInv => NeverStuck
  BY DEF PageInv, Settled, NeverStuck
<1> QED BY InitPage, NextPage, <1>1, PTL DEF Spec

-----------------------------------------------------------------------------
(* Queues of requests. *)

IsSeq(s) == \E S : s \in Seq(S)
Begins(r) == r.mine /\ r.op \in Starts
NoneBegins(s) == \A k \in DOMAIN s : ~Begins(s[k])
OneBegins(s) == \A j, k \in DOMAIN s : Begins(s[j]) /\ Begins(s[k]) => j = k
Formed(r) == {"op", "ids", "mine", "who", "at", "val"} \subseteq DOMAIN r /\ r.mine \in BOOLEAN
NetOK(s) == IsSeq(s) /\ \A k \in DOMAIN s : Formed(s[k])

\* Where a sequence without one of its elements has the others.
LEMMA RemovePlaces ==
  ASSUME NEW s, IsSeq(s), NEW k \in DOMAIN s
  PROVE  /\ IsSeq(RemoveAt(s, k))
         /\ \A j \in DOMAIN RemoveAt(s, k) :
              LET i == IF j < k THEN j ELSE j + 1 IN
              j \in Nat /\ i \in DOMAIN s /\ i # k /\ RemoveAt(s, k)[j] = s[i]
<1>1. PICK S : s \in Seq(S)
  BY DEF IsSeq
<1>2. Len(s) \in Nat /\ DOMAIN s = 1..Len(s) /\ k \in 1..Len(s)
  BY <1>1, LenProperties
<1> DEFINE a == SubSeq(s, 1, k - 1)
           b == SubSeq(s, k + 1, Len(s))
<1>3. /\ a \in Seq(S) /\ Len(a) = k - 1 /\ \A j \in 1..k - 1 : a[j] = s[j]
  BY <1>1, <1>2, SubSeqProperties
<1>4. /\ b \in Seq(S) /\ Len(b) = Len(s) - k /\ \A j \in 1..Len(s) - k : b[j] = s[k + j]
  BY <1>1, <1>2, SubSeqProperties
<1>5. RemoveAt(s, k) = a \o b
  BY DEF RemoveAt
<1> HIDE DEF a, b
<1>6. /\ a \o b \in Seq(S) /\ Len(a \o b) = Len(s) - 1
      /\ \A j \in 1..Len(s) - 1 : (a \o b)[j] = IF j <= k - 1 THEN a[j] ELSE b[j - (k - 1)]
  <2>1. Len(a) + Len(b) = Len(s) - 1
    BY <1>2, <1>3, <1>4
  <2>2. /\ a \o b \in Seq(S) /\ Len(a \o b) = Len(a) + Len(b)
        /\ \A j \in 1..Len(a) + Len(b) :
             (a \o b)[j] = IF j <= Len(a) THEN a[j] ELSE b[j - Len(a)]
    BY <1>3, <1>4, ConcatProperties
  <2>3. Len(a) = k - 1
    BY <1>3
  <2> QED BY <2>1, <2>2, <2>3
<1>7. DOMAIN (a \o b) = 1..Len(s) - 1
  BY <1>6, LenProperties
<1>8. ASSUME NEW j \in 1..Len(s) - 1, j < k PROVE j \in DOMAIN s /\ j # k /\ (a \o b)[j] = s[j]
  BY <1>2, <1>3, <1>6, <1>8
<1>9. ASSUME NEW j \in 1..Len(s) - 1, ~(j < k)
      PROVE  j + 1 \in DOMAIN s /\ j + 1 # k /\ (a \o b)[j] = s[j + 1]
  <2>1. j - (k - 1) \in 1..Len(s) - k /\ k + (j - (k - 1)) = j + 1 /\ ~(j <= k - 1)
    BY <1>2, <1>9
  <2>2. b[j - (k - 1)] = s[j + 1]
    BY <1>4, <2>1
  <2>3. (a \o b)[j] = b[j - (k - 1)]
    BY <1>6, <2>1
  <2>4. j + 1 \in 1..Len(s) /\ j + 1 # k
    BY <1>2, <1>9
  <2> QED BY <1>2, <2>2, <2>3, <2>4
<1>10. IsSeq(a \o b)
  BY <1>6 DEF IsSeq
<1>11. \A j \in DOMAIN (a \o b) : j \in Nat
  BY <1>7
<1> QED BY <1>5, <1>7, <1>8, <1>9, <1>10, <1>11

LEMMA ConcatPlaces ==
  ASSUME NEW s, NEW t, IsSeq(s), IsSeq(t)
  PROVE  /\ IsSeq(s \o t)
         /\ \A j \in DOMAIN (s \o t) :
              \/ j \in DOMAIN s /\ (s \o t)[j] = s[j]
              \/ j - Len(s) \in DOMAIN t /\ (s \o t)[j] = t[j - Len(s)] /\ j \in Nat
         /\ Len(s) \in Nat
<1>1. PICK S, T : s \in Seq(S) /\ t \in Seq(T)
  BY DEF IsSeq
<1>2. s \in Seq(S \cup T) /\ t \in Seq(S \cup T)
  BY <1>1
<1>3. s \o t \in Seq(S \cup T) /\ Len(s \o t) = Len(s) + Len(t)
  BY <1>2, ConcatProperties
<1>4. /\ Len(s) \in Nat /\ DOMAIN s = 1..Len(s) /\ Len(t) \in Nat /\ DOMAIN t = 1..Len(t)
      /\ DOMAIN (s \o t) = 1..Len(s) + Len(t)
  BY <1>2, <1>3, LenProperties
<1>5. \A j \in 1..Len(s) + Len(t) : (s \o t)[j] = IF j <= Len(s) THEN s[j] ELSE t[j - Len(s)]
  BY <1>2, ConcatProperties
<1> QED BY <1>3, <1>4, <1>5 DEF IsSeq

LEMMA ShortSeq ==
  IsSeq(<<>>) /\ (\A x : IsSeq(<<x>>) /\ DOMAIN <<x>> = {1} /\ <<x>>[1] = x)
  /\ \A x, y : IsSeq(<<x, y>>)
<1>1. IsSeq(<<>>)
  <2>1. <<>> \in Seq({})
    OBVIOUS
  <2> QED BY <2>1 DEF IsSeq
<1>2. ASSUME NEW x PROVE IsSeq(<<x>>) /\ DOMAIN <<x>> = {1} /\ <<x>>[1] = x
  <2>1. <<x>> \in Seq({x})
    OBVIOUS
  <2>2. DOMAIN <<x>> = {1} /\ <<x>>[1] = x
    OBVIOUS
  <2> QED BY <2>1, <2>2 DEF IsSeq
<1>3. ASSUME NEW x, NEW y PROVE IsSeq(<<x, y>>)
  <2>1. <<x, y>> \in Seq({x, y})
    OBVIOUS
  <2> QED BY <2>1 DEF IsSeq
<1> QED BY <1>1, <1>2, <1>3

\* A sequence made place by place.
LEMMA MadeSeq ==
  ASSUME NEW s, IsSeq(s), NEW t, t = [i \in DOMAIN s |-> t[i]] PROVE IsSeq(t)
<1>1. PICK S : s \in Seq(S)
  BY DEF IsSeq
<1>2. Len(s) \in Nat /\ DOMAIN s = 1..Len(s)
  BY <1>1, LenProperties
<1>3. t \in Seq({t[i] : i \in 1..Len(s)})
  <2>1. t \in [1..Len(s) -> {t[i] : i \in 1..Len(s)}]
    BY <1>2
  <2> QED BY <1>2, <2>1, SeqDef
<1> QED BY <1>3 DEF IsSeq

LEMMA IssuedOK ==
  ASSUME NEW reqs, IsSeq(reqs), NEW l, NEW who, NEW mine \in BOOLEAN
  PROVE  LET s == Issued(reqs, l, who, mine) IN
         /\ NetOK(s) /\ DOMAIN s = DOMAIN reqs
         /\ \A i \in DOMAIN s : /\ s[i].op = reqs[i].op /\ s[i].ids = reqs[i].ids /\ s[i].mine = mine
                                /\ s[i].who = who /\ s[i].at = "sent"
<1> DEFINE s == Issued(reqs, l, who, mine)
<1>1. /\ DOMAIN s = DOMAIN reqs
      /\ \A i \in DOMAIN s : /\ s[i].op = reqs[i].op /\ s[i].ids = reqs[i].ids /\ s[i].mine = mine
                             /\ s[i].who = who /\ s[i].at = "sent" /\ Formed(s[i])
  BY DEF Issued, Formed
<1>2. s = [i \in DOMAIN reqs |-> s[i]]
  BY DEF Issued
<1> HIDE DEF s
<1>3. IsSeq(s)
  BY <1>2, MadeSeq
<1> QED BY <1>1, <1>3 DEF NetOK, s

LEMMA DisownedOK ==
  ASSUME NEW s, NetOK(s)
  PROVE  /\ NetOK(Disowned(s)) /\ DOMAIN Disowned(s) = DOMAIN s
         /\ \A i \in DOMAIN s : Disowned(s)[i] = [s[i] EXCEPT !.mine = FALSE]
<1> DEFINE t == Disowned(s)
<1>1. /\ DOMAIN t = DOMAIN s /\ t = [i \in DOMAIN s |-> t[i]]
      /\ \A i \in DOMAIN s : t[i] = [s[i] EXCEPT !.mine = FALSE]
  BY DEF Disowned
<1> HIDE DEF t
<1>2. \A i \in DOMAIN s : Formed([s[i] EXCEPT !.mine = FALSE])
  BY DEF NetOK, Formed
<1>3. IsSeq(t)
  BY <1>1, MadeSeq DEF NetOK
<1> QED BY <1>1, <1>2, <1>3 DEF NetOK, t

LEMMA LoadsOK ==
  ASSUME NEW from, NEW to
  PROVE  LET s == ReadsUser(from, to) \o Loads(to) IN
         /\ IsSeq(s) /\ IsSeq(Loads(to))
         /\ \A i \in DOMAIN s : s[i].op \notin Starts
                                /\ (s[i].op = "getInterview" => to.at = "detail" /\ s[i].ids = {to.id})
         /\ \A i \in DOMAIN Loads(to) :
              Loads(to)[i].op \notin Starts
              /\ (Loads(to)[i].op = "getInterview" => to.at = "detail" /\ Loads(to)[i].ids = {to.id})
<1>1. /\ IsSeq(ReadsUser(from, to))
      /\ \A i \in DOMAIN ReadsUser(from, to) : ReadsUser(from, to)[i].op = "me"
  BY ShortSeq DEF ReadsUser, Req
<1>2. /\ IsSeq(Loads(to))
      /\ \A i \in DOMAIN Loads(to) :
           Loads(to)[i].op \notin Starts
           /\ (Loads(to)[i].op = "getInterview" => to.at = "detail" /\ Loads(to)[i].ids = {to.id})
  <2>1. CASE to.at \in {"jobs", "hub", "list", "resumes"}
    BY <2>1, ShortSeq DEF Loads, Req, Starts
  <2>2. CASE to.at = "bank"
    <3>1. Loads(to) = <<[Req("listQuestions", {}) EXCEPT !.from = "page"]>>
      BY <2>2 DEF Loads, LoadBank, Asks
    <3> QED BY <3>1, ShortSeq DEF Req, Starts
  <2>3. CASE to.at = "report"
    <3>1. Loads(to) = <<Req("getReport", {to.id}), Req("parts", {to.id})>>
      BY <2>3 DEF Loads, ReportLoads
    <3> QED BY <3>1, ShortSeq DEF Req, Starts
  <2>4. CASE to.at = "detail"
    BY <2>4, ShortSeq DEF Loads, Req, Starts
  <2>5. CASE to.at \notin {"jobs", "hub", "list", "resumes", "bank", "report", "detail"}
    <3>1. Loads(to) = <<>>
      BY <2>5 DEF Loads
    <3> QED BY <3>1, ShortSeq
  <2> QED BY <2>1, <2>2, <2>3, <2>4, <2>5
<1> DEFINE u == ReadsUser(from, to)
           v == Loads(to)
<1> HIDE DEF u, v
<1>3. /\ IsSeq(u \o v)
      /\ \A j \in DOMAIN (u \o v) : (\E i \in DOMAIN u : (u \o v)[j] = u[i])
                                    \/ (\E i \in DOMAIN v : (u \o v)[j] = v[i])
  BY <1>1, <1>2, ConcatPlaces DEF u, v
<1> QED BY <1>1, <1>2, <1>3 DEF u, v, Starts

-----------------------------------------------------------------------------
(* One start at a time. *)

\* A page that has asked for a session to be created or started, or waits to ask.
Busy(p) == \/ p.kind = "prep" /\ p.phase # "none"
           \/ p.kind = "detail" /\ p.starting
OneInv == NetOK(net) /\ OneBegins(net) /\ (NoneBegins(net) \/ Busy(page))

LEMMA BeginsConcat ==
  ASSUME NEW s, NEW t, NetOK(s), NetOK(t)
  PROVE  /\ NetOK(s \o t)
         /\ NoneBegins(s) /\ NoneBegins(t) => NoneBegins(s \o t)
         /\ OneBegins(s) /\ NoneBegins(t) => OneBegins(s \o t)
         /\ NoneBegins(s) /\ OneBegins(t) => OneBegins(s \o t)
<1> DEFINE q == s \o t
<1>1. /\ IsSeq(q) /\ Len(s) \in Nat
      /\ \A j \in DOMAIN q : \/ j \in DOMAIN s /\ q[j] = s[j]
                             \/ j \in Nat /\ j - Len(s) \in DOMAIN t /\ q[j] = t[j - Len(s)]
  BY ConcatPlaces DEF NetOK
<1> HIDE DEF q
<1>2. NetOK(q)
  BY <1>1 DEF NetOK
<1>3. NoneBegins(s) /\ NoneBegins(t) => NoneBegins(q)
  BY <1>1 DEF NoneBegins
<1>4. ASSUME OneBegins(s), NoneBegins(t) PROVE OneBegins(q)
  BY <1>1, <1>4 DEF OneBegins, NoneBegins
<1>5. ASSUME NoneBegins(s), OneBegins(t) PROVE OneBegins(q)
  <2> SUFFICES ASSUME NEW i \in DOMAIN q, NEW j \in DOMAIN q, Begins(q[i]), Begins(q[j]) PROVE i = j
    BY DEF OneBegins
  <2>1. /\ i \in Nat /\ i - Len(s) \in DOMAIN t /\ Begins(t[i - Len(s)])
        /\ j \in Nat /\ j - Len(s) \in DOMAIN t /\ Begins(t[j - Len(s)])
    BY <1>1, <1>5 DEF NoneBegins
  <2>2. i - Len(s) = j - Len(s)
    BY <1>5, <2>1 DEF OneBegins
  <2> QED BY <1>1, <2>1, <2>2
<1> QED BY <1>2, <1>3, <1>4, <1>5 DEF q

LEMMA BeginsRemove ==
  ASSUME NEW s, NetOK(s), OneBegins(s), NEW k \in DOMAIN s
  PROVE  LET q == RemoveAt(s, k) IN
         /\ NetOK(q) /\ OneBegins(q)
         /\ NoneBegins(s) \/ Begins(s[k]) => NoneBegins(q)
<1> DEFINE q == RemoveAt(s, k)
<1>1. /\ IsSeq(q)
      /\ \A j \in DOMAIN q : LET i == IF j < k THEN j ELSE j + 1 IN
                             j \in Nat /\ i \in DOMAIN s /\ i # k /\ q[j] = s[i]
  BY RemovePlaces DEF NetOK
<1>2. k \in Nat
  <2>1. PICK S : s \in Seq(S)
    BY DEF NetOK, IsSeq
  <2> QED BY <2>1, LenProperties
<1> HIDE DEF q
<1>3. NetOK(q)
  BY <1>1 DEF NetOK
<1>4. OneBegins(q)
  <2> SUFFICES ASSUME NEW i \in DOMAIN q, NEW j \in DOMAIN q, Begins(q[i]), Begins(q[j]) PROVE i = j
    BY DEF OneBegins
  <2>1. (IF i < k THEN i ELSE i + 1) = (IF j < k THEN j ELSE j + 1)
    BY <1>1 DEF OneBegins
  <2> QED BY <1>1, <1>2, <2>1
<1>5. NoneBegins(s) => NoneBegins(q)
  BY <1>1 DEF NoneBegins
<1>6. Begins(s[k]) => NoneBegins(q)
  BY <1>1 DEF NoneBegins, OneBegins
<1> QED BY <1>3, <1>4, <1>5, <1>6 DEF q

\* What is left of the requests when one of them is answered or given up.
Left(k) == {RemoveAt(net, k), [net EXCEPT ![k].at = "late", ![k].mine = FALSE]}
LEMMA BeginsLeft ==
  ASSUME NetOK(net), OneBegins(net), NEW k \in DOMAIN net, NEW rest \in Left(k)
  PROVE  /\ NetOK(rest) /\ OneBegins(rest)
         /\ NoneBegins(net) \/ Begins(net[k]) => NoneBegins(rest)
<1>1. CASE rest = RemoveAt(net, k)
  BY <1>1, BeginsRemove
<1>2. CASE rest = [net EXCEPT ![k].at = "late", ![k].mine = FALSE]
  <2>1. /\ DOMAIN rest = DOMAIN net /\ rest = [i \in DOMAIN net |-> rest[i]]
        /\ \A i \in DOMAIN rest : /\ i # k => rest[i] = net[i]
                                  /\ i = k => Formed(rest[i]) /\ rest[i].mine = FALSE
    BY <1>2 DEF NetOK, Formed
  <2>2. IsSeq(rest)
    BY <2>1, MadeSeq DEF NetOK
  <2>3. NetOK(rest)
    BY <2>1, <2>2 DEF NetOK
  <2>4. OneBegins(rest) /\ (NoneBegins(net) => NoneBegins(rest))
    BY <2>1 DEF OneBegins, NoneBegins, Begins
  <2>5. Begins(net[k]) => NoneBegins(rest)
    BY <2>1 DEF OneBegins, NoneBegins, Begins
  <2> QED BY <2>3, <2>4, <2>5
<1> QED BY <1>1, <1>2 DEF Left

\* What a handler sends begins no session, or one that the page then waits for.
Idle(e) == IsSeq(e.send) /\ \A i \in DOMAIN e.send : e.send[i].op \notin Starts
Once(e) == (\E r : e.send = <<r>>) /\ Busy(e.page)

LEMMA EffectIdle ==
  /\ \A q : Idle(Shows(q)) /\ \A to : Idle(Goes(q, to))
  /\ \A e, p : Tame(e, p) => Idle(e)
<1>1. \A q : Idle(Shows(q)) /\ \A to : Idle(Goes(q, to))
  BY ShortSeq DEF Idle, Shows, Goes
<1>2. ASSUME NEW e, NEW p, Tame(e, p) PROVE Idle(e)
  <2>1. e.send = <<>> \/ \E r : e.send = <<r>> /\ r.op \notin Starts
    BY <1>2 DEF Tame, Calm, Key
  <2>2. CASE e.send = <<>>
    BY <2>2, ShortSeq DEF Idle
  <2>3. CASE \E r : e.send = <<r>> /\ r.op \notin Starts
    <3>1. PICK r : e.send = <<r>> /\ r.op \notin Starts
      BY <2>3
    <3> QED BY <3>1, ShortSeq DEF Idle
  <2> QED BY <2>1, <2>2, <2>3
<1> QED BY <1>1, <1>2
LEMMA TameBusy ==
  ASSUME NEW p, Shape(p), NEW e, Tame(e, p) PROVE Busy(e.page) <=> Busy(p)
<1>1. /\ e.page.kind = p.kind
      /\ p.kind = "prep" => e.page.phase = p.phase
      /\ p.kind = "detail" => e.page.starting = p.starting
  BY DEF Tame, Same, Core, Shape
<1> QED BY <1>1 DEF Busy

LEMMA SendsOnce ==
  ASSUME NEW p, Shape(p)
  PROVE  /\ p.kind = "prep" => Once(Starting(p)) /\ \A id : Once(Preparing(p, id))
         /\ p.kind = "detail" => Once(Asking(p))
<1>1. \A q, op, ids : \E r : Sends(q, op, ids).send = <<r>>
  BY DEF Sends, Asks
<1>2. ASSUME p.kind = "prep"
      PROVE  /\ Busy([p EXCEPT !.failed = FALSE, !.phase = "creating"])
             /\ Busy([p EXCEPT !.phase = "generating"])
  BY <1>2 DEF Shape, Busy
<1>3. ASSUME p.kind = "detail" PROVE Busy([p EXCEPT !.starting = TRUE])
  BY <1>3 DEF Shape, Busy
<1>4. ASSUME p.kind = "prep" PROVE Once(Starting(p)) /\ \A id : Once(Preparing(p, id))
  BY <1>1, <1>2, <1>4, EffectPage DEF Once, Starting, Preparing
<1>5. ASSUME p.kind = "detail" PROVE Once(Asking(p))
  BY <1>1, <1>3, <1>5, EffectPage DEF Once, Asking
<1> QED BY <1>4, <1>5

LEMMA PressBegins ==
  ASSUME Shape(page), NEW e \in Presses
  PROVE  \/ Idle(e) /\ (Busy(page) => Busy(e.page))
         \/ Once(e) /\ ~Busy(page)
<1>1. CASE Tame(e, page)
  BY <1>1, EffectIdle, TameBusy
<1>2. ASSUME NEW to, e = Goes(page, to) PROVE Idle(e) /\ e.page = page
  BY <1>2, EffectIdle, EffectPage
<1>3. CASE page.kind = "prep" /\ page.phase = "none" /\ e = Starting(page)
  BY <1>3, SendsOnce DEF Busy
<1>4. CASE page.kind = "detail" /\ ~page.starting /\ e = Asking(page)
  BY <1>4, SendsOnce DEF Busy
<1> QED BY <1>1, <1>2, <1>3, <1>4, PressEffects DEF Outset

LEMMA HandledBegins ==
  ASSUME NEW r, Shape(Asker(r)), NEW ok \in BOOLEAN, NEW denied
  PROVE  LET e == Handled(r, ok, denied) IN
         \/ Idle(e) /\ (r.op \in Starts \/ (Busy(Asker(r)) => Busy(e.page)))
         \/ Once(e) /\ r.op \in Starts
<1> DEFINE p == Asker(r)
           e == Handled(r, ok, denied)
<1>1. CASE Tame(e, p)
  BY <1>1, EffectIdle, TameBusy
<1>2. CASE p.kind = "prep" /\ r.op = "createInterview" /\ ok /\ e = Preparing(p, The(r.val.ids))
  BY <1>2, SendsOnce DEF Starts
<1>3. CASE p.kind = "prep" /\ r.op = "startInterview" /\ ok /\ e = Entering(p, The(r.ids))
  BY <1>3, EffectIdle DEF Starts, Entering
<1>4. CASE p.kind = "prep" /\ r.op \in Starts /\ ~ok /\ e = GivenUp(p)
  BY <1>4, EffectIdle DEF GivenUp
<1>5. CASE p.kind = "detail" /\ r.op = "startInterview" /\ ok /\ e = Outset(p)
  BY <1>5, EffectIdle DEF Starts, Outset
<1>6. CASE p.kind = "detail" /\ r.op = "startInterview" /\ ~ok /\ e = Unstarted(p)
  BY <1>6, EffectIdle DEF Starts, Unstarted
<1>7. CASE p.kind = "detail" /\ r.op = "getInterview" /\ e = DetailLoaded(p, r.val.status, ok)
  <2> DEFINE q == [p EXCEPT !.loading = FALSE, !.failed = ~ok, !.status = IF ok THEN r.val.status ELSE @]
  <2>1. Busy(q) <=> Busy(p)
    BY <1>7 DEF Shape, Busy
  <2> HIDE DEF q
  <2>2. e = Shows(q)
    BY <1>7 DEF DetailLoaded, q
  <2> QED BY <2>1, <2>2, EffectIdle, EffectPage
<1> QED BY <1>1, <1>2, <1>3, <1>4, <1>5, <1>6, <1>7, HandledEffects

\* Requests of a new page, of none, and what nobody waits for, begin nothing.
LEMMA NewBegins ==
  ASSUME NEW reqs, IsSeq(reqs), NEW l, NEW who, NEW mine \in BOOLEAN
  PROVE  LET s == Issued(reqs, l, who, mine) IN
         /\ NetOK(s)
         /\ (\A i \in DOMAIN reqs : reqs[i].op \notin Starts) => NoneBegins(s)
         /\ ~mine => NoneBegins(s)
         /\ (\E r : reqs = <<r>>) => OneBegins(s)
<1> DEFINE s == Issued(reqs, l, who, mine)
<1>1. /\ NetOK(s) /\ DOMAIN s = DOMAIN reqs
      /\ \A i \in DOMAIN s : s[i].op = reqs[i].op /\ s[i].mine = mine
  BY IssuedOK
<1> HIDE DEF s
<1>2. (\E r : reqs = <<r>>) => OneBegins(s)
  BY <1>1, ShortSeq DEF OneBegins
<1> QED BY <1>1, <1>2 DEF NoneBegins, Begins, s
LEMMA DisownedBegins ==
  ASSUME NEW s, NetOK(s) PROVE NetOK(Disowned(s)) /\ NoneBegins(Disowned(s))
<1>1. \A i \in DOMAIN s : [s[i] EXCEPT !.mine = FALSE].mine = FALSE
  BY DEF NetOK, Formed
<1>2. /\ NetOK(Disowned(s)) /\ DOMAIN Disowned(s) = DOMAIN s
      /\ \A i \in DOMAIN s : Disowned(s)[i] = [s[i] EXCEPT !.mine = FALSE]
  BY DisownedOK
<1>3. \A i \in DOMAIN s : Disowned(s)[i].mine = FALSE
  BY <1>1, <1>2
<1> QED BY <1>2, <1>3 DEF NoneBegins, Begins

LEMMA NoneIsOne == \A s : NoneBegins(s) => OneBegins(s)
  BY DEF NoneBegins, OneBegins

LEMMA BecomesBegins ==
  ASSUME NEW l, NEW e, NEW who, NEW mine \in BOOLEAN, NEW rest, Becomes(l, e, who, mine, rest),
         NetOK(rest), OneBegins(rest), IsSeq(e.send),
         ~mine => NoneBegins(rest) \/ Busy(page),
         mine => \/ Idle(e) /\ (NoneBegins(rest) \/ Busy(e.page))
                 \/ Once(e) /\ NoneBegins(rest)
  PROVE  OneInv'
<1> DEFINE to == Rendered(l, e)
           sent == Issued(e.send, l, who, mine /\ to = path)
           opened == Issued(ReadsUser(path, to) \o Loads(to), l, to, TRUE)
<1>1. CASE to = path
  <2>1. /\ net' = rest \o sent
        /\ mine => page' = e.page
        /\ ~mine => page' = page
    BY <1>1 DEF Becomes
  <2>2. /\ NetOK(sent)
        /\ ~mine => NoneBegins(sent)
        /\ Idle(e) => NoneBegins(sent)
        /\ Once(e) => OneBegins(sent)
    BY NewBegins DEF Idle, Once
  <2> HIDE DEF sent, to
  <2>3. CASE ~mine
    BY <2>1, <2>2, <2>3, BeginsConcat, NoneIsOne DEF OneInv, Busy
  <2>4. CASE mine /\ Idle(e) /\ (NoneBegins(rest) \/ Busy(e.page))
    BY <2>1, <2>2, <2>4, BeginsConcat, NoneIsOne DEF OneInv, Busy
  <2>5. CASE mine /\ Once(e) /\ NoneBegins(rest)
    BY <2>1, <2>2, <2>5, BeginsConcat DEF OneInv, Once, Busy
  <2> QED BY <2>3, <2>4, <2>5
<1>2. CASE to # path
  <2>1. net' = IF to.at = "wps" THEN <<>> ELSE Disowned(rest) \o sent \o opened
    BY <1>2 DEF Becomes
  <2>2. NetOK(sent) /\ NoneBegins(sent)
    BY <1>2, NewBegins
  <2>3. NetOK(opened) /\ NoneBegins(opened)
    BY LoadsOK, NewBegins
  <2> HIDE DEF sent, to, opened
  <2>4. NetOK(Disowned(rest) \o sent \o opened) /\ NoneBegins(Disowned(rest) \o sent \o opened)
    BY <2>2, <2>3, DisownedBegins, BeginsConcat
  <2>5. NetOK(<<>>) /\ NoneBegins(<<>>)
    BY ShortSeq DEF NetOK, NoneBegins
  <2>6. NetOK(net') /\ NoneBegins(net')
    BY <2>1, <2>4, <2>5
  <2> QED BY <2>6, NoneIsOne DEF OneInv, NetOK, IsSeq, Formed, NoneBegins, OneBegins, Begins
<1> QED BY <1>1, <1>2

\* What sends nothing and leaves the page as it is.
LEMMA GoesBegins ==
  ASSUME OneInv, NEW to, NEW l, NEW who, NEW mine \in BOOLEAN,
         Becomes(l, Goes(page, to), who, mine, net) \/ Becomes(l, Nothing(page), who, mine, net)
  PROVE  OneInv'
<1>1. /\ Goes(page, to).page = page /\ Idle(Goes(page, to))
      /\ Nothing(page).page = page /\ Idle(Nothing(page))
  BY EffectPage, EffectIdle DEF Nothing
<1>2. IsSeq(Goes(page, to).send) /\ IsSeq(Nothing(page).send)
  BY <1>1 DEF Idle
<1> QED BY <1>1, <1>2, BecomesBegins DEF OneInv

LEMMA UntouchedBegins == OneInv /\ UNCHANGED <<page, net>> => OneInv'
  BY DEF OneInv, NetOK, NoneBegins, OneBegins, Busy

\* An answer to the page, or the 20 seconds over; "f" may also lead to the login page.
LEMMA AnswerBegins ==
  ASSUME PageInv, OneInv, NEW k \in DOMAIN net, NEW ok \in BOOLEAN, NEW denied, NEW l, NEW f,
         NEW rest \in Left(k),
         f.page = Handled(net[k], ok, denied).page, f.send = Handled(net[k], ok, denied).send,
         Becomes(l, f, net[k].who, net[k].mine, rest)
  PROVE  OneInv'
<1> DEFINE r == net[k]
           e == Handled(r, ok, denied)
<1>1. r.mine \in BOOLEAN
  BY DEF OneInv, NetOK, Formed
<1>2. Shape(Asker(r)) /\ (r.mine => Asker(r) = page)
  BY AskerPage
<1>3. \/ Idle(e) /\ (r.op \in Starts \/ (Busy(Asker(r)) => Busy(e.page)))
      \/ Once(e) /\ r.op \in Starts
  BY <1>2, HandledBegins
<1>4. /\ NetOK(rest) /\ OneBegins(rest)
      /\ NoneBegins(net) \/ Begins(r) => NoneBegins(rest)
  BY BeginsLeft DEF OneInv
<1> HIDE DEF r, e
<1>5. IsSeq(f.send) /\ (Idle(f) <=> Idle(e)) /\ (Once(f) <=> Once(e)) /\ f.page = e.page
  BY <1>3, ShortSeq DEF Idle, Once, r, e
<1>6. r.mine => \/ Idle(f) /\ (NoneBegins(rest) \/ Busy(f.page))
                \/ Once(f) /\ NoneBegins(rest)
  BY <1>2, <1>3, <1>4, <1>5 DEF OneInv, Begins
<1>7. NoneBegins(rest) \/ Busy(page)
  BY <1>4 DEF OneInv
<1>8. Becomes(l, f, r.who, r.mine, rest)
  BY DEF r
<1> QED BY <1>1, <1>4, <1>5, <1>6, <1>7, <1>8, BecomesBegins

LEMMA DeliverBegins ==
  ASSUME PageInv, OneInv, NEW k \in DOMAIN net, Deliver(k) PROVE OneInv'
<1> DEFINE r == net[k]
<1>1. PICK a \in Answers(r) :
        IF a = "denied"
        THEN LET d == Denied(r)
                 e == Handled(r, FALSE, TRUE) IN
             Becomes(d.login, IF d.go = Stay THEN e ELSE [e EXCEPT !.go = d.go],
                     r.who, r.mine, RemoveAt(net, k)) /\ UNCHANGED live
        ELSE /\ Becomes(IF a = "ok" THEN LoginAfter(r) ELSE login, Handled(r, a = "ok", FALSE),
                        r.who, r.mine, RemoveAt(net, k))
             /\ live' = IF a = "ok" /\ r.op = "exchange" THEN live \cup {login'.token} ELSE live
  BY DEF Deliver
<1>2. RemoveAt(net, k) \in Left(k)
  BY DEF Left
<1>3. CASE a = "denied"
  <2> DEFINE e == Handled(r, FALSE, TRUE)
             to == Denied(r).go
             f == IF to = Stay THEN e ELSE [e EXCEPT !.go = to]
  <2>1. Becomes(Denied(r).login, f, r.who, r.mine, RemoveAt(net, k))
    BY <1>1, <1>3
  <2>2. IsEffect(e)
    BY HandledIsEffect
  <2> HIDE DEF e
  <2>3. f.page = e.page /\ f.send = e.send
    BY <2>2 DEF IsEffect
  <2> HIDE DEF f
  <2> QED BY <1>2, <2>1, <2>3, AnswerBegins DEF e
<1>4. CASE a # "denied"
  <2> DEFINE ok == a = "ok"
             l == IF ok THEN LoginAfter(r) ELSE login
  <2>1. Becomes(l, Handled(r, ok, FALSE), r.who, r.mine, RemoveAt(net, k))
    BY <1>1, <1>4
  <2>2. ok \in BOOLEAN
    OBVIOUS
  <2> HIDE DEF ok, l
  <2> QED BY <1>2, <2>1, <2>2, AnswerBegins
<1> QED BY <1>3, <1>4

LEMMA TimesOutBegins ==
  ASSUME PageInv, OneInv, NEW k \in DOMAIN net, TimesOut(k) PROVE OneInv'
<1> DEFINE r == net[k]
           rest == IF r.at = "sent" /\ r.op \in Writes
                   THEN [net EXCEPT ![k].at = "late", ![k].mine = FALSE] ELSE RemoveAt(net, k)
<1>1. Becomes(login, Handled(r, FALSE, FALSE), r.who, r.mine, rest)
  BY DEF TimesOut
<1>2. rest \in Left(k)
  BY DEF Left
<1> HIDE DEF rest
<1> QED BY <1>1, <1>2, AnswerBegins

LEMMA ServeBegins ==
  ASSUME OneInv, NEW k \in DOMAIN net, Serve(k) PROVE OneInv'
<1>1. page' = page
  BY DEF Serve
<1>2. net' = RemoveAt(net, k) \/ \E x, y : net' = [net EXCEPT ![k].at = x, ![k].val = y]
  BY DEF Serve
<1>3. CASE net' = RemoveAt(net, k)
  <2> DEFINE q == RemoveAt(net, k)
  <2>1. NetOK(q) /\ OneBegins(q) /\ (NoneBegins(net) => NoneBegins(q))
    BY BeginsRemove DEF OneInv
  <2> HIDE DEF q
  <2> QED BY <1>1, <1>3, <2>1 DEF OneInv, NetOK, IsSeq, OneBegins, NoneBegins, Busy, Begins, Formed, q
<1>4. ASSUME NEW x, NEW y, net' = [net EXCEPT ![k].at = x, ![k].val = y] PROVE OneInv'
  <2> DEFINE q == [net EXCEPT ![k].at = x, ![k].val = y]
  <2>1. /\ DOMAIN q = DOMAIN net /\ q = [i \in DOMAIN net |-> q[i]]
        /\ \A i \in DOMAIN q : Formed(q[i]) /\ q[i].mine = net[i].mine /\ q[i].op = net[i].op
    BY DEF OneInv, NetOK, Formed
  <2> HIDE DEF q
  <2>2. NetOK(q)
    BY <2>1, MadeSeq DEF OneInv, NetOK
  <2>3. OneBegins(q) /\ (NoneBegins(net) => NoneBegins(q))
    BY <2>1 DEF OneInv, OneBegins, NoneBegins, Begins
  <2>4. net' = q
    BY <1>4 DEF q
  <2> QED BY <1>1, <2>2, <2>3, <2>4 DEF OneInv, NetOK, IsSeq, OneBegins, NoneBegins, Busy, Begins, Formed
<1> QED BY <1>2, <1>3, <1>4

LEMMA ReturnBegins ==
  ASSUME OneInv, WpsReturns PROVE OneInv'
<1>1. PICK ok \in BOOLEAN :
        LET e == LoginReturned(ok)
            l == [login EXCEPT !.user = IF login.token = 0 THEN 0 ELSE @]
            at == Route("login", 0)
            to == Landing(l, at) IN
        net' = Issued(e.send, l, at, to = at)
               \o IF to = at THEN <<>> ELSE Issued(ReadsUser(at, to) \o Loads(to), l, to, TRUE)
  BY DEF WpsReturns
<1> DEFINE e == LoginReturned(ok)
           l == [login EXCEPT !.user = IF login.token = 0 THEN 0 ELSE @]
           at == Route("login", 0)
           to == Landing(l, at)
           sent == Issued(e.send, l, at, to = at)
           opened == IF to = at THEN <<>> ELSE Issued(ReadsUser(at, to) \o Loads(to), l, to, TRUE)
<1>2. e.send = <<>> \/ e.send = <<Req("exchange", {})>>
  BY DEF LoginReturned, Sends, Asks, Shows
<1>3. IsSeq(e.send) /\ \A i \in DOMAIN e.send : e.send[i].op \notin Starts
  <2>1. CASE e.send = <<>>
    BY <2>1, ShortSeq
  <2>2. CASE e.send = <<Req("exchange", {})>>
    <3>1. IsSeq(<<Req("exchange", {})>>) /\ \A i \in DOMAIN <<Req("exchange", {})>> :
            <<Req("exchange", {})>>[i] = Req("exchange", {})
      BY ShortSeq
    <3>2. Req("exchange", {}).op \notin Starts
      BY DEF Req, Starts
    <3> HIDE DEF e
    <3> QED BY <2>2, <3>1, <3>2
  <2> HIDE DEF e
  <2> QED BY <1>2, <2>1, <2>2
<1>4. NetOK(sent) /\ NoneBegins(sent)
  BY <1>3, NewBegins
<1>5. NetOK(opened) /\ NoneBegins(opened)
  <2>1. NetOK(<<>>) /\ NoneBegins(<<>>)
    BY ShortSeq DEF NetOK, NoneBegins
  <2> QED BY <2>1, LoadsOK, NewBegins
<1>6. net' = sent \o opened
  BY <1>1
<1> HIDE DEF sent, opened
<1>7. NetOK(net') /\ NoneBegins(net')
  BY <1>4, <1>5, <1>6, BeginsConcat
<1> QED BY <1>7 DEF OneInv, NetOK, IsSeq, Formed, NoneBegins, OneBegins, Begins

LEMMA InitBegins == Init => OneInv
<1> SUFFICES ASSUME Init PROVE OneInv
  OBVIOUS
<1>1. PICK s \in Scenarios :
        net = Issued(ReadsUser(Route("wps", 0), s.at) \o Loads(s.at), As(1), s.at, TRUE)
  BY DEF Init
<1>2. NetOK(net) /\ NoneBegins(net)
  BY <1>1, LoadsOK, NewBegins
<1> QED BY <1>2, NoneIsOne DEF OneInv

LEMMA NextBegins == PageInv /\ OneInv /\ [Next]_vars => OneInv'
<1> SUFFICES ASSUME PageInv, OneInv, [Next]_vars PROVE OneInv'
  OBVIOUS
<1>1. CASE Press
  <2>1. PICK e \in Presses : Becomes(login, e, path, TRUE, net)
    BY <1>1 DEF Press
  <2>2. \/ Idle(e) /\ (Busy(page) => Busy(e.page))
        \/ Once(e) /\ ~Busy(page)
    BY PressBegins DEF PageInv
  <2>3. IsSeq(e.send)
    BY <2>2, ShortSeq DEF Idle, Once
  <2> QED BY <2>1, <2>2, <2>3, BecomesBegins DEF OneInv
<1>2. CASE Navigate
  BY <1>2, GoesBegins DEF Navigate
<1>3. CASE HandleLogout
  BY <1>3, GoesBegins DEF HandleLogout
<1>4. CASE EnterApp
  BY <1>4, GoesBegins DEF EnterApp
<1>5. CASE WpsReturns
  BY <1>5, ReturnBegins
<1>6. CASE \E k \in DOMAIN net : Serve(k) \/ Deliver(k) \/ TimesOut(k)
  BY <1>6, ServeBegins, DeliverBegins, TimesOutBegins
<1>7. CASE PollTick
  <2>1. Becomes(login, Poll(page), path, TRUE, net)
    BY <1>7 DEF PollTick
  <2>2. Tame(Poll(page), page)
    BY ReportTame
  <2>3. Idle(Poll(page)) /\ (Busy(page) <=> Busy(Poll(page).page))
    BY <2>2, EffectIdle, TameBusy DEF PageInv
  <2>4. IsSeq(Poll(page).send)
    BY <2>3 DEF Idle
  <2> QED BY <2>1, <2>3, <2>4, BecomesBegins DEF OneInv
<1>8. CASE Expire \/ RoomBegins \/ ServerEvaluates
  BY <1>8, UntouchedBegins DEF Expire, RoomBegins, ServerEvaluates
<1>9. CASE RoomOver
  BY <1>9, GoesBegins DEF RoomOver
<1>10. CASE UNCHANGED vars
  BY <1>10, UntouchedBegins DEF vars
<1> QED BY <1>1, <1>2, <1>3, <1>4, <1>5, <1>6, <1>7, <1>8, <1>9, <1>10 DEF Next

LEMMA OneIsOneStart == OneInv => OneStart
<1> SUFFICES ASSUME OneInv PROVE OneStart
  OBVIOUS
<1> DEFINE T == {k \in DOMAIN net :
                   net[k].mine /\ net[k].op \in {"createInterview", "startInterview"}}
<1>1. \A j, k \in T : j = k
  BY DEF OneInv, OneBegins, Begins, Starts
<1>2. Cardinality(T) <= 1
  <2>1. CASE T = {}
    BY <2>1, FS_EmptySet
  <2>2. CASE T # {}
    <3>1. PICK k : T = {k}
      BY <1>1, <2>2
    <3> QED BY <3>1, FS_Singleton
  <2> QED BY <2>1, <2>2
<1> QED BY <1>2 DEF OneStart

\* CreateInterviewPage.tsx:495-540, InterviewDetailPage.tsx:82-100. The buttons of a page
\* that is busy are disabled, and it is busy until its one request has been answered:
\* no page has two requests under way that create or start a session.
THEOREM OneStartAtOnce == Spec => []OneStart
  BY InitPage, NextPage, InitBegins, NextBegins, OneIsOneStart, PTL DEF Spec

-----------------------------------------------------------------------------
(* What the server does with sessions, and what the answers say of them. *)

Begun(d, s) == s \in Sessions /\ d.status[s] \notin {"none", "draft"}
KnowsSessions(d) == "status" \in DOMAIN d /\ DOMAIN d.status = Sessions
Grown(d, new) == KnowsSessions(new) /\ \A s : Begun(d, s) => Begun(new, s)

\* A request about a session is about one there is, and its answer says what is so.
Truthful(r, d) ==
  /\ r.op = "getInterview" =>
       /\ r.ids = {r.who.id} /\ r.who.id \in Sessions
       /\ r.at = "ok" /\ r.val.status \in {"ready", "in_progress"} => Begun(d, r.who.id)
  /\ r.op = "createInterview" /\ r.at = "ok" => \E s \in Sessions : r.val.ids = {s}
  /\ r.op = "startInterview" =>
       \E s \in Sessions : /\ r.ids = {s} /\ (r.who.at = "detail" => r.who.id = s)
                           /\ r.at = "ok" => Begun(d, s)
\* A page about a session shows the one of its route, and never one too far advanced.
PageReady(p, at, d) ==
  /\ at.at \in {"detail", "room"} => at.id \in Sessions /\ p.id = at.id
  /\ at.at = "detail" /\ p.status \in {"ready", "in_progress"} => Begun(d, at.id)
  /\ at.at = "room" => Begun(d, at.id)
\* All requests of a queue are true of what is stored, and wait for the page at "at".
QueueOK(s, at, d) == NetOK(s) /\ \A r \in Range(s) : Truthful(r, d) /\ (r.mine => r.who = at)
RoomInv == KnowsSessions(db) /\ PageReady(page, path, db) /\ QueueOK(net, path, db)

LEMMA NextIsOne ==
  ASSUME NEW S, S \subseteq Nat, S # {} PROVE Next1(S) \in S
<1> DEFINE R == OpToRel(<, Nat)
<1>1. \A x, y \in Nat : <<y, x>> \in R <=> y < x
  BY DEF OpToRel
<1>2. IsWellFoundedOn(R, Nat)
  BY NatLessThanWellFounded
<1> HIDE DEF R
<1>3. PICK x \in S : \A y \in S : ~(<<y, x>> \in R)
  BY <1>2, WFMin
<1>4. ASSUME NEW y \in S PROVE x <= y
  <2>1. x \in Nat /\ y \in Nat
    OBVIOUS
  <2>2. ~(y < x)
    BY <1>1, <1>3, <2>1
  <2> QED BY <2>1, <2>2
<1>5. \E q \in S : \A r \in S : q <= r
  BY <1>3, <1>4
<1> QED BY <1>5, Zenon DEF Next1

LEMMA TheOne == \A x : The({x}) = x
  BY DEF The

LEMMA BegunGrows ==
  ASSUME NEW d, KnowsSessions(d)
  PROVE  /\ Grown(d, d)
         /\ \A x : /\ Grown(d, [d EXCEPT !.report = x]) /\ Grown(d, [d EXCEPT !.bank = x])
                   /\ Grown(d, [d EXCEPT !.resumes = x]) /\ Grown(d, [d EXCEPT !.jobs = x])
         /\ \A s, x : x \in {"ready", "in_progress", "completed"} \/ d.status[s] = "none" =>
                        Grown(d, [d EXCEPT !.status[s] = x])
<1>1. \A x : /\ Grown(d, [d EXCEPT !.report = x]) /\ Grown(d, [d EXCEPT !.bank = x])
             /\ Grown(d, [d EXCEPT !.resumes = x]) /\ Grown(d, [d EXCEPT !.jobs = x])
  BY DEF Grown, KnowsSessions, Begun
<1>2. ASSUME NEW s, NEW x, x \in {"ready", "in_progress", "completed"} \/ d.status[s] = "none"
      PROVE  Grown(d, [d EXCEPT !.status[s] = x])
  BY <1>2 DEF Grown, KnowsSessions, Begun
<1>3. Grown(d, d)
  BY DEF Grown
<1> QED BY <1>1, <1>2, <1>3

LEMMA TruthGrows ==
  ASSUME NEW r, NEW d, NEW new, Truthful(r, d), Grown(d, new) PROVE Truthful(r, new)
  BY DEF Truthful, Grown
LEMMA ReadyGrows ==
  ASSUME NEW p, NEW at, NEW d, NEW new, PageReady(p, at, d), Grown(d, new)
  PROVE  PageReady(p, at, new)
  BY DEF PageReady, Grown

\* What is stored of sessions after a request, and what the answer says of them.
LEMMA SessionsServed ==
  ASSUME NEW d, KnowsSessions(d), NEW ids, NEW s, NEW o
  PROVE  /\ o \in CreateInterview(d, ids) =>
              Grown(d, o.db) /\ (o.at = "ok" => \E x \in Sessions : o.val.ids = {x})
         /\ o \in StartInterview(d, s) =>
              Grown(d, o.db) /\ (o.at = "ok" /\ s \in Sessions => Begun(o.db, s))
         /\ o \in SessionOf(d, s) =>
              /\ o.db = d
              /\ o.at = "ok" /\ s \in Sessions /\ o.val.status \in {"ready", "in_progress"} =>
                   Begun(d, s)
<1>1. ASSUME o \in CreateInterview(d, ids)
      PROVE  Grown(d, o.db) /\ (o.at = "ok" => \E x \in Sessions : o.val.ids = {x})
  <2> DEFINE new == {x \in Sessions : d.status[x] = "none"}
             x0 == Next1(new)
  <2>1. CASE o \in Fails(d)
    BY <2>1, BegunGrows DEF Fails
  <2>2. CASE new # {} /\ o \in Brings(Ids({x0}),
               [d EXCEPT !.status[x0] = IF ids = {} THEN "draft" ELSE "ready"])
    <3>1. x0 \in new
      BY <2>2, NextIsOne, PagesAssumption
    <3> HIDE DEF x0
    <3>2. o.val.ids = {x0} /\ o.db = [d EXCEPT !.status[x0] = IF ids = {} THEN "draft" ELSE "ready"]
      BY <2>2 DEF Brings, Ids, NoValue
    <3> QED BY <3>1, <3>2, BegunGrows
  <2> QED BY <1>1, <2>1, <2>2 DEF CreateInterview, ButOnlyIf
<1>2. ASSUME o \in StartInterview(d, s)
      PROVE  Grown(d, o.db) /\ (o.at = "ok" /\ s \in Sessions => Begun(o.db, s))
  <2>1. CASE o \in Fails(d)
    BY <2>1, BegunGrows DEF Fails
  <2>2. CASE o \in Does([d EXCEPT !.status[s] = "ready"])
    <3>1. o.db = [d EXCEPT !.status[s] = "ready"]
      BY <2>2 DEF Does, Brings
    <3> QED BY <3>1, BegunGrows DEF KnowsSessions, Begun
  <2> QED BY <1>2, <2>1, <2>2 DEF StartInterview, ButOnlyIf
<1>3. ASSUME o \in SessionOf(d, s)
      PROVE  /\ o.db = d
             /\ o.at = "ok" /\ s \in Sessions /\ o.val.status \in {"ready", "in_progress"} =>
                  Begun(d, s)
  BY <1>3 DEF SessionOf, ButOnlyIf, Fails, Brings, NoValue, Begun
<1> QED BY <1>1, <1>2, <1>3

\* Nothing else that the server does changes what is stored of sessions.
LEMMA OthersServed ==
  ASSUME NEW d, KnowsSessions(d), NEW r, NEW o \in Outcomes(d, r),
         r.op \notin {"createInterview", "startInterview", "getInterview"}
  PROVE  Grown(d, o.db)
<1> DEFINE Still(n) == "status" \in DOMAIN n /\ n.status = d.status
<1>1. \A n : Still(n) => Grown(d, n)
  BY DEF Grown, KnowsSessions, Begun
<1>2. /\ Still(d)
      /\ \A x : /\ Still([d EXCEPT !.report = x]) /\ Still([d EXCEPT !.bank = x])
                /\ Still([d EXCEPT !.resumes = x]) /\ Still([d EXCEPT !.jobs = x])
  BY DEF KnowsSessions
<1>3. /\ \A v, n : o \in Brings(v, n) => o.db = n
      /\ \A n : o \in Does(n) => o.db = n
      /\ o \in Fails(d) => o.db = d
  BY DEF Brings, Does, Fails
<1> HIDE DEF Still
<1>4. CASE r.op \in {"listQuestions", "listResumes", "listJobs", "listInterviews"}
  <2>1. o.db = d
    BY <1>3, <1>4 DEF Outcomes
  <2> QED BY <1>1, <1>2, <2>1
<1>5. CASE r.op \in {"getReport", "pollReport", "renameResume", "updateJob"}
  <2>1. o.db = d
    BY <1>3, <1>5 DEF Outcomes, ReportOf, RenameResume, UpdateJob, ButOnlyIf
  <2> QED BY <1>1, <1>2, <2>1
<1>6. ASSUME NEW ids, o \in ImportConfirmed(d, ids) PROVE Still(o.db)
  <2>1. o.db = [d EXCEPT !.bank = [q \in Questions |-> IF q \in ids /\ @[q] = 0 THEN 1 ELSE @[q]]]
    BY <1>3, <1>6 DEF ImportConfirmed
  <2> QED BY <1>2, <2>1
<1>7. CASE r.op = "confirmImport"
  BY <1>1, <1>6, <1>7 DEF Outcomes
<1>8. CASE r.op = "importSession"
  <2>1. o \in Fails(d) \/ \E ids : o \in ImportConfirmed(d, ids)
    BY <1>8 DEF Outcomes, ImportFromSession
  <2>2. o \in Fails(d) => o.db = d
    BY <1>3
  <2> QED BY <1>1, <1>2, <1>6, <2>1, <2>2
<1>9. CASE r.op = "deleteQuestions"
  <2>1. o.db = d
        \/ o.db = [d EXCEPT !.bank = [q \in Questions |-> IF q \in r.ids THEN 0 ELSE @[q]]]
    BY <1>3, <1>9 DEF Outcomes, DeleteQuestions, ButOnlyIf
  <2> QED BY <1>1, <1>2, <2>1
<1>10. CASE r.op = "patch"
  <2>1. o.db = d \/ o.db = [d EXCEPT !.bank[Next1(r.ids)] = r.to]
    BY <1>3, <1>10 DEF Outcomes, Patch, ButOnlyIf
  <2> QED BY <1>1, <1>2, <2>1
<1>11. CASE r.op \in {"uploadResume", "deleteResume"}
  <2> DEFINE f == The(r.ids)
  <2>1. o.db = d \/ o.db = [d EXCEPT !.resumes = @ \cup {f}] \/ o.db = [d EXCEPT !.resumes = @ \ {f}]
    BY <1>3, <1>11 DEF Outcomes, UploadResume, DeleteResume, ButOnlyIf
  <2> QED BY <1>1, <1>2, <2>1
<1>12. CASE r.op \in {"createJob", "deleteJob"}
  <2> DEFINE j == The(r.ids)
             new == Next1(Jobs \ d.jobs)
  <2>1. o.db = d \/ o.db = [d EXCEPT !.jobs = @ \cup {new}] \/ o.db = [d EXCEPT !.jobs = @ \ {j}]
    BY <1>3, <1>12 DEF Outcomes, CreateJob, DeleteJob, ButOnlyIf
  <2> QED BY <1>1, <1>2, <2>1
<1>13. ASSUME o \in RetryReport(d, The(r.ids)) PROVE Still(o.db)
  <2> DEFINE s == The(r.ids)
  <2>1. o.db = d \/ o.db = [d EXCEPT !.report[s] = "done"]
        \/ o.db = [d EXCEPT !.report[s] = IF @ = "done" THEN @ ELSE "failed"]
    BY <1>3, <1>13 DEF RetryReport, ButOnlyIf
  <2> QED BY <1>2, <2>1
<1> QED BY <1>1, <1>4, <1>5, <1>7, <1>8, <1>9, <1>10, <1>11, <1>12, <1>13 DEF Outcomes

\* A request that is served: what is stored has grown, and the answer is true of it.
LEMMA ServedTruthfully ==
  ASSUME NEW d, KnowsSessions(d), NEW r, Formed(r), Truthful(r, d),
         NEW o \in Outcomes(d, r) \cup Fails(d) \cup {[at |-> "denied", val |-> NoValue, db |-> d]}
  PROVE  Grown(d, o.db) /\ Truthful([r EXCEPT !.at = o.at, !.val = o.val], o.db)
<1> DEFINE q == [r EXCEPT !.at = o.at, !.val = o.val]
<1>1. q.op = r.op /\ q.ids = r.ids /\ q.who = r.who /\ q.at = o.at /\ q.val = o.val
  BY DEF Formed
<1> HIDE DEF q
<1>2. CASE o \in Fails(d) \cup {[at |-> "denied", val |-> NoValue, db |-> d]}
  <2>1. o.at # "ok" /\ o.db = d
    BY <1>2 DEF Fails
  <2> QED BY <1>1, <2>1, BegunGrows DEF Truthful, q
<1>3. CASE o \in Outcomes(d, r) /\ r.op = "createInterview"
  <2>1. o \in CreateInterview(d, r.ids)
    BY <1>3 DEF Outcomes
  <2> QED BY <1>1, <1>3, <2>1, SessionsServed DEF Truthful, q
<1>4. CASE o \in Outcomes(d, r) /\ r.op = "startInterview"
  <2>1. PICK s \in Sessions : r.ids = {s} /\ (r.who.at = "detail" => r.who.id = s)
    BY <1>4 DEF Truthful
  <2>2. o \in StartInterview(d, s)
    BY <1>4, <2>1, TheOne DEF Outcomes
  <2>3. Grown(d, o.db) /\ (o.at = "ok" => Begun(o.db, s))
    BY <2>2, SessionsServed
  <2> QED BY <1>1, <1>4, <2>1, <2>3 DEF Truthful, q
<1>5. CASE o \in Outcomes(d, r) /\ r.op = "getInterview"
  <2>1. r.ids = {r.who.id} /\ r.who.id \in Sessions
    BY <1>5 DEF Truthful
  <2>2. o \in SessionOf(d, r.who.id)
    BY <1>5, <2>1, TheOne DEF Outcomes
  <2> QED BY <1>1, <1>5, <2>1, <2>2, SessionsServed, BegunGrows DEF Truthful, q
<1>6. CASE o \in Outcomes(d, r) /\ r.op \notin {"createInterview", "startInterview", "getInterview"}
  BY <1>1, <1>6, OthersServed DEF Truthful, q
<1> QED BY <1>2, <1>3, <1>4, <1>5, <1>6

\* A handler on a page at "who" leads to a room only of a session that has begun.
Leads(e, d) ==
  /\ e.go.at \in {"detail", "room"} => e.go.id \in Sessions
  /\ e.go.at = "room" => Begun(d, e.go.id)
AsksRightly(e, who) ==
  /\ IsSeq(e.send)
  /\ \A i \in DOMAIN e.send :
       /\ e.send[i].op # "getInterview"
       /\ e.send[i].op = "startInterview" =>
            \E s \in Sessions : e.send[i].ids = {s} /\ (who.at = "detail" => who.id = s)

LEMMA SentRightly ==
  ASSUME NEW who
  PROVE  /\ \A q : AsksRightly(Shows(q), who) /\ \A to : AsksRightly(Goes(q, to), who)
         /\ \A e, p : Tame(e, p) => AsksRightly(e, who)
         /\ \A q, ids : AsksRightly(Sends(q, "createInterview", ids), who)
         /\ \A q, s : s \in Sessions /\ (who.at = "detail" => who.id = s) =>
                        AsksRightly(Sends(q, "startInterview", {s}), who)
<1>1. ASSUME NEW q PROVE AsksRightly(Shows(q), who) /\ \A to : AsksRightly(Goes(q, to), who)
  BY ShortSeq DEF AsksRightly, Shows, Goes
<1>2. ASSUME NEW e, e.send = <<>> PROVE AsksRightly(e, who)
  BY <1>2, ShortSeq DEF AsksRightly
<1>3. ASSUME NEW e, NEW r, e.send = <<r>>, r.op # "getInterview",
             r.op = "startInterview" =>
               \E s \in Sessions : r.ids = {s} /\ (who.at = "detail" => who.id = s)
      PROVE  AsksRightly(e, who)
  BY <1>3, ShortSeq DEF AsksRightly
<1>4. ASSUME NEW e, NEW p, Tame(e, p) PROVE AsksRightly(e, who)
  BY <1>2, <1>3, <1>4 DEF Tame, Calm, Key, Starts
<1>5. ASSUME NEW q, NEW op, NEW ids
      PROVE  /\ Sends(q, op, ids).send = <<Req(op, ids)>>
             /\ Req(op, ids).op = op /\ Req(op, ids).ids = ids
  BY DEF Sends, Asks, Req
<1>6. \A q, ids : AsksRightly(Sends(q, "createInterview", ids), who)
  BY <1>3, <1>5
<1>7. \A q, s : s \in Sessions /\ (who.at = "detail" => who.id = s) =>
                  AsksRightly(Sends(q, "startInterview", {s}), who)
  BY <1>3, <1>5
<1> QED BY <1>1, <1>4, <1>6, <1>7

-----------------------------------------------------------------------------
(* The room is entered when it is ready. *)

Staying(l, e) == Rendered(l, e) = path

\* The page a handler leaves behind is about the session of the route.
LEMMA TameReady ==
  ASSUME NEW p, Shape(p), NEW e, Tame(e, p), NEW at, p.kind = at.at, NEW d, PageReady(p, at, d)
  PROVE  PageReady(e.page, at, d)
<1>1. /\ p.kind \in {"detail", "room"} => e.page.id = p.id
      /\ p.kind = "detail" => e.page.status = p.status
  BY DEF Tame, Same, Core, Shape
<1> QED BY <1>1 DEF PageReady

LEMMA TameLeads == \A e, p, d : Tame(e, p) => Leads(e, d)
  BY DEF Tame, Calm, Leads

LEMMA PressReady ==
  ASSUME PageInv, RoomInv, NEW e \in Presses
  PROVE  Leads(e, db) /\ AsksRightly(e, path) /\ PageReady(e.page, path, db)
<1>1. Shape(page) /\ page.kind = path.at /\ PageReady(page, path, db)
  BY DEF PageInv, RoomInv
<1>2. CASE Tame(e, page)
  BY <1>1, <1>2, TameLeads, TameReady, SentRightly
<1>3. CASE page.kind = "prep" /\ page.phase = "none" /\ e = Starting(page)
  <2>1. AsksRightly(e, path)
    BY <1>3, SentRightly DEF Starting
  <2>2. Leads(e, db)
    BY <1>3 DEF Starting, Sends, Asks, Stay, Route, Leads
  <2> QED BY <1>1, <1>3, <2>1, <2>2 DEF PageReady
<1>4. CASE page.kind = "detail" /\ page.status \in {"ready", "in_progress"} /\ e = Outset(page)
  <2>1. AsksRightly(e, path) /\ e.page = page
    BY <1>4, SentRightly, EffectPage DEF Outset
  <2>2. e.go.at = "room" /\ e.go.id = page.id
    BY <1>4 DEF Outset, Goes, Route
  <2> QED BY <1>1, <1>4, <2>1, <2>2 DEF PageReady, Leads
<1>5. CASE page.kind = "detail" /\ ~page.starting /\ e = Asking(page)
  <2>1. AsksRightly(e, path)
    BY <1>1, <1>5, SentRightly DEF Asking, PageReady
  <2>2. Leads(e, db) /\ e.page = [page EXCEPT !.starting = TRUE]
    BY <1>5 DEF Asking, Sends, Asks, Stay, Route, Leads
  <2>3. e.page.id = page.id /\ e.page.status = page.status
    BY <1>1, <1>5, <2>2 DEF Shape
  <2> QED BY <1>1, <1>5, <2>1, <2>2, <2>3 DEF PageReady
<1>6. CASE page.kind = "room" /\ e = Goes(page, Route("detail", page.id))
  <2>1. AsksRightly(e, path) /\ e.page = page
    BY <1>6, SentRightly, EffectPage
  <2>2. e.go.at = "detail" /\ e.go.id = page.id
    BY <1>6 DEF Goes, Route
  <2> QED BY <1>1, <1>6, <2>1, <2>2 DEF PageReady, Leads
<1> QED BY <1>2, <1>3, <1>4, <1>5, <1>6, PressEffects

\* The page that asked is the one of the route, shown still or opened anew.
LEMMA AskerReady ==
  ASSUME PageInv, NEW r, r.mine => r.who = path
  PROVE  Asker(r).kind = r.who.at
<1>1. CASE r.mine
  BY <1>1 DEF PageInv, Asker
<1>2. CASE ~r.mine
  BY <1>2, OpenedShape DEF Asker
<1> QED BY <1>1, <1>2

LEMMA HandledReady ==
  ASSUME PageInv, RoomInv, NEW r, Truthful(r, db), r.mine => r.who = path,
         NEW ok \in BOOLEAN, NEW denied,
         ok /\ r.op \in Key => r.at = "ok"
  PROVE  LET e == Handled(r, ok, denied) IN
         /\ Leads(e, db) /\ AsksRightly(e, r.who)
         /\ r.mine => PageReady(e.page, path, db)
<1> DEFINE p == Asker(r)
           e == Handled(r, ok, denied)
<1>1. /\ Shape(p) /\ p.kind = r.who.at
      /\ r.mine => p = page /\ r.who = path
      /\ r.mine => PageReady(p, path, db)
  BY AskerPage, AskerReady DEF RoomInv
<1>2. r.who.at \in {"detail"} => \/ r.mine /\ p.id = path.id
                                 \/ p.id = r.who.id
  <2>1. CASE r.mine
    BY <1>1, <2>1 DEF PageReady
  <2>2. CASE ~r.mine
    BY <2>2 DEF Asker, OpenedPage, DetailOpened
  <2> QED BY <2>1, <2>2
<1> HIDE DEF p, e
<1>3. CASE Tame(e, p)
  BY <1>1, <1>3, TameLeads, TameReady, SentRightly DEF e
<1>4. CASE p.kind = "prep" /\ r.op = "createInterview" /\ ok /\ e = Preparing(p, The(r.val.ids))
  <2>1. PICK s \in Sessions : The(r.val.ids) = s
    BY <1>4, TheOne DEF Truthful, Key, Starts
  <2>2. AsksRightly(e, r.who)
    BY <1>1, <1>4, <2>1, SentRightly DEF Preparing
  <2>3. Leads(e, db)
    BY <1>4 DEF Preparing, Sends, Asks, Stay, Route, Leads
  <2> QED BY <1>1, <1>4, <2>2, <2>3 DEF PageReady, e
<1>5. CASE p.kind = "prep" /\ r.op = "startInterview" /\ ok /\ e = Entering(p, The(r.ids))
  <2>1. Begun(db, The(r.ids))
    <3>1. PICK s \in Sessions : r.ids = {s} /\ Begun(db, s)
      BY <1>5 DEF Truthful, Key, Starts
    <3> QED BY <3>1, TheOne
  <2>2. AsksRightly(e, r.who)
    BY <1>5, SentRightly DEF Entering
  <2>3. e.go.at = "room" /\ e.go.id = The(r.ids)
    BY <1>5 DEF Entering, Goes, Route
  <2> QED BY <1>1, <1>5, <2>1, <2>2, <2>3 DEF PageReady, Leads, Begun, e
<1>6. CASE p.kind = "prep" /\ r.op \in Starts /\ ~ok /\ e = GivenUp(p)
  <2>1. AsksRightly(e, r.who)
    BY <1>6, SentRightly DEF GivenUp
  <2>2. Leads(e, db)
    BY <1>6 DEF GivenUp, Shows, Stay, Route, Leads
  <2> QED BY <1>1, <1>6, <2>1, <2>2 DEF PageReady, e
<1>7. CASE p.kind = "detail" /\ r.op = "startInterview" /\ ok /\ e = Outset(p)
  <2>1. Begun(db, r.who.id)
    BY <1>1, <1>7 DEF Truthful, Key, Starts
  <2>2. AsksRightly(e, r.who) /\ e.page = p
    BY <1>7, SentRightly, EffectPage DEF Outset
  <2>3. e.go.at = "room" /\ e.go.id = p.id
    BY <1>7 DEF Outset, Goes, Route
  <2> QED BY <1>1, <1>2, <1>7, <2>1, <2>2, <2>3 DEF Leads, Begun, e
<1>8. CASE p.kind = "detail" /\ r.op = "startInterview" /\ ~ok /\ e = Unstarted(p)
  <2>1. AsksRightly(e, r.who)
    BY <1>8, SentRightly DEF Unstarted
  <2>2. Leads(e, db) /\ e.page = [p EXCEPT !.starting = FALSE]
    BY <1>8 DEF Unstarted, Shows, Stay, Route, Leads
  <2>3. e.page.id = p.id /\ e.page.status = p.status
    BY <1>1, <1>8, <2>2 DEF Shape
  <2> QED BY <1>1, <1>8, <2>1, <2>2, <2>3 DEF PageReady, e
<1>9. CASE p.kind = "detail" /\ r.op = "getInterview" /\ e = DetailLoaded(p, r.val.status, ok)
  <2> DEFINE q == [p EXCEPT !.loading = FALSE, !.failed = ~ok, !.status = IF ok THEN r.val.status ELSE @]
  <2>1. e = Shows(q)
    BY <1>9 DEF DetailLoaded
  <2>2. q.id = p.id /\ q.status = IF ok THEN r.val.status ELSE p.status
    BY <1>1, <1>9 DEF Shape
  <2> HIDE DEF q
  <2>3. AsksRightly(e, r.who) /\ e.page = q
    BY <2>1, SentRightly, EffectPage
  <2>4. Leads(e, db)
    BY <2>1 DEF Shows, Stay, Route, Leads
  <2>5. ASSUME r.mine PROVE PageReady(q, path, db)
    <3>1. ok /\ r.val.status \in {"ready", "in_progress"} => Begun(db, path.id)
      BY <1>1, <1>9, <2>5 DEF Truthful, Key
    <3> QED BY <1>1, <1>9, <2>2, <2>5, <3>1 DEF PageReady
  <2> QED BY <2>3, <2>4, <2>5 DEF e
<1> QED BY <1>3, <1>4, <1>5, <1>6, <1>7, <1>8, <1>9, HandledEffects DEF p, e

LEMMA QueueConcat ==
  ASSUME NEW s, NEW t, NEW at, NEW d, QueueOK(s, at, d), QueueOK(t, at, d)
  PROVE  QueueOK(s \o t, at, d)
<1>1. NetOK(s \o t)
  BY BeginsConcat DEF QueueOK
<1>2. \A j \in DOMAIN (s \o t) : (s \o t)[j] \in Range(s) \cup Range(t)
  <2> DEFINE q == s \o t
  <2>1. \A j \in DOMAIN q :
          \/ j \in DOMAIN s /\ q[j] = s[j]
          \/ j - Len(s) \in DOMAIN t /\ q[j] = t[j - Len(s)]
    BY ConcatPlaces DEF QueueOK, NetOK
  <2> HIDE DEF q
  <2>2. \A j \in DOMAIN q : q[j] \in Range(s) \cup Range(t)
    BY <2>1 DEF Range
  <2> QED BY <2>2 DEF q
<1> QED BY <1>1, <1>2 DEF QueueOK, Range

LEMMA QueueDisowned ==
  ASSUME NEW s, NEW at, NEW d, QueueOK(s, at, d), NEW other PROVE QueueOK(Disowned(s), other, d)
<1>1. /\ NetOK(Disowned(s)) /\ DOMAIN Disowned(s) = DOMAIN s
      /\ \A i \in DOMAIN s : Disowned(s)[i] = [s[i] EXCEPT !.mine = FALSE]
  BY DisownedOK DEF QueueOK
<1>2. ASSUME NEW i \in DOMAIN s
      PROVE  ~Disowned(s)[i].mine /\ Truthful(Disowned(s)[i], d)
  <2>1. Formed(s[i]) /\ Truthful(s[i], d)
    BY DEF QueueOK, NetOK, Range
  <2> DEFINE q == [s[i] EXCEPT !.mine = FALSE]
  <2>2. /\ q.mine = FALSE /\ q.op = s[i].op /\ q.ids = s[i].ids /\ q.who = s[i].who
        /\ q.at = s[i].at /\ q.val = s[i].val
    BY <2>1 DEF Formed
  <2>3. Disowned(s)[i] = q
    BY <1>1
  <2> HIDE DEF q
  <2> QED BY <2>1, <2>2, <2>3 DEF Truthful
<1> QED BY <1>1, <1>2 DEF QueueOK, Range

\* Requests just sent by a handler of the page at "who".
LEMMA QueueIssued ==
  ASSUME NEW e, NEW who, AsksRightly(e, who), NEW l, NEW mine \in BOOLEAN, NEW at,
         mine => who = at, NEW d
  PROVE  QueueOK(Issued(e.send, l, who, mine), at, d)
<1> DEFINE s == Issued(e.send, l, who, mine)
<1>1. /\ NetOK(s) /\ DOMAIN s = DOMAIN e.send
      /\ \A i \in DOMAIN s : /\ s[i].op = e.send[i].op /\ s[i].ids = e.send[i].ids
                             /\ s[i].mine = mine /\ s[i].who = who /\ s[i].at = "sent"
  BY IssuedOK DEF AsksRightly
<1> HIDE DEF s
<1> QED BY <1>1 DEF QueueOK, Truthful, AsksRightly, Range, s
\* Requests of a page just opened.
LEMMA QueueOpened ==
  ASSUME NEW from, NEW to, to.at = "detail" => to.id \in Sessions, NEW l, NEW d,
         NEW mine \in BOOLEAN
  PROVE  QueueOK(Issued(ReadsUser(from, to) \o Loads(to), l, to, mine), to, d)
<1> DEFINE reqs == ReadsUser(from, to) \o Loads(to)
           s == Issued(reqs, l, to, mine)
<1>1. /\ IsSeq(reqs)
      /\ \A i \in DOMAIN reqs :
           /\ reqs[i].op \notin Starts
           /\ reqs[i].op = "getInterview" => to.at = "detail" /\ reqs[i].ids = {to.id}
  BY LoadsOK
<1> HIDE DEF reqs
<1>2. /\ NetOK(s) /\ DOMAIN s = DOMAIN reqs
      /\ \A i \in DOMAIN s : /\ s[i].op = reqs[i].op /\ s[i].ids = reqs[i].ids
                             /\ s[i].who = to /\ s[i].at = "sent"
  BY <1>1, IssuedOK
<1> HIDE DEF s
<1>3. QueueOK(s, to, d)
  BY <1>1, <1>2 DEF QueueOK, Truthful, Starts, Range
<1> QED BY <1>3 DEF s, reqs

LEMMA QueueGrows ==
  ASSUME NEW s, NEW at, NEW d, QueueOK(s, at, d), NEW new, Grown(d, new) PROVE QueueOK(s, at, new)
  BY TruthGrows DEF QueueOK

LEMMA QueueRemove ==
  ASSUME NEW s, NEW at, NEW d, QueueOK(s, at, d), NEW k \in DOMAIN s
  PROVE  QueueOK(RemoveAt(s, k), at, d)
<1>1. \A j \in DOMAIN RemoveAt(s, k) : RemoveAt(s, k)[j] \in Range(s)
  BY RemovePlaces DEF QueueOK, NetOK, Range
<1>2. NetOK(RemoveAt(s, k))
  BY <1>1, RemovePlaces DEF QueueOK, NetOK, Range
<1> QED BY <1>1, <1>2 DEF QueueOK, Range

\* One request changed where it stands.
LEMMA QueueChanged ==
  ASSUME NEW s, NEW at, NEW d, QueueOK(s, at, d), NEW k \in DOMAIN s, NEW r,
         Formed(r), Truthful(r, d), r.mine => r.who = at
  PROVE  QueueOK([s EXCEPT ![k] = r], at, d)
<1> DEFINE t == [s EXCEPT ![k] = r]
<1>1. /\ DOMAIN t = DOMAIN s /\ t = [i \in DOMAIN s |-> t[i]]
      /\ \A i \in DOMAIN t : t[i] = r \/ t[i] \in Range(s)
  BY DEF Range
<1> HIDE DEF t
<1>2. IsSeq(t)
  BY <1>1, MadeSeq DEF QueueOK, NetOK
<1>3. NetOK(t)
  BY <1>1, <1>2 DEF QueueOK, NetOK, Range
<1> QED BY <1>1, <1>3 DEF QueueOK, Range, t

LEMMA QueueLeft ==
  ASSUME QueueOK(net, path, db), NEW k \in DOMAIN net, NEW rest \in Left(k)
  PROVE  QueueOK(rest, path, db)
<1>1. CASE rest = RemoveAt(net, k)
  BY <1>1, QueueRemove
<1>2. CASE rest = [net EXCEPT ![k].at = "late", ![k].mine = FALSE]
  <2> DEFINE r == [net[k] EXCEPT !.at = "late", !.mine = FALSE]
  <2>1. Formed(net[k]) /\ Truthful(net[k], db)
    BY DEF QueueOK, NetOK, Range
  <2>2. /\ Formed(r) /\ r.mine = FALSE /\ r.op = net[k].op /\ r.ids = net[k].ids
        /\ r.who = net[k].who /\ r.at = "late"
    BY <2>1 DEF Formed
  <2>3. rest = [net EXCEPT ![k] = r]
    BY <1>2
  <2> HIDE DEF r
  <2>4. Truthful(r, db)
    BY <2>1, <2>2 DEF Truthful
  <2> QED BY <2>2, <2>3, <2>4, QueueChanged
<1> QED BY <1>1, <1>2 DEF Left

LEMMA RoomPrimed ==
  ASSUME KnowsSessions(db'), PageReady(page', path', db'), QueueOK(net', path', db') PROVE RoomInv'
  BY DEF RoomInv, KnowsSessions, PageReady, QueueOK, NetOK, IsSeq, Formed, Truthful, Begun, Range

LEMMA RenderedTo ==
  ASSUME NEW l, NEW e
  PROVE  LET to == Rendered(l, e) IN
         to = path \/ to = e.go \/ to.at \in {"login", "hub"}
<1>1. \A at : Landing(l, at) = at \/ Landing(l, at).at \in {"login", "hub"}
  BY DEF Landing, Route
<1> QED BY <1>1 DEF Rendered

LEMMA OpenedReady ==
  ASSUME NEW to, NEW d, to.at \in {"detail", "room"} => to.id \in Sessions,
         to.at = "room" => Begun(d, to.id)
  PROVE  PageReady(OpenedPage(to), to, d)
  BY DEF PageReady, OpenedPage, DetailOpened, Plain

LEMMA BecomesReady ==
  ASSUME RoomInv, NEW l, NEW e, NEW who, NEW mine \in BOOLEAN, NEW rest,
         Becomes(l, e, who, mine, rest), Grown(db, db'),
         QueueOK(rest, path, db), AsksRightly(e, who), Leads(e, db'),
         mine => who = path /\ PageReady(e.page, path, db)
  PROVE  RoomInv'
<1> DEFINE to == Rendered(l, e)
           sent == Issued(e.send, l, who, mine /\ to = path)
           opened == Issued(ReadsUser(path, to) \o Loads(to), l, to, TRUE)
<1>1. KnowsSessions(db') /\ QueueOK(rest, path, db')
  BY QueueGrows DEF Grown
<1>2. CASE to = path
  <2>1. /\ path' = path /\ net' = rest \o sent
        /\ (mine /\ page' = e.page) \/ page' = page
    BY <1>2 DEF Becomes
  <2>2. QueueOK(sent, path, db')
    BY QueueIssued
  <2> HIDE DEF sent, to
  <2>3. QueueOK(net', path', db')
    BY <1>1, <2>1, <2>2, QueueConcat
  <2>4. PageReady(page', path', db')
    BY <2>1, ReadyGrows DEF RoomInv
  <2> QED BY <1>1, <2>3, <2>4, RoomPrimed
<1>3. CASE to # path
  <2>1. /\ path' = to /\ page' = OpenedPage(to)
        /\ net' = IF to.at = "wps" THEN <<>> ELSE Disowned(rest) \o sent \o opened
    BY <1>3 DEF Becomes
  <2>2. /\ to.at \in {"detail", "room"} => to.id \in Sessions
        /\ to.at = "room" => Begun(db', to.id)
    BY <1>3, RenderedTo DEF Leads
  <2>3. QueueOK(sent, to, db')
    BY <1>3, QueueIssued
  <2>4. QueueOK(opened, to, db')
    BY <2>2, QueueOpened
  <2>5. QueueOK(Disowned(rest), to, db')
    BY <1>1, QueueDisowned
  <2>6. PageReady(page', path', db')
    BY <2>1, <2>2, OpenedReady
  <2> HIDE DEF sent, to, opened
  <2>7. QueueOK(Disowned(rest) \o sent \o opened, to, db')
    BY <2>3, <2>4, <2>5, QueueConcat
  <2>8. QueueOK(<<>>, to, db')
    BY ShortSeq DEF QueueOK, NetOK, Range
  <2>9. QueueOK(net', path', db')
    BY <2>1, <2>7, <2>8
  <2> QED BY <1>1, <2>6, <2>9, RoomPrimed
<1> QED BY <1>2, <1>3

\* What sends nothing, leaves the page as it is and leads to no room.
LEMMA GoesReady ==
  ASSUME RoomInv, NEW to, to.at \notin {"detail", "room"}, NEW l, Grown(db, db'),
         Becomes(l, Goes(page, to), path, TRUE, net) \/ Becomes(l, Nothing(page), path, TRUE, net)
  PROVE  RoomInv'
<1>1. /\ Goes(page, to).page = page /\ Nothing(page).page = page
      /\ AsksRightly(Goes(page, to), path) /\ AsksRightly(Nothing(page), path)
      /\ Leads(Goes(page, to), db') /\ Leads(Nothing(page), db')
  BY EffectPage, SentRightly DEF Nothing, Goes, Shows, Stay, Route, Leads
<1>2. QueueOK(net, path, db) /\ PageReady(page, path, db)
  BY DEF RoomInv
<1>3. CASE Becomes(l, Goes(page, to), path, TRUE, net)
  BY <1>1, <1>2, <1>3, BecomesReady
<1>4. CASE Becomes(l, Nothing(page), path, TRUE, net)
  BY <1>1, <1>2, <1>4, BecomesReady
<1> QED BY <1>3, <1>4

\* What is stored changes, or nothing of this does.
LEMMA StoredReady ==
  ASSUME RoomInv, Grown(db, db'), UNCHANGED <<page, path, net>> PROVE RoomInv'
  BY ReadyGrows, QueueGrows, RoomPrimed DEF RoomInv, Grown

LEMMA NetEntry ==
  ASSUME RoomInv, NEW k \in DOMAIN net
  PROVE  /\ Formed(net[k]) /\ net[k].mine \in BOOLEAN /\ Truthful(net[k], db)
         /\ net[k].mine => net[k].who = path
  BY DEF RoomInv, QueueOK, NetOK, Formed, Range

\* An answer to the page, or the 20 seconds over; "f" may also lead to the login page.
LEMMA AnswerReady ==
  ASSUME PageInv, RoomInv, NEW k \in DOMAIN net, NEW ok \in BOOLEAN, NEW denied,
         ok /\ net[k].op \in Key => net[k].at = "ok",
         NEW l, NEW f, NEW rest \in Left(k), UNCHANGED db,
         f.page = Handled(net[k], ok, denied).page, f.send = Handled(net[k], ok, denied).send,
         f.go = Handled(net[k], ok, denied).go \/ f.go.at \notin {"detail", "room"},
         Becomes(l, f, net[k].who, net[k].mine, rest)
  PROVE  RoomInv'
<1> DEFINE r == net[k]
           e == Handled(r, ok, denied)
<1>1. /\ r.mine \in BOOLEAN /\ Truthful(r, db) /\ (r.mine => r.who = path)
  BY NetEntry
<1>2. /\ Leads(e, db) /\ AsksRightly(e, r.who)
      /\ r.mine => PageReady(e.page, path, db)
  BY <1>1, HandledReady
<1>3. QueueOK(rest, path, db) /\ Grown(db, db')
  BY QueueLeft, BegunGrows DEF RoomInv
<1> HIDE DEF e, r
<1>4. f.page = e.page /\ f.send = e.send /\ (f.go = e.go \/ f.go.at \notin {"detail", "room"})
  BY DEF e, r
<1>5. Leads(f, db') /\ AsksRightly(f, r.who)
  BY <1>2, <1>4 DEF Leads, AsksRightly
<1>6. Becomes(l, f, r.who, r.mine, rest)
  BY DEF r
<1> QED BY <1>1, <1>2, <1>3, <1>4, <1>5, <1>6, BecomesReady

LEMMA DeliverReady ==
  ASSUME PageInv, RoomInv, NEW k \in DOMAIN net, Deliver(k) PROVE RoomInv'
<1> DEFINE r == net[k]
<1>1. PICK a \in Answers(r) :
        IF a = "denied"
        THEN LET d == Denied(r)
                 e == Handled(r, FALSE, TRUE) IN
             Becomes(d.login, IF d.go = Stay THEN e ELSE [e EXCEPT !.go = d.go],
                     r.who, r.mine, RemoveAt(net, k)) /\ UNCHANGED live
        ELSE /\ Becomes(IF a = "ok" THEN LoginAfter(r) ELSE login, Handled(r, a = "ok", FALSE),
                        r.who, r.mine, RemoveAt(net, k))
             /\ live' = IF a = "ok" /\ r.op = "exchange" THEN live \cup {login'.token} ELSE live
  BY DEF Deliver
<1>2. RemoveAt(net, k) \in Left(k) /\ UNCHANGED db
  BY DEF Left, Deliver
<1>3. CASE a = "denied"
  <2> DEFINE e == Handled(r, FALSE, TRUE)
             to == Denied(r).go
             f == IF to = Stay THEN e ELSE [e EXCEPT !.go = to]
  <2>1. Becomes(Denied(r).login, f, r.who, r.mine, RemoveAt(net, k))
    BY <1>1, <1>3
  <2>2. IsEffect(e)
    BY HandledIsEffect
  <2>3. to = Stay \/ to.at \notin {"detail", "room"}
    BY DEF Denied, Route
  <2> HIDE DEF e, to
  <2>4. f.page = e.page /\ f.send = e.send /\ (f.go = e.go \/ f.go.at \notin {"detail", "room"})
    BY <2>2, <2>3 DEF IsEffect
  <2> HIDE DEF f
  <2> QED BY <1>2, <2>1, <2>4, AnswerReady DEF e
<1>4. CASE a # "denied"
  <2> DEFINE ok == a = "ok"
             l == IF ok THEN LoginAfter(r) ELSE login
  <2>1. Becomes(l, Handled(r, ok, FALSE), r.who, r.mine, RemoveAt(net, k))
    BY <1>1, <1>4
  <2>2. ok \in BOOLEAN /\ (ok /\ r.op \in Key => r.at = "ok")
    BY DEF Answers, Key, Starts, Stored, Reads, Writes
  <2> HIDE DEF ok, l
  <2> QED BY <1>2, <2>1, <2>2, AnswerReady
<1> QED BY <1>3, <1>4

LEMMA TimesOutReady ==
  ASSUME PageInv, RoomInv, NEW k \in DOMAIN net, TimesOut(k) PROVE RoomInv'
<1> DEFINE r == net[k]
           rest == IF r.at = "sent" /\ r.op \in Writes
                   THEN [net EXCEPT ![k].at = "late", ![k].mine = FALSE] ELSE RemoveAt(net, k)
<1>1. Becomes(login, Handled(r, FALSE, FALSE), r.who, r.mine, rest) /\ UNCHANGED db
  BY DEF TimesOut
<1>2. rest \in Left(k)
  BY DEF Left
<1> HIDE DEF rest
<1> QED BY <1>1, <1>2, AnswerReady

LEMMA ServeReady ==
  ASSUME RoomInv, NEW k \in DOMAIN net, Serve(k) PROVE RoomInv'
<1> DEFINE r == net[k]
<1>1. PICK o \in Outcomes(db, r) \cup Fails(db)
                 \cup {[at |-> "denied", val |-> NoValue, db |-> db]} :
        /\ db' = o.db
        /\ net' = IF r.at = "late" THEN RemoveAt(net, k)
                  ELSE [net EXCEPT ![k].at = o.at, ![k].val = o.val]
  BY DEF Serve
<1> DEFINE q == [r EXCEPT !.at = o.at, !.val = o.val]
<1>2. Grown(db, db') /\ Truthful(q, db')
  BY <1>1, NetEntry, ServedTruthfully DEF RoomInv
<1>3. QueueOK(net, path, db') /\ KnowsSessions(db') /\ PageReady(page, path, db')
  BY <1>2, QueueGrows, ReadyGrows DEF RoomInv, Grown
<1>4. CASE r.at = "late"
  <2>1. QueueOK(net', path, db')
    BY <1>1, <1>3, <1>4, QueueRemove
  <2> QED BY <1>3, <2>1, RoomPrimed DEF Serve
<1>5. CASE r.at # "late"
  <2>1. net' = [net EXCEPT ![k] = q]
    BY <1>1, <1>5
  <2>2. Formed(q) /\ (q.mine => q.who = path)
    BY NetEntry DEF Formed
  <2> HIDE DEF q
  <2>3. QueueOK([net EXCEPT ![k] = q], path, db')
    BY <1>2, <1>3, <2>2, QueueChanged
  <2> QED BY <1>3, <2>1, <2>3, RoomPrimed DEF Serve
<1> QED BY <1>4, <1>5

LEMMA ReturnReady ==
  ASSUME RoomInv, WpsReturns PROVE RoomInv'
<1>1. PICK ok \in BOOLEAN :
        LET e == LoginReturned(ok)
            l == [login EXCEPT !.user = IF login.token = 0 THEN 0 ELSE @]
            at == Route("login", 0)
            to == Landing(l, at) IN
        /\ path' = to
        /\ page' = IF to = at THEN e.page ELSE OpenedPage(to)
        /\ net' = Issued(e.send, l, at, to = at)
                  \o IF to = at THEN <<>> ELSE Issued(ReadsUser(at, to) \o Loads(to), l, to, TRUE)
  BY DEF WpsReturns
<1> DEFINE e == LoginReturned(ok)
           l == [login EXCEPT !.user = IF login.token = 0 THEN 0 ELSE @]
           at == Route("login", 0)
           to == Landing(l, at)
           sent == Issued(e.send, l, at, to = at)
           opened == IF to = at THEN <<>> ELSE Issued(ReadsUser(at, to) \o Loads(to), l, to, TRUE)
<1>2. to.at \in {"login", "hub"}
  BY DEF Landing, Route
<1>3. AsksRightly(e, at)
  <2>1. CASE ok
    <3>1. e.send = <<Req("exchange", {})>>
      BY <2>1 DEF LoginReturned, Sends, Asks
    <3> HIDE DEF e
    <3> QED BY <3>1, ShortSeq DEF AsksRightly, Req
  <2>2. CASE ~ok
    BY <2>2, SentRightly DEF LoginReturned
  <2> QED BY <2>1, <2>2
<1>4. UNCHANGED db /\ KnowsSessions(db)
  BY DEF WpsReturns, RoomInv
<1>5. QueueOK(sent, to, db)
  BY <1>3, QueueIssued
<1>6. QueueOK(opened, to, db)
  <2>1. QueueOK(<<>>, to, db)
    BY ShortSeq DEF QueueOK, NetOK, Range
  <2>2. QueueOK(Issued(ReadsUser(at, to) \o Loads(to), l, to, TRUE), to, db)
    BY <1>2, QueueOpened
  <2> QED BY <2>1, <2>2
<1>7. path' = to /\ net' = sent \o opened
  BY <1>1
<1> HIDE DEF sent, opened, to
<1>8. QueueOK(net', path', db')
  BY <1>4, <1>5, <1>6, <1>7, QueueConcat
<1>9. PageReady(page', path', db')
  BY <1>2, <1>7 DEF PageReady
<1> QED BY <1>4, <1>8, <1>9, RoomPrimed

LEMMA InitReady == Init => RoomInv
<1> SUFFICES ASSUME Init PROVE RoomInv
  OBVIOUS
<1>1. PICK s \in Scenarios :
        /\ path = s.at /\ page = OpenedPage(s.at) /\ db = s.db
        /\ net = Issued(ReadsUser(Route("wps", 0), s.at) \o Loads(s.at), As(1), s.at, TRUE)
  BY DEF Init
<1>2. KnowsSessions(db)
  BY <1>1, ScenarioAssumption DEF DbType, KnowsSessions
<1>3. /\ path.at \in {"detail", "room"} => path.id \in Sessions
      /\ path.at = "room" => Begun(db, path.id)
  BY <1>1, ScenarioAssumption DEF Begun
<1>4. QueueOK(net, path, db)
  BY <1>1, <1>3, QueueOpened
<1>5. PageReady(page, path, db)
  BY <1>1, <1>3, OpenedReady
<1> QED BY <1>2, <1>4, <1>5 DEF RoomInv

LEMMA NextReady == PageInv /\ RoomInv /\ [Next]_vars => RoomInv'
<1> SUFFICES ASSUME PageInv, RoomInv, [Next]_vars PROVE RoomInv'
  OBVIOUS
<1>1. KnowsSessions(db) /\ QueueOK(net, path, db) /\ Grown(db, db)
  BY BegunGrows DEF RoomInv
<1>2. CASE Press
  <2>1. PICK e \in Presses : Becomes(login, e, path, TRUE, net)
    BY <1>2 DEF Press
  <2>2. db' = db
    BY <1>2 DEF Press
  <2> QED BY <1>1, <2>1, <2>2, PressReady, BecomesReady
<1>3. CASE Navigate
  <2>1. PICK at \in {"hub", "resumes", "list"} \cup Tabs :
          Becomes(login, Goes(page, Route(at, 0)), path, TRUE, net)
    BY <1>3 DEF Navigate
  <2>2. Route(at, 0).at \notin {"detail", "room"} /\ db' = db
    BY <1>3 DEF Navigate, Route, Tabs
  <2> QED BY <1>1, <2>1, <2>2, GoesReady
<1>4. CASE HandleLogout
  <2>1. Route("notfound", 0).at \notin {"detail", "room"} /\ db' = db
    BY <1>4 DEF HandleLogout, Route
  <2> QED BY <1>1, <1>4, <2>1, GoesReady DEF HandleLogout
<1>5. CASE EnterApp
  <2>1. Route("hub", 0).at \notin {"detail", "room"} /\ db' = db
    BY <1>5 DEF EnterApp, Route
  <2> QED BY <1>1, <1>5, <2>1, GoesReady DEF EnterApp
<1>6. CASE WpsReturns
  BY <1>6, ReturnReady
<1>7. CASE \E k \in DOMAIN net : Serve(k) \/ Deliver(k) \/ TimesOut(k)
  BY <1>7, ServeReady, DeliverReady, TimesOutReady
<1>8. CASE PollTick
  <2>1. Becomes(login, Poll(page), path, TRUE, net) /\ db' = db
    BY <1>8 DEF PollTick
  <2>2. Tame(Poll(page), page)
    BY ReportTame
  <2>3. PageReady(Poll(page).page, path, db)
    BY <2>2, TameReady DEF PageInv, RoomInv
  <2> QED BY <1>1, <2>1, <2>2, <2>3, TameLeads, SentRightly, BecomesReady
<1>9. CASE Expire
  BY <1>1, <1>9, StoredReady DEF Expire
<1>10. CASE RoomBegins
  <2>1. Grown(db, [db EXCEPT !.status[path.id] = "in_progress"])
    BY <1>1, BegunGrows
  <2> QED BY <1>10, <2>1, StoredReady DEF RoomBegins
<1>11. CASE RoomOver
  <2> DEFINE s == path.id
             new == [db EXCEPT !.status[s] = "completed"]
  <2>1. Grown(db, new)
    BY <1>1, BegunGrows
  <2>2. db' = [new EXCEPT !.report[s] = "making"]
    BY <1>11 DEF RoomOver
  <2> HIDE DEF new
  <2>3. Grown(db, db')
    BY <2>1, <2>2, BegunGrows DEF Grown
  <2>4. Route("report", s).at \notin {"detail", "room"}
    BY DEF Route
  <2> QED BY <1>11, <2>3, <2>4, GoesReady DEF RoomOver
<1>12. CASE ServerEvaluates
  <2>1. PICK s, x : db' = [db EXCEPT !.report[s] = x]
    BY <1>12 DEF ServerEvaluates
  <2>2. Grown(db, db')
    BY <1>1, <2>1, BegunGrows
  <2> QED BY <1>12, <2>2, StoredReady DEF ServerEvaluates
<1>13. CASE UNCHANGED vars
  BY <1>1, <1>13, StoredReady DEF vars
<1> QED BY <1>2, <1>3, <1>4, <1>5, <1>6, <1>7, <1>8, <1>9, <1>10, <1>11, <1>12, <1>13 DEF Next

\* CreateInterviewPage.tsx:519-532, InterviewDetailPage.tsx:82-100. Whatever answers were
\* late, lost or for a page that is gone, the room shown is one of a session that the
\* server has the questions of.
THEOREM RoomEnteredReady == Spec => []RoomIsReady
<1>1. RoomInv => RoomIsReady
  BY DEF RoomInv, PageReady, Begun, RoomIsReady
<1> QED BY InitPage, NextPage, InitReady, NextReady, <1>1, PTL DEF Spec

-----------------------------------------------------------------------------
(* What the server keeps, and what it answers. *)

LEMMA DbChanges ==
  ASSUME NEW d \in DbType
  PROVE  /\ \A s, x : x \in Statuses => [d EXCEPT !.status[s] = x] \in DbType
         /\ \A s, x : x \in {"none", "making", "failed", "done"} => [d EXCEPT !.report[s] = x] \in DbType
         /\ \A b \in [Questions -> 0..Banks] : [d EXCEPT !.bank = b] \in DbType
         /\ \A x \in SUBSET Files : [d EXCEPT !.resumes = x] \in DbType
         /\ \A x \in SUBSET Jobs : [d EXCEPT !.jobs = x] \in DbType
<1>1. \A s, x : x \in Statuses => [d EXCEPT !.status[s] = x] \in DbType
  BY DEF DbType
<1>2. \A s, x : x \in {"none", "making", "failed", "done"} => [d EXCEPT !.report[s] = x] \in DbType
  BY DEF DbType
<1>3. \A b \in [Questions -> 0..Banks] : [d EXCEPT !.bank = b] \in DbType
  BY DEF DbType
<1>4. /\ \A x \in SUBSET Files : [d EXCEPT !.resumes = x] \in DbType
      /\ \A x \in SUBSET Jobs : [d EXCEPT !.jobs = x] \in DbType
  BY DEF DbType
<1> QED BY <1>1, <1>2, <1>3, <1>4
LEMMA DbFields ==
  ASSUME NEW d \in DbType
  PROVE  /\ d.status \in [Sessions -> Statuses] /\ d.bank \in [Questions -> 0..Banks]
         /\ d.report \in [Sessions -> {"none", "making", "failed", "done"}]
         /\ d.resumes \subseteq Files /\ d.jobs \subseteq Jobs
  BY DEF DbType

\* The values of answers.
LEMMA Values ==
  /\ NoValue.bank \in [Questions -> 0..Banks] /\ NoValue.status \in Statuses /\ NoValue.ids = {}
  /\ \A x : /\ Ids(x).bank = NoValue.bank /\ Ids(x).status = NoValue.status /\ Ids(x).ids = x
            /\ HasFeedback(x).bank = NoValue.bank /\ HasFeedback(x).status = NoValue.status
            /\ HasFeedback(x).ids = {}
  /\ \A b : LET v == [NoValue EXCEPT !.bank = b] IN
            v.bank = b /\ v.status = NoValue.status /\ v.ids = {}
  /\ \A x : LET v == [NoValue EXCEPT !.status = x] IN
            v.bank = NoValue.bank /\ v.status = x /\ v.ids = {}
<1>1. 0 \in 0..Banks
  BY PagesAssumption
<1> QED BY <1>1 DEF NoValue, Ids, HasFeedback, Statuses

\* A request is served in the types. What changes the questions is a request that the page
\* reads the list again after; the list it reads is the bank as it is.
ServedAs(op, o, d) ==
  /\ o.db \in DbType /\ o.at \in {"ok", "failed", "denied"}
  /\ Brought([op |-> op, val |-> o.val])
  /\ \/ o.db.bank = d.bank
     \/ op \in {"deleteQuestions", "patch", "importSession"}
     \/ op = "confirmImport" /\ o.at = "ok"
  /\ op = "listQuestions" /\ o.at = "ok" => o.val.bank = d.bank
Plainly(v) == v.bank \in [Questions -> 0..Banks] /\ v.status \in Statuses /\ v.ids = {}
LEMMA Bringing ==
  ASSUME NEW op, NEW d \in DbType, NEW n \in DbType, NEW v, NEW o \in Brings(v, n),
         Brought([op |-> op, val |-> v]),
         \/ n.bank = d.bank
         \/ op \in {"deleteQuestions", "patch", "importSession", "confirmImport"},
         op = "listQuestions" => v.bank = d.bank
  PROVE  ServedAs(op, o, d)
<1>1. o.at = "ok" /\ o.val = v /\ o.db = n
  BY DEF Brings
<1> QED BY <1>1 DEF ServedAs
LEMMA PlainBrought ==
  ASSUME NEW op, NEW v, Plainly(v) PROVE Brought([op |-> op, val |-> v])
  BY DEF Brought, Plainly
LEMMA NoValuePlain ==
  Plainly(NoValue) /\ \A x : Plainly(HasFeedback(x))
  BY Values DEF Plainly
LEMMA Refusing ==
  ASSUME NEW op, NEW d \in DbType,
         NEW o \in Fails(d) \cup {[at |-> "denied", val |-> NoValue, db |-> d]}
  PROVE  ServedAs(op, o, d)
<1>1. o.at \in {"failed", "denied"} /\ o.val = NoValue /\ o.db = d
  BY DEF Fails
<1> QED BY <1>1, PlainBrought, NoValuePlain DEF ServedAs
\* Requests that only do something.
LEMMA DoesServe ==
  ASSUME NEW op, NEW d \in DbType, NEW n \in DbType, NEW o \in Does(n), op # "listQuestions",
         \/ n.bank = d.bank
         \/ op \in {"deleteQuestions", "patch", "importSession", "confirmImport"}
  PROVE  ServedAs(op, o, d)
  BY Bringing, PlainBrought, NoValuePlain DEF Does

LEMMA QuestionsServed ==
  ASSUME NEW d \in DbType, NEW r, Asked(r), NEW o \in Outcomes(d, r),
         r.op \in {"listQuestions", "deleteQuestions", "patch", "confirmImport", "importSession"}
  PROVE  ServedAs(r.op, o, d)
<1>1. /\ d.bank \in [Questions -> 0..Banks] /\ r.to \in 0..Banks /\ 0 \in 0..Banks
      /\ 1 \in 0..Banks
  BY DbFields, PagesAssumption DEF Asked
<1>2. ASSUME NEW op \in {"confirmImport", "importSession"}, NEW ids, o \in ImportConfirmed(d, ids)
      PROVE  ServedAs(op, o, d)
  <2> DEFINE b == [q \in Questions |-> IF q \in ids /\ d.bank[q] = 0 THEN 1 ELSE d.bank[q]]
  <2>1. b \in [Questions -> 0..Banks]
    BY <1>1
  <2>2. o \in Does([d EXCEPT !.bank = b])
    BY <1>2 DEF ImportConfirmed
  <2> HIDE DEF b
  <2> QED BY <2>1, <2>2, DbChanges, DoesServe
<1>3. CASE r.op = "confirmImport"
  BY <1>2, <1>3 DEF Outcomes
<1>4. CASE r.op = "importSession"
  <2>1. o \in Fails(d) \/ \E ids : o \in ImportConfirmed(d, ids)
    BY <1>4 DEF Outcomes, ImportFromSession
  <2> QED BY <1>2, <1>4, <2>1, Refusing
<1>5. CASE r.op = "deleteQuestions"
  <2> DEFINE b == [q \in Questions |-> IF q \in r.ids THEN 0 ELSE d.bank[q]]
  <2>1. b \in [Questions -> 0..Banks]
    BY <1>1
  <2>2. o \in Fails(d) \/ o \in Does([d EXCEPT !.bank = b])
    BY <1>5 DEF Outcomes, DeleteQuestions, ButOnlyIf
  <2> HIDE DEF b
  <2> QED BY <1>5, <2>1, <2>2, DbChanges, DoesServe, Refusing
<1>6. CASE r.op = "patch"
  <2> DEFINE b == [d.bank EXCEPT ![Next1(r.ids)] = r.to]
  <2>1. b \in [Questions -> 0..Banks]
    BY <1>1
  <2>2. o \in Fails(d) \/ o \in Does(d) \/ o \in Does([d EXCEPT !.bank = b])
    BY <1>6 DEF Outcomes, Patch, ButOnlyIf
  <2> HIDE DEF b
  <2> QED BY <1>6, <2>1, <2>2, DbChanges, DoesServe, Refusing
<1>7. CASE r.op = "listQuestions"
  <2> DEFINE v == [NoValue EXCEPT !.bank = d.bank]
  <2>1. o \in Brings(v, d)
    BY <1>7 DEF Outcomes
  <2>2. v.bank = d.bank /\ Plainly(v)
    BY <1>1, Values DEF Plainly
  <2> HIDE DEF v
  <2> QED BY <2>1, <2>2, Bringing, PlainBrought
<1> QED BY <1>3, <1>4, <1>5, <1>6, <1>7

LEMMA FilesServed ==
  ASSUME NEW d \in DbType, NEW r, Asked(r), NEW o \in Outcomes(d, r),
         r.op \in {"listResumes", "uploadResume", "renameResume", "deleteResume"}
  PROVE  ServedAs(r.op, o, d)
<1>1. d.resumes \subseteq Files
  BY DbFields
<1>2. \A x : [d EXCEPT !.resumes = x].bank = d.bank
  BY DEF DbType
<1>3. CASE r.op = "listResumes"
  <2>1. o \in Brings(Ids(d.resumes), d)
    BY <1>3 DEF Outcomes
  <2>2. Brought([op |-> r.op, val |-> Ids(d.resumes)])
    BY <1>1, <1>3, Values DEF Brought
  <2> QED BY <1>3, <2>1, <2>2, Bringing
<1>4. CASE r.op = "uploadResume"
  <2>1. PICK f \in Files : r.ids = {f}
    BY <1>4 DEF Asked, FileOps
  <2>2. o \in Fails(d) \/ o \in Does([d EXCEPT !.resumes = d.resumes \cup {f}])
    BY <1>4, <2>1, TheOne DEF Outcomes, UploadResume, ButOnlyIf
  <2>3. d.resumes \cup {f} \in SUBSET Files
    BY <1>1
  <2> QED BY <1>2, <1>4, <2>2, <2>3, DbChanges, DoesServe, Refusing
<1>5. CASE r.op = "renameResume"
  <2>1. o \in Fails(d) \/ o \in Does(d)
    BY <1>5 DEF Outcomes, RenameResume, ButOnlyIf
  <2> QED BY <1>5, <2>1, DoesServe, Refusing
<1>6. CASE r.op = "deleteResume"
  <2> DEFINE f == The(r.ids)
  <2>1. o \in Fails(d) \/ o \in Does([d EXCEPT !.resumes = d.resumes \ {f}])
    BY <1>6 DEF Outcomes, DeleteResume, ButOnlyIf
  <2> HIDE DEF f
  <2>2. d.resumes \ {f} \in SUBSET Files
    BY <1>1
  <2> QED BY <1>2, <1>6, <2>1, <2>2, DbChanges, DoesServe, Refusing
<1> QED BY <1>3, <1>4, <1>5, <1>6

LEMMA JobsServed ==
  ASSUME NEW d \in DbType, NEW r, Asked(r), NEW o \in Outcomes(d, r),
         r.op \in {"listJobs", "createJob", "updateJob", "deleteJob"}
  PROVE  ServedAs(r.op, o, d)
<1>1. d.jobs \subseteq Jobs
  BY DbFields
<1>2. \A x : [d EXCEPT !.jobs = x].bank = d.bank
  BY DEF DbType
<1>3. CASE r.op = "listJobs"
  <2>1. o \in Brings(Ids(d.jobs), d)
    BY <1>3 DEF Outcomes
  <2>2. Brought([op |-> r.op, val |-> Ids(d.jobs)])
    BY <1>1, <1>3, Values DEF Brought
  <2> QED BY <1>3, <2>1, <2>2, Bringing
<1>4. CASE r.op = "createJob"
  <2> DEFINE new == Jobs \ d.jobs
             j == Next1(new)
  <2>1. \/ o \in Fails(d)
        \/ new # {} /\ o \in Brings(Ids({j}), [d EXCEPT !.jobs = d.jobs \cup {j}])
    BY <1>4 DEF Outcomes, CreateJob, ButOnlyIf
  <2>2. ASSUME new # {} PROVE j \in Jobs
    <3>1. new \subseteq Nat
      BY PagesAssumption
    <3> QED BY <2>2, <3>1, NextIsOne
  <2> HIDE DEF j, new
  <2>3. ASSUME j \in Jobs
        PROVE  d.jobs \cup {j} \in SUBSET Jobs /\ Brought([op |-> r.op, val |-> Ids({j})])
    BY <1>1, <1>4, <2>3, Values, SMTT(30) DEF Brought
  <2> QED BY <1>2, <1>4, <2>1, <2>2, <2>3, DbChanges, Bringing, Refusing
<1>5. CASE r.op = "updateJob"
  <2>1. o \in Fails(d) \/ o \in Does(d)
    BY <1>5 DEF Outcomes, UpdateJob, ButOnlyIf
  <2> QED BY <1>5, <2>1, DoesServe, Refusing
<1>6. CASE r.op = "deleteJob"
  <2> DEFINE j == The(r.ids)
  <2>1. o \in Fails(d) \/ o \in Does([d EXCEPT !.jobs = d.jobs \ {j}])
    BY <1>6 DEF Outcomes, DeleteJob, ButOnlyIf
  <2> HIDE DEF j
  <2>2. d.jobs \ {j} \in SUBSET Jobs
    BY <1>1
  <2> QED BY <1>2, <1>6, <2>1, <2>2, DbChanges, DoesServe, Refusing
<1> QED BY <1>3, <1>4, <1>5, <1>6

LEMMA InterviewsServed ==
  ASSUME NEW d \in DbType, NEW r, Asked(r), Truthful(r, d), NEW o \in Outcomes(d, r),
         r.op \in {"listInterviews", "getInterview", "createInterview", "startInterview"}
  PROVE  ServedAs(r.op, o, d)
<1>1. \A s, x : [d EXCEPT !.status[s] = x].bank = d.bank
  BY DEF DbType
<1>2. CASE r.op = "listInterviews"
  <2> DEFINE S == {s \in Sessions : d.status[s] # "none"}
  <2>1. o \in Brings(Ids(S), d)
    BY <1>2 DEF Outcomes
  <2>2. S \subseteq Sessions
    OBVIOUS
  <2> HIDE DEF S
  <2>3. Brought([op |-> r.op, val |-> Ids(S)])
    BY <1>2, <2>2, Values DEF Brought
  <2> QED BY <1>2, <2>1, <2>3, Bringing
<1>3. CASE r.op = "getInterview"
  <2> DEFINE s == r.who.id
             v == [NoValue EXCEPT !.status = d.status[s]]
  <2>1. r.ids = {s} /\ d.status[s] \in Statuses
    BY <1>3, DbFields DEF Truthful
  <2>2. o \in Fails(d) \/ o \in Brings(v, d)
    BY <1>3, <2>1, TheOne DEF Outcomes, SessionOf, ButOnlyIf
  <2>3. Plainly(v)
    BY <2>1, Values DEF Plainly
  <2> HIDE DEF v
  <2> QED BY <1>3, <2>2, <2>3, Bringing, PlainBrought, Refusing
<1>4. CASE r.op = "createInterview"
  <2> DEFINE new == {s \in Sessions : d.status[s] = "none"}
             s == Next1(new)
             x == IF r.ids = {} THEN "draft" ELSE "ready"
  <2>1. o \in Fails(d) \/ o \in Brings(Ids({s}), [d EXCEPT !.status[s] = x])
    BY <1>4 DEF Outcomes, CreateInterview, ButOnlyIf
  <2>2. x \in Statuses /\ Brought([op |-> r.op, val |-> Ids({s})])
    BY <1>4, Values DEF Brought, Statuses
  <2> HIDE DEF s, x
  <2> QED BY <1>1, <1>4, <2>1, <2>2, DbChanges, Bringing, Refusing
<1>5. CASE r.op = "startInterview"
  <2> DEFINE s == The(r.ids)
  <2>1. o \in Fails(d) \/ o \in Does([d EXCEPT !.status[s] = "ready"])
    BY <1>5 DEF Outcomes, StartInterview, ButOnlyIf
  <2>2. "ready" \in Statuses
    BY DEF Statuses
  <2> HIDE DEF s
  <2> QED BY <1>1, <1>5, <2>1, <2>2, DbChanges, DoesServe, Refusing
<1> QED BY <1>2, <1>3, <1>4, <1>5

LEMMA ReportsServed ==
  ASSUME NEW d \in DbType, NEW r, NEW o, NEW op, NEW s,
         \/ o \in ReportOf(d, s)
         \/ o \in RetryReport(d, s),
         op \notin {"listQuestions", "listResumes", "listJobs", "listInterviews", "createJob"}
  PROVE  ServedAs(op, o, d)
<1>1. \A x : [d EXCEPT !.report[s] = x].bank = d.bank
  BY DEF DbType
<1>2. \A x : Brought([op |-> op, val |-> HasFeedback(x)])
  BY PlainBrought, NoValuePlain
<1>3. CASE o \in ReportOf(d, s)
  <2>1. o \in Fails(d) \/ \E x : o \in Brings(HasFeedback(x), d)
    BY <1>3 DEF ReportOf, ButOnlyIf
  <2> QED BY <1>2, <2>1, Bringing, Refusing
<1>4. CASE o \in RetryReport(d, s)
  <2> DEFINE y == IF d.report[s] = "done" THEN d.report[s] ELSE "failed"
  <2>1. \/ o \in Fails(d)
        \/ \E v : \E x \in {"done", y} : o \in Brings(HasFeedback(v), [d EXCEPT !.report[s] = x])
    BY <1>4 DEF RetryReport, ButOnlyIf
  <2>2. y \in {"done", "failed"}
    OBVIOUS
  <2> HIDE DEF y
  <2>3. ASSUME NEW x \in {"done", y} PROVE [d EXCEPT !.report[s] = x] \in DbType
    BY <2>2, DbChanges
  <2> QED BY <1>1, <1>2, <2>1, <2>3, Bringing, Refusing
<1> QED BY <1>3, <1>4

LEMMA ServedTyped ==
  ASSUME NEW d \in DbType, NEW r, Asked(r), Truthful(r, d), r.op \in Stored,
         NEW o \in Outcomes(d, r) \cup Fails(d) \cup {[at |-> "denied", val |-> NoValue, db |-> d]}
  PROVE  ServedAs(r.op, o, d)
<1>1. CASE o \in Fails(d) \cup {[at |-> "denied", val |-> NoValue, db |-> d]}
  BY <1>1, Refusing
<1>2. CASE o \in Outcomes(d, r) /\ r.op \in {"getReport", "pollReport", "retryReport"}
  BY <1>2, ReportsServed DEF Outcomes
<1> QED BY <1>1, <1>2, QuestionsServed, FilesServed, JobsServed, InterviewsServed
        DEF Stored, Reads, Writes

-----------------------------------------------------------------------------
(* The requests of a queue, whatever their places. *)

LEMMA RangeConcat ==
  ASSUME NEW s, NEW t, IsSeq(s), IsSeq(t)
  PROVE  IsSeq(s \o t) /\ Range(s \o t) = Range(s) \cup Range(t)
<1>1. PICK S, T : s \in Seq(S) /\ t \in Seq(T)
  BY DEF IsSeq
<1>2. s \in Seq(S \cup T) /\ t \in Seq(S \cup T)
  BY <1>1
<1>3. /\ Len(s) \in Nat /\ DOMAIN s = 1..Len(s) /\ Len(t) \in Nat /\ DOMAIN t = 1..Len(t)
      /\ DOMAIN (s \o t) = 1..Len(s) + Len(t)
      /\ \A j \in 1..Len(s) + Len(t) : (s \o t)[j] = IF j <= Len(s) THEN s[j] ELSE t[j - Len(s)]
  BY <1>2, ConcatProperties, LenProperties
<1> DEFINE q == s \o t
<1> HIDE DEF q
<1>4. ASSUME NEW i \in DOMAIN s PROVE i \in DOMAIN q /\ q[i] = s[i]
  BY <1>3 DEF q
<1>5. ASSUME NEW i \in DOMAIN t PROVE Len(s) + i \in DOMAIN q /\ q[Len(s) + i] = t[i]
  <2>1. Len(s) + i \in 1..Len(s) + Len(t) /\ ~(Len(s) + i <= Len(s)) /\ Len(s) + i - Len(s) = i
    BY <1>3
  <2> QED BY <1>3, <2>1 DEF q
<1>6. Range(s) \cup Range(t) \subseteq Range(q)
  BY <1>4, <1>5 DEF Range
<1>7. \A j \in DOMAIN q : \/ j \in DOMAIN s /\ q[j] = s[j]
                          \/ j - Len(s) \in DOMAIN t /\ q[j] = t[j - Len(s)]
  BY ConcatPlaces DEF q
<1>8. Range(q) \subseteq Range(s) \cup Range(t)
  BY <1>7 DEF Range
<1> QED BY <1>6, <1>8, ConcatPlaces DEF q

LEMMA RangeRemove ==
  ASSUME NEW s, IsSeq(s), NEW k \in DOMAIN s
  PROVE  /\ IsSeq(RemoveAt(s, k)) /\ Range(RemoveAt(s, k)) \subseteq Range(s)
         /\ \A i \in DOMAIN s : i # k => s[i] \in Range(RemoveAt(s, k))
<1>1. PICK S : s \in Seq(S)
  BY DEF IsSeq
<1>2. Len(s) \in Nat /\ DOMAIN s = 1..Len(s) /\ k \in 1..Len(s)
  BY <1>1, LenProperties
<1> DEFINE a == SubSeq(s, 1, k - 1)
           b == SubSeq(s, k + 1, Len(s))
<1>3. a \in Seq(S) /\ Len(a) = k - 1 /\ \A j \in 1..k - 1 : a[j] = s[j]
  BY <1>1, <1>2, SubSeqProperties
<1>4. b \in Seq(S) /\ Len(b) = Len(s) - k /\ \A j \in 1..Len(s) - k : b[j] = s[k + j]
  BY <1>1, <1>2, SubSeqProperties
<1>5. RemoveAt(s, k) = a \o b
  BY DEF RemoveAt
<1> HIDE DEF a, b
<1>6. DOMAIN a = 1..k - 1 /\ DOMAIN b = 1..Len(s) - k /\ IsSeq(a) /\ IsSeq(b)
  BY <1>2, <1>3, <1>4, LenProperties DEF IsSeq
<1>7. ASSUME NEW i \in DOMAIN s, i # k PROVE s[i] \in Range(a) \cup Range(b)
  <2>1. CASE i < k
    <3>1. i \in DOMAIN a /\ a[i] = s[i]
      BY <1>2, <1>3, <1>6, <2>1
    <3> QED BY <3>1 DEF Range
  <2>2. CASE i > k
    <3>1. i - k \in 1..Len(s) - k /\ k + (i - k) = i
      BY <1>2, <2>2
    <3>2. i - k \in DOMAIN b /\ b[i - k] = s[i]
      BY <1>4, <1>6, <3>1
    <3> QED BY <3>2 DEF Range
  <2> QED BY <1>2, <1>7, <2>1, <2>2
<1>8. Range(RemoveAt(s, k)) \subseteq Range(s)
  BY RemovePlaces DEF Range
<1> QED BY <1>5, <1>6, <1>7, <1>8, RangeConcat, RemovePlaces


-----------------------------------------------------------------------------
(* Types of requests, and what a page opened anew waits for. *)

\* Where the application can be.
Reached(to) == RouteOK(to) /\ (to.at = "detail" => to.id \in Sessions)
Typed(r) ==
  /\ {"to", "from", "by"} \subseteq DOMAIN r
  /\ Asked(r) /\ Brought(r) /\ r.by \in 0..Mock /\ Reached(r.who)
  /\ r.at \in {"sent", "ok", "failed", "denied", "late"}
  /\ r.at = "late" => ~r.mine
  /\ r.mine /\ r.who.at \in {"hub", "list"} => r.op \in {"listInterviews", "me"}
AllTyped(s) == NetOK(s) /\ \A r \in Range(s) : Typed(r)

LEMMA TypedConcat ==
  ASSUME NEW s, NEW t, AllTyped(s), AllTyped(t) PROVE AllTyped(s \o t)
<1>1. IsSeq(s \o t) /\ Range(s \o t) = Range(s) \cup Range(t)
  BY RangeConcat DEF AllTyped, NetOK
<1>2. \A r \in Range(s \o t) : Typed(r)
  BY <1>1 DEF AllTyped
<1>3. NetOK(s \o t)
  BY BeginsConcat DEF AllTyped
<1> QED BY <1>2, <1>3 DEF AllTyped

LEMMA TypedDisowned ==
  ASSUME NEW s, AllTyped(s) PROVE AllTyped(Disowned(s))
<1>1. /\ NetOK(Disowned(s)) /\ DOMAIN Disowned(s) = DOMAIN s
      /\ \A i \in DOMAIN s : Disowned(s)[i] = [s[i] EXCEPT !.mine = FALSE]
  BY DisownedOK DEF AllTyped
<1>2. ASSUME NEW r, Formed(r), Typed(r) PROVE Typed([r EXCEPT !.mine = FALSE])
  <2> DEFINE q == [r EXCEPT !.mine = FALSE]
  <2>1. /\ q.mine = FALSE /\ q.op = r.op /\ q.ids = r.ids /\ q.who = r.who /\ q.at = r.at
        /\ q.val = r.val /\ q.to = r.to /\ q.from = r.from /\ q.by = r.by
        /\ {"to", "from", "by"} \subseteq DOMAIN q
    BY <1>2 DEF Formed, Typed
  <2> HIDE DEF q
  <2> QED BY <1>2, <2>1 DEF Typed, Asked, Brought, q
<1>3. \A i \in DOMAIN s : Typed(s[i]) /\ Formed(s[i])
  BY DEF AllTyped, NetOK, Range
<1>4. \A i \in DOMAIN s : Typed(Disowned(s)[i])
  BY <1>1, <1>2, <1>3
<1> QED BY <1>1, <1>4 DEF AllTyped, Range

\* Requests just sent by the page at "who", which a list of sessions never does by itself.
LEMMA TypedIssued ==
  ASSUME NEW reqs, IsSeq(reqs), \A i \in DOMAIN reqs : Asked(reqs[i]),
         NEW l, l.token \in 0..Mock, NEW who, Reached(who), NEW mine \in BOOLEAN,
         who.at \in {"hub", "list"} => \A i \in DOMAIN reqs : reqs[i].op \in {"listInterviews", "me"}
  PROVE  AllTyped(Issued(reqs, l, who, mine))
<1> DEFINE s == Issued(reqs, l, who, mine)
<1>1. /\ DOMAIN s = DOMAIN reqs
      /\ \A i \in DOMAIN s : /\ s[i].op = reqs[i].op /\ s[i].ids = reqs[i].ids
                             /\ s[i].to = reqs[i].to /\ s[i].from = reqs[i].from
                             /\ s[i].mine = mine /\ s[i].who = who /\ s[i].at = "sent"
                             /\ s[i].by = l.token /\ s[i].val = NoValue
                             /\ {"to", "from", "by"} \subseteq DOMAIN s[i]
  BY DEF Issued
<1>2. NetOK(s)
  BY IssuedOK
<1> HIDE DEF s
<1>3. \A i \in DOMAIN s : Asked(s[i])
  BY <1>1 DEF Asked
<1>4. \A i \in DOMAIN s : Brought(s[i])
  BY <1>1, Values DEF Brought
<1>5. \A i \in DOMAIN s : Typed(s[i])
  BY <1>1, <1>3, <1>4 DEF Typed
<1> QED BY <1>2, <1>5 DEF AllTyped, Range, s

\* The requests of a queue in which one is taken out or late.
LEMMA TypedLeft ==
  ASSUME AllTyped(net), NEW k \in DOMAIN net, NEW rest \in Left(k)
  PROVE  /\ AllTyped(rest)
         /\ \A i \in DOMAIN net : i # k => net[i] \in Range(rest)
<1>1. /\ Typed(net[k]) /\ Formed(net[k]) /\ IsSeq(net)
      /\ \A i \in DOMAIN net : Typed(net[i]) /\ Formed(net[i])
  BY DEF AllTyped, NetOK, Range
<1>2. CASE rest = RemoveAt(net, k)
  <2>1. /\ IsSeq(rest) /\ Range(rest) \subseteq Range(net)
        /\ \A i \in DOMAIN net : i # k => net[i] \in Range(rest)
    BY <1>1, <1>2, RangeRemove
  <2>2. \A j \in DOMAIN rest : rest[j] \in Range(net)
    BY <2>1 DEF Range
  <2>3. NetOK(rest)
    BY <1>1, <2>1, <2>2 DEF NetOK, Range
  <2> QED BY <2>1, <2>3 DEF AllTyped
<1>3. CASE rest = [net EXCEPT ![k].at = "late", ![k].mine = FALSE]
  <2> DEFINE q == [net[k] EXCEPT !.at = "late", !.mine = FALSE]
  <2>1. /\ q.mine = FALSE /\ q.op = net[k].op /\ q.ids = net[k].ids /\ q.who = net[k].who
        /\ q.at = "late" /\ q.val = net[k].val /\ q.to = net[k].to /\ q.from = net[k].from
        /\ q.by = net[k].by /\ {"to", "from", "by"} \subseteq DOMAIN q /\ Formed(q)
    BY <1>1 DEF Formed, Typed
  <2>2. rest = [net EXCEPT ![k] = q]
    BY <1>3
  <2> HIDE DEF q
  <2>3. Typed(q)
    BY <1>1, <2>1 DEF Typed, Asked, Brought
  <2>4. /\ DOMAIN rest = DOMAIN net /\ rest = [i \in DOMAIN net |-> rest[i]]
        /\ \A i \in DOMAIN net : (i = k => rest[i] = q) /\ (i # k => rest[i] = net[i])
    BY <2>2
  <2>5. IsSeq(rest)
    BY <1>1, <2>4, MadeSeq
  <2>6. NetOK(rest) /\ \A i \in DOMAIN rest : Typed(rest[i])
    BY <1>1, <2>1, <2>3, <2>4, <2>5 DEF NetOK
  <2> QED BY <2>4, <2>6 DEF AllTyped, Range
<1> QED BY <1>2, <1>3 DEF Left

LEMMA OpenedFields ==
  ASSUME NEW to, Reached(to)
  PROVE  FieldsOK(OpenedPage(to), to) /\ OpenedPage(to).kind = to.at
<1>1. 0 \in 0..Banks /\ 0 \in 0..Polls
  BY PagesAssumption
<1>2. CASE to.at = "prep"
  <2>1. ImportClosed \in ImportType
    BY DEF ImportClosed, ImportType, Reset, NoPreview, WpsClosed
  <2>2. 0 \in Keywords
    BY PagesAssumption
  <2>3. PrepOpened \in PrepType
    BY <1>1, <2>1, <2>2 DEF PrepOpened, PrepType, Modals, NoGithub
  <2> QED BY <1>2, <2>3, FieldsOf, OpenedShape DEF OpenedPage
<1>3. CASE to.at \in {"hub", "list"}
  <2>1. ListOpened(to.at) \in ListType
    BY <1>3 DEF ListOpened, ListType
  <2> QED BY <1>3, <2>1, FieldsOf, OpenedShape DEF OpenedPage
<1>4. CASE to.at = "bank"
  <2>1. ImportClosed \in ImportType
    BY DEF ImportClosed, ImportType, Reset, NoPreview, WpsClosed
  <2>2. BankOpened \in BankType
    BY <1>1, <2>1 DEF BankOpened, BankType, NoDialog
  <2> QED BY <1>4, <2>2, FieldsOf, OpenedShape DEF OpenedPage
<1>5. CASE to.at = "resumes"
  <2>1. ResumesOpened \in ResumesType
    BY DEF ResumesOpened, ResumesType
  <2> QED BY <1>5, <2>1, FieldsOf, OpenedShape DEF OpenedPage
<1>6. CASE to.at = "jobs"
  <2>1. JobsOpened \in JobsType
    BY DEF JobsOpened, JobsType, NoDialog
  <2> QED BY <1>6, <2>1, FieldsOf, OpenedShape DEF OpenedPage
<1>7. CASE to.at = "report"
  <2>1. ReportOpened(to.id) \in ReportType(Sessions)
    BY <1>1, <1>7 DEF ReportOpened, ReportType, Reached, RouteOK
  <2> QED BY <1>7, <2>1, FieldsOf, OpenedShape DEF OpenedPage
<1>8. CASE to.at = "detail"
  <2>1. DetailOpened(to.id) \in DetailType
    BY <1>8 DEF DetailOpened, DetailType, Reached
  <2> QED BY <1>8, <2>1, FieldsOf, OpenedShape DEF OpenedPage
<1>9. CASE to.at = "login"
  <2>1. LoginOpened \in LoginType
    BY DEF LoginOpened, LoginType, LoginModes
  <2> QED BY <1>9, <2>1, FieldsOf, OpenedShape DEF OpenedPage
<1>10. CASE to.at \notin Stateful
  <2>1. OpenedPage(to) = Plain(to.at, to.id)
    BY <1>10 DEF OpenedPage, Stateful
  <2>2. OpenedPage(to).kind = to.at
    BY OpenedShape
  <2> QED BY <1>10, <2>1, <2>2 DEF FieldsOK, Stateful
<1> QED BY <1>2, <1>3, <1>4, <1>5, <1>6, <1>7, <1>8, <1>9, <1>10 DEF Stateful

LEMMA LoadsTyped ==
  ASSUME NEW from, NEW to
  PROVE  LET reqs == ReadsUser(from, to) \o Loads(to) IN
         /\ \A i \in DOMAIN reqs : Asked(reqs[i])
         /\ to.at \in {"hub", "list"} => \A i \in DOMAIN reqs : reqs[i].op \in {"listInterviews", "me"}
<1>1. 0 \in 0..Banks
  BY PagesAssumption
<1>2. ASSUME NEW op, NEW ids, Usual(op)
      PROVE  /\ Asked(Req(op, ids)) /\ Req(op, ids).op = op
             /\ Asked([Req(op, ids) EXCEPT !.from = "page"])
  BY <1>1, <1>2 DEF Asked, Req, Usual
<1>3. \A op \in {"me", "listJobs", "listInterviews", "listResumes", "getReport", "parts",
                 "getInterview", "listQuestions"} : Usual(op)
  BY DEF Usual, FileOps, TextOps
<1> DEFINE Right(r) == Asked(r) /\ (to.at \in {"hub", "list"} => r.op \in {"listInterviews", "me"})
<1>4. \A r \in Range(ReadsUser(from, to)) : Right(r)
  <2>1. ReadsUser(from, to) = <<>> \/ ReadsUser(from, to) = <<Req("me", {})>>
    BY DEF ReadsUser
  <2>2. Right(Req("me", {}))
    BY <1>2, <1>3
  <2> HIDE DEF Right
  <2> QED BY <2>1, <2>2 DEF Range
<1>5. \A r \in Range(Loads(to)) : Right(r)
  <2>1. ASSUME NEW op, Usual(op), NEW ids, to.at \in {"hub", "list"} => op \in {"listInterviews", "me"}
        PROVE  Right(Req(op, ids)) /\ (op # "listInterviews" => Right([Req(op, ids) EXCEPT !.from = "page"]))
    <3>1. [Req(op, ids) EXCEPT !.from = "page"].op = op
      BY DEF Req
    <3> QED BY <1>2, <2>1, <3>1
  <2> HIDE DEF Right
  <2>2. ASSUME NEW r, Right(r), Loads(to) = <<r>> PROVE \A x \in Range(Loads(to)) : Right(x)
    BY <2>2 DEF Range
  <2>3. CASE to.at = "jobs"
    <3>1. Loads(to) = <<Req("listJobs", {})>>
      BY <2>3 DEF Loads
    <3> QED BY <1>3, <2>1, <2>2, <2>3, <3>1
  <2>4. CASE to.at \in {"hub", "list"}
    <3>1. Loads(to) = <<Req("listInterviews", {})>>
      BY <2>4 DEF Loads
    <3> QED BY <1>3, <2>1, <2>2, <3>1
  <2>5. CASE to.at = "bank"
    <3>1. Loads(to) = <<[Req("listQuestions", {}) EXCEPT !.from = "page"]>>
      BY <2>5 DEF Loads, LoadBank, Asks
    <3> QED BY <1>3, <2>1, <2>2, <2>5, <3>1
  <2>6. CASE to.at = "resumes"
    <3>1. Loads(to) = <<Req("listResumes", {})>>
      BY <2>6 DEF Loads
    <3> QED BY <1>3, <2>1, <2>2, <2>6, <3>1
  <2>7. CASE to.at = "report"
    <3>1. Loads(to) = <<Req("getReport", {to.id}), Req("parts", {to.id})>>
      BY <2>7 DEF Loads, ReportLoads
    <3>2. Right(Req("getReport", {to.id})) /\ Right(Req("parts", {to.id}))
      BY <1>3, <2>1, <2>7
    <3> QED BY <3>1, <3>2 DEF Range
  <2>8. CASE to.at = "detail"
    <3>1. Loads(to) = <<Req("getInterview", {to.id})>>
      BY <2>8 DEF Loads
    <3> QED BY <1>3, <2>1, <2>2, <2>8, <3>1
  <2>9. CASE to.at \notin {"jobs", "hub", "list", "resumes", "bank", "report", "detail"}
    <3>1. Loads(to) = <<>>
      BY <2>9 DEF Loads
    <3> QED BY <3>1 DEF Range
  <2> QED BY <2>3, <2>4, <2>5, <2>6, <2>7, <2>8, <2>9
<1>6. IsSeq(ReadsUser(from, to)) /\ IsSeq(Loads(to))
  BY LoadsOK, ShortSeq DEF ReadsUser
<1>7. Range(ReadsUser(from, to) \o Loads(to)) = Range(ReadsUser(from, to)) \cup Range(Loads(to))
  BY <1>6, RangeConcat
<1>8. \A r \in Range(ReadsUser(from, to) \o Loads(to)) : Right(r)
  BY <1>4, <1>5, <1>7
<1> QED BY <1>8 DEF Range

\* The effects of a page that is mounted ask for all that it then waits for.
LEMMA LoadsEnd ==
  ASSUME NEW to, NEW w \in Sharp(OpenedPage(to))
  PROVE  \E r \in Range(Loads(to)) : Tag(r) \in w
<1>1. \A op, ids : Tag(Req(op, ids)) = op
  BY DEF Tag, Req
<1>2. ASSUME NEW r, Loads(to) = <<r>>, Tag(r) \in w PROVE \E x \in Range(Loads(to)) : Tag(x) \in w
  BY <1>2 DEF Range
<1>3. CASE to.at = "prep"
  <2>1. Sharp(PrepOpened) = {}
    BY DEF PrepOpened, NoGithub, ImportClosed, Reset, WpsClosed, Sharp, ImportWaits, When
  <2> QED BY <1>3, <2>1 DEF OpenedPage
<1>4. CASE to.at \in {"hub", "list"}
  <2>1. w = {"listInterviews"}
    BY <1>4 DEF OpenedPage, ListOpened, Sharp, Waits, When
  <2>2. Loads(to) = <<Req("listInterviews", {})>>
    BY <1>4 DEF Loads
  <2> QED BY <1>1, <1>2, <2>1, <2>2
<1>5. CASE to.at = "bank"
  <2>1. w = Lists
    BY <1>5 DEF OpenedPage, BankOpened, ImportClosed, Reset, WpsClosed, Sharp, ImportWaits, When
  <2>2. Loads(to) = <<[Req("listQuestions", {}) EXCEPT !.from = "page"]>>
    BY <1>5 DEF Loads, LoadBank, Asks
  <2>3. Tag([Req("listQuestions", {}) EXCEPT !.from = "page"]) = "listQuestions"
    BY DEF Tag, Req
  <2> QED BY <1>2, <2>1, <2>2, <2>3 DEF Lists
<1>6. CASE to.at \in {"resumes", "jobs", "login"}
  <2>1. Sharp(OpenedPage(to)) = {}
    BY <1>6 DEF OpenedPage, ResumesOpened, JobsOpened, LoginOpened, Sharp, Waits, ResumesWaits,
                JobsWaits, LoginWaits, When
  <2> QED BY <2>1
<1>7. CASE to.at = "report"
  <2>1. w = {"getReport"}
    BY <1>7 DEF OpenedPage, ReportOpened, Sharp, Waits, ReportWaits, When
  <2>2. Loads(to) = <<Req("getReport", {to.id}), Req("parts", {to.id})>>
    BY <1>7 DEF Loads, ReportLoads
  <2>3. Req("getReport", {to.id}) \in Range(Loads(to))
    BY <2>2 DEF Range
  <2> QED BY <1>1, <2>1, <2>3
<1>8. CASE to.at = "detail"
  <2>1. w = {"getInterview"}
    BY <1>8 DEF OpenedPage, DetailOpened, Sharp, Waits, DetailWaits, When
  <2>2. Loads(to) = <<Req("getInterview", {to.id})>>
    BY <1>8 DEF Loads
  <2> QED BY <1>1, <1>2, <2>1, <2>2
<1>9. CASE to.at \notin Stateful
  <2>1. OpenedPage(to).kind \notin Stateful
    BY <1>9, OpenedShape
  <2> QED BY <2>1, PlainWaits
<1> QED BY <1>3, <1>4, <1>5, <1>6, <1>7, <1>8, <1>9 DEF Stateful

-----------------------------------------------------------------------------
(* Nothing hangs, and everything is of its type. *)

\* Someone is waited for: a request of the page that ends the wait is under way.
Pending(s, w) == \E r \in Range(s) : r.mine /\ Tag(r) \in w
PageTyped == FieldsOK(page, path) /\ Reached(path) /\ AllTyped(net)
Waited == \A w \in Sharp(page) : Pending(net, w)
StoreTyped ==
  /\ login \in [token : 0..Mock, user : 0..Mock] /\ live \subseteq 1..MaxLogins
  /\ db \in DbType /\ moves \in 0..Moves
HangInv == PageTyped /\ Waited /\ StoreTyped

LEMMA PagePrimed ==
  ASSUME FieldsOK(page', path'), Reached(path'), AllTyped(net'),
         \A w \in Sharp(page') : Pending(net', w)
  PROVE  PageTyped' /\ Waited'
  BY DEF PageTyped, FieldsOK, Reached, AllTyped, Waited, Pending

LEMMA PendingConcat ==
  ASSUME NEW s, NEW t, IsSeq(s), IsSeq(t), NEW w, Pending(s, w) \/ Pending(t, w)
  PROVE  Pending(s \o t, w)
<1>1. Range(s \o t) = Range(s) \cup Range(t)
  BY RangeConcat
<1> HIDE DEF Pending
<1>2. CASE Pending(s, w)
  BY <1>1, <1>2 DEF Pending
<1>3. CASE Pending(t, w)
  BY <1>1, <1>3 DEF Pending
<1> QED BY <1>2, <1>3
\* Of the requests just sent by the page that is shown.
LEMMA PendingIssued ==
  ASSUME NEW reqs, NEW l, NEW who, NEW w, NEW r \in Range(reqs), Tag(r) \in w
  PROVE  Pending(Issued(reqs, l, who, TRUE), w)
<1>1. PICK i \in DOMAIN reqs : r = reqs[i]
  BY DEF Range
<1> DEFINE s == Issued(reqs, l, who, TRUE)
<1>2. /\ i \in DOMAIN s /\ s[i].op = r.op /\ s[i].from = r.from /\ s[i].mine = TRUE
  BY <1>1 DEF Issued
<1> HIDE DEF s
<1>3. s[i] \in Range(s) /\ Tag(s[i]) = Tag(r)
  BY <1>2 DEF Range, Tag
<1> QED BY <1>2, <1>3 DEF Pending, s

\* Where the browser goes.
LEMMA RenderedReached ==
  ASSUME NEW l, NEW e, Reached(path), Fits(e), e.go.at = "detail" => e.go.id \in Sessions
  PROVE  Reached(Rendered(l, e))
<1>1. Reached(Route("login", 0)) /\ Reached(Route("hub", 0))
  BY DEF Reached, RouteOK, Route, Protected, WithTopBar, Public
<1>2. ASSUME NEW to, Reached(to) PROVE Reached(Landing(l, to))
  BY <1>1, <1>2 DEF Landing
<1>3. CASE e.go = Stay
  BY <1>2, <1>3 DEF Rendered
<1>4. CASE e.go # Stay
  <2>1. Reached(e.go)
    BY <1>4 DEF Fits, Reached
  <2> QED BY <1>2, <1>4, <2>1 DEF Rendered
<1> QED BY <1>3, <1>4

LEMMA BecomesTyped ==
  ASSUME PageTyped, NEW l, l.token \in 0..Mock, NEW e, NEW who, NEW mine \in BOOLEAN, NEW rest,
         Becomes(l, e, who, mine, rest), IsSeq(e.send), Fits(e),
         e.go.at = "detail" => e.go.id \in Sessions,
         Reached(who), who.at \in {"hub", "list"} => e.send = <<>>,
         AllTyped(rest),
         mine /\ Rendered(l, e) = path =>
           /\ FieldsOK(e.page, path)
           /\ \A w \in Sharp(e.page) : Ends(e.send, w) \/ Pending(rest, w),
         ~mine => \A w \in Sharp(page) : Pending(rest, w)
  PROVE  PageTyped' /\ Waited'
<1> DEFINE to == Rendered(l, e)
           sent == Issued(e.send, l, who, mine /\ to = path)
           loads == ReadsUser(path, to) \o Loads(to)
           opened == Issued(loads, l, to, TRUE)
<1>1. Reached(to)
  BY RenderedReached DEF PageTyped
<1>2. AllTyped(sent)
  <2>1. \A i \in DOMAIN e.send : Asked(e.send[i])
    BY DEF Fits
  <2>2. who.at \in {"hub", "list"} => \A i \in DOMAIN e.send : e.send[i].op \in {"listInterviews", "me"}
    OBVIOUS
  <2> QED BY <2>1, <2>2, TypedIssued
<1>3. CASE to = path
  <2>1. /\ path' = path /\ net' = rest \o sent
        /\ mine => page' = e.page
        /\ ~mine => page' = page
    BY <1>3 DEF Becomes
  <2>2. ASSUME NEW w, mine, Ends(e.send, w) PROVE Pending(sent, w)
    <3>1. \E r \in Range(e.send) : Tag(r) \in w
      BY <2>2 DEF Ends, Range
    <3>2. sent = Issued(e.send, l, who, TRUE)
      BY <1>3, <2>2
    <3> HIDE DEF sent
    <3> QED BY <3>1, <3>2, PendingIssued
  <2> HIDE DEF sent, to
  <2>3. AllTyped(net')
    BY <1>2, <2>1, TypedConcat
  <2>4. FieldsOK(page', path')
    BY <1>3, <2>1 DEF to, PageTyped
  <2>5. IsSeq(rest) /\ IsSeq(sent)
    BY <1>2 DEF AllTyped, NetOK
  <2>6. \A w \in Sharp(page') : Pending(net', w)
    <3>1. CASE mine
      BY <1>3, <2>1, <2>2, <2>5, <3>1, PendingConcat DEF to
    <3>2. CASE ~mine
      BY <2>1, <2>5, <3>2, PendingConcat
    <3> QED BY <3>1, <3>2
  <2> QED BY <1>1, <1>3, <2>1, <2>3, <2>4, <2>6, PagePrimed
<1>4. CASE to # path
  <2>1. /\ path' = to /\ page' = OpenedPage(to)
        /\ net' = IF to.at = "wps" THEN <<>> ELSE Disowned(rest) \o sent \o opened
    BY <1>4 DEF Becomes
  <2>2. FieldsOK(page', path') /\ Reached(path')
    BY <1>1, <2>1, OpenedFields
  <2>3. AllTyped(opened)
    <3>1. IsSeq(loads)
      BY LoadsOK
    <3> QED BY <1>1, <3>1, LoadsTyped, TypedIssued
  <2>4. AllTyped(Disowned(rest))
    BY TypedDisowned
  <2>5. ASSUME NEW w \in Sharp(page') PROVE Pending(opened, w)
    <3>1. IsSeq(ReadsUser(path, to)) /\ IsSeq(Loads(to))
      BY LoadsOK, ShortSeq DEF ReadsUser
    <3>2. \E r \in Range(loads) : Tag(r) \in w
      BY <2>1, <2>5, <3>1, LoadsEnd, RangeConcat
    <3> QED BY <3>2, PendingIssued
  <2>6. to.at = "wps" => Sharp(page') = {}
    BY <2>1, OpenedShape, PlainWaits DEF Stateful
  <2> HIDE DEF sent, opened, loads, to
  <2>7. AllTyped(Disowned(rest) \o sent \o opened) /\ AllTyped(Disowned(rest) \o sent)
    BY <1>2, <2>3, <2>4, TypedConcat
  <2>8. \A w \in Sharp(page') : Pending(Disowned(rest) \o sent \o opened, w)
    BY <2>3, <2>5, <2>7, PendingConcat DEF AllTyped, NetOK
  <2>9. AllTyped(<<>>)
    BY ShortSeq DEF AllTyped, NetOK, Range
  <2>10. AllTyped(net') /\ \A w \in Sharp(page') : Pending(net', w)
    BY <2>1, <2>6, <2>7, <2>8, <2>9
  <2> QED BY <2>2, <2>10, PagePrimed
<1> QED BY <1>3, <1>4

\* An answer that leads away from a login or a session's page does lead away.
LEMMA GoneIsGone ==
  ASSUME NEW l, NEW f, NEW p, NEW r, Gone(f, p, r), r.op = "exchange" => LoggedIn(l),
         p.kind = path.at
  PROVE  Rendered(l, f) # path
<1>1. /\ f.go.at \in {"room", "wps", "hub"} /\ path.at \in {"detail", "login"}
      /\ f.go.at = "hub" => LoggedIn(l)
      /\ path.at = "login" => f.go.at # "room"
  BY DEF Gone, Leaves
<1>2. f.go # Stay
  BY <1>1 DEF Stay, Route
<1>3. Rendered(l, f) = Landing(l, f.go)
  BY <1>2 DEF Rendered
<1>4. Landing(l, f.go).at \in {"login", f.go.at}
  BY <1>1 DEF Landing, Route
<1>5. f.go.at \in {"wps", "hub"} => Landing(l, f.go) = f.go
  BY <1>1 DEF Landing, Protected, WithTopBar, Tabs
<1> QED BY <1>1, <1>3, <1>4, <1>5

LEMMA NetTyped ==
  ASSUME PageTyped, NEW k \in DOMAIN net PROVE Typed(net[k])
  BY DEF PageTyped, AllTyped, Range

\* The waits of a page that one request, not its own or not awaited, is taken from.
LEMMA PendingLeft ==
  ASSUME PageTyped, Waited, NEW k \in DOMAIN net, NEW rest \in Left(k),
         NEW w \in Sharp(page), net[k].mine => Tag(net[k]) \notin w
  PROVE  Pending(rest, w)
<1>1. PICK i \in DOMAIN net : net[i].mine /\ Tag(net[i]) \in w
  BY DEF Waited, Pending, Range
<1>2. net[i] \in Range(rest)
  BY <1>1, TypedLeft DEF PageTyped
<1> QED BY <1>1, <1>2 DEF Pending

\* An answer to the page, or the 20 seconds over; "f" may also lead to the login page.
LEMMA AnswerHangs ==
  ASSUME PageInv, RoomInv, PageTyped, Waited, NEW k \in DOMAIN net,
         NEW ok \in BOOLEAN, NEW denied \in BOOLEAN, ok /\ net[k].op \in Key => net[k].at = "ok",
         NEW l, l.token \in 0..Mock, NEW f, NEW rest \in Left(k),
         f.page = Handled(net[k], ok, denied).page, f.send = Handled(net[k], ok, denied).send,
         f.go = Handled(net[k], ok, denied).go \/ (~ok /\ f.go = Route("login", 0)),
         ok /\ net[k].op = "exchange" => LoggedIn(l),
         Becomes(l, f, net[k].who, net[k].mine, rest)
  PROVE  PageTyped' /\ Waited'
<1> DEFINE r == net[k]
           p == Asker(r)
           e == Handled(r, ok, denied)
           to == IF r.mine THEN path ELSE r.who
<1>1. /\ r.mine \in BOOLEAN /\ Truthful(r, db) /\ (r.mine => r.who = path) /\ Typed(r)
  BY NetEntry, NetTyped
<1>2. p.kind = r.who.at /\ (r.mine => p = page)
  BY <1>1, AskerReady, AskerPage
<1>3. FieldsOK(p, to) /\ (r.mine => to = path)
  <2>1. CASE r.mine
    BY <2>1 DEF PageTyped, Asker
  <2>2. CASE ~r.mine
    BY <1>1, <2>2, OpenedFields DEF Typed, Asker
  <2> QED BY <2>1, <2>2
<1>4. /\ Fits(e)
      /\ r.mine => Onward(e, p, to, Tag(r)) \/ (ok /\ Gone(e, p, r))
      /\ p.kind \in {"hub", "list"} => e.send = <<>>
  BY <1>1, <1>2, <1>3, HandledFits DEF Typed
<1>5. Leads(e, db) /\ AsksRightly(e, r.who)
  BY <1>1, HandledReady
<1> HIDE DEF e, p, to, r
<1>6. /\ f.page = e.page /\ f.send = e.send
      /\ f.go = e.go \/ (~ok /\ f.go = Route("login", 0))
  BY DEF e, r
<1>7. Fits(f) /\ IsSeq(f.send) /\ (f.go.at = "detail" => f.go.id \in Sessions)
  <2>1. RouteOK(Route("login", 0)) /\ Route("login", 0).at = "login"
    BY DEF RouteOK, Route, Public
  <2> QED BY <1>4, <1>5, <1>6, <2>1 DEF Fits, Leads, AsksRightly
<1>8. AllTyped(rest)
  BY TypedLeft DEF PageTyped
<1>9. ASSUME r.mine, Rendered(l, f) = path
      PROVE  /\ FieldsOK(f.page, path)
             /\ \A w \in Sharp(f.page) : Ends(f.send, w) \/ Pending(rest, w)
  <2>1. ~(ok /\ Gone(e, p, r))
    <3>1. SUFFICES ASSUME ok, Gone(e, p, r) PROVE FALSE
      OBVIOUS
    <3>2. Gone(f, p, r)
      BY <1>6, <1>7, <3>1 DEF Gone, Leaves
    <3>3. p.kind = path.at
      BY <1>1, <1>2, <1>9
    <3>4. r.op = "exchange" => LoggedIn(l)
      BY <3>1 DEF r
    <3> QED BY <1>9, <3>2, <3>3, <3>4, GoneIsGone
  <2>2. Onward(e, page, path, Tag(r))
    BY <1>2, <1>3, <1>4, <1>9, <2>1
  <2>3. ASSUME NEW w \in Sharp(f.page) PROVE Ends(f.send, w) \/ Pending(rest, w)
    <3>1. Ends(f.send, w) \/ (w \in Sharp(page) /\ Tag(r) \notin w)
      BY <1>6, <2>2, <2>3 DEF Onward, Turned, Ended
    <3> QED BY <3>1, PendingLeft DEF r
  <2> QED BY <1>6, <2>2, <2>3 DEF Onward
<1>10. ~r.mine => \A w \in Sharp(page) : Pending(rest, w)
  BY PendingLeft DEF r
<1>11. Reached(r.who) /\ (r.who.at \in {"hub", "list"} => f.send = <<>>)
  BY <1>1, <1>2, <1>4, <1>6 DEF Typed
<1>12. Becomes(l, f, r.who, r.mine, rest)
  BY DEF r
<1> QED BY <1>1, <1>7, <1>8, <1>9, <1>10, <1>11, <1>12, BecomesTyped

\* What a handler sends nothing by and leaves the page as it is.
LEMMA GoesHangs ==
  ASSUME PageInv, RoomInv, PageTyped, Waited, NEW to, RouteOK(to) /\ to.at # "detail",
         NEW l, l.token \in 0..Mock,
         Becomes(l, Goes(page, to), path, TRUE, net) \/ Becomes(l, Nothing(page), path, TRUE, net)
  PROVE  PageTyped' /\ Waited'
<1>1. ASSUME NEW e \in {Goes(page, to), Nothing(page)}
      PROVE  /\ e.page = page /\ e.send = <<>> /\ Fits(e) /\ IsSeq(e.send) /\ e.go.at # "detail"
  BY EffectPage, FitForms, ShortSeq DEF Nothing, Goes, Shows, Stay, Route
<1>2. AllTyped(net) /\ Reached(path) /\ FieldsOK(page, path)
  BY DEF PageTyped
<1>3. \A w \in Sharp(page) : Pending(net, w)
  BY DEF Waited
<1>4. PICK e \in {Goes(page, to), Nothing(page)} : Becomes(l, e, path, TRUE, net)
  OBVIOUS
<1> QED BY <1>1, <1>2, <1>3, <1>4, BecomesTyped

\* What does not touch the pages.
LEMMA UntouchedHangs ==
  ASSUME PageTyped, Waited, UNCHANGED <<page, path, net>> PROVE PageTyped' /\ Waited'
  BY PagePrimed DEF PageTyped, Waited

\* The numbers of logins.
LEMMA LoginNumbers ==
  ASSUME StoreTyped
  PROVE  /\ Mock \in Nat /\ MaxLogins \in 1..Mock /\ 0 \in 0..Mock /\ 1..MaxLogins \subseteq 0..Mock
         /\ IsFiniteSet(live) /\ Cardinality(live) \in Nat
         /\ Cardinality(live) < MaxLogins => Cardinality(live) + 1 \in 1..MaxLogins
<1>1. MaxLogins \in Nat /\ MaxLogins # 0
  BY PagesAssumption
<1>2. IsFiniteSet(1..MaxLogins)
  BY <1>1, FS_Interval
<1>3. IsFiniteSet(live)
  BY <1>2, FS_Subset DEF StoreTyped
<1>4. Cardinality(live) \in Nat
  BY <1>3, FS_CardinalityType
<1> QED BY <1>1, <1>3, <1>4 DEF Mock
LEMMA LoginTyped ==
  ASSUME StoreTyped, NEW r, r.by \in 0..Mock
  PROVE  /\ Denied(r).login \in [token : 0..Mock, user : 0..Mock]
         /\ r.op = "exchange" /\ Cardinality(live) < MaxLogins =>
              LoginAfter(r) \in [token : 0..Mock, user : 0..Mock]
              /\ LoggedIn(LoginAfter(r)) /\ LoginAfter(r).token \in 1..MaxLogins
         /\ r.op # "exchange" => LoginAfter(r) \in [token : 0..Mock, user : 0..Mock]
<1>1. /\ login \in [token : 0..Mock, user : 0..Mock] /\ 0 \in 0..Mock
      /\ 1..MaxLogins \subseteq 0..Mock
      /\ Cardinality(live) < MaxLogins => Cardinality(live) + 1 \in 1..MaxLogins
  BY LoginNumbers DEF StoreTyped
<1>2. Denied(r).login \in [token : 0..Mock, user : 0..Mock]
  BY <1>1 DEF Denied, NoLogin
<1>3. ASSUME NEW n \in 1..MaxLogins
      PROVE  As(n) \in [token : 0..Mock, user : 0..Mock] /\ LoggedIn(As(n)) /\ As(n).token = n
  BY <1>1 DEF As, LoggedIn
<1>4. r.op = "exchange" => LoginAfter(r) = As(Cardinality(live) + 1)
  BY DEF LoginAfter
<1>5. r.op # "exchange" => LoginAfter(r) \in [token : 0..Mock, user : 0..Mock]
  BY <1>1 DEF LoginAfter
<1> QED BY <1>1, <1>2, <1>3, <1>4, <1>5

LEMMA DeliverHangs ==
  ASSUME PageInv, RoomInv, HangInv, NEW k \in DOMAIN net, Deliver(k) PROVE HangInv'
<1> DEFINE r == net[k]
           L == [token : 0..Mock, user : 0..Mock]
<1>1. PICK a \in Answers(r) :
        IF a = "denied"
        THEN LET d == Denied(r)
                 e == Handled(r, FALSE, TRUE) IN
             Becomes(d.login, IF d.go = Stay THEN e ELSE [e EXCEPT !.go = d.go],
                     r.who, r.mine, RemoveAt(net, k)) /\ UNCHANGED live
        ELSE /\ Becomes(IF a = "ok" THEN LoginAfter(r) ELSE login, Handled(r, a = "ok", FALSE),
                        r.who, r.mine, RemoveAt(net, k))
             /\ live' = IF a = "ok" /\ r.op = "exchange" THEN live \cup {login'.token} ELSE live
  BY DEF Deliver
<1>2. /\ RemoveAt(net, k) \in Left(k) /\ UNCHANGED <<db, moves>>
      /\ r.op = "exchange" => Cardinality(live) < MaxLogins
  BY DEF Left, Deliver
<1>3. PageTyped /\ Waited /\ StoreTyped /\ r.by \in 0..Mock
  BY NetTyped DEF HangInv, Typed
<1>4. /\ Denied(r).login \in L
      /\ LoginAfter(r) \in L /\ (r.op = "exchange" => /\ LoggedIn(LoginAfter(r))
                                                      /\ LoginAfter(r).token \in 1..MaxLogins)
      /\ login \in L
  BY <1>2, <1>3, LoginTyped DEF StoreTyped
<1>5. CASE a = "denied"
  <2> DEFINE e == Handled(r, FALSE, TRUE)
             to == Denied(r).go
             f == IF to = Stay THEN e ELSE [e EXCEPT !.go = to]
  <2>1. Becomes(Denied(r).login, f, r.who, r.mine, RemoveAt(net, k)) /\ UNCHANGED live
    BY <1>1, <1>5
  <2>2. IsEffect(e)
    BY HandledIsEffect
  <2>3. to = Stay \/ to = Route("login", 0)
    BY DEF Denied
  <2> HIDE DEF e, to
  <2>4. f.page = e.page /\ f.send = e.send /\ (f.go = e.go \/ f.go = Route("login", 0))
    BY <2>2, <2>3 DEF IsEffect
  <2>5. login' = Denied(r).login /\ Denied(r).login.token \in 0..Mock
    BY <1>4, <2>1 DEF Becomes
  <2> HIDE DEF f
  <2>6. PageTyped' /\ Waited'
    BY <1>2, <1>3, <2>1, <2>4, <2>5, AnswerHangs DEF e
  <2>7. StoreTyped'
    BY <1>2, <1>3, <1>4, <2>1, <2>5 DEF StoreTyped
  <2> QED BY <2>6, <2>7 DEF HangInv
<1>6. CASE a # "denied"
  <2> DEFINE ok == a = "ok"
             l == IF ok THEN LoginAfter(r) ELSE login
  <2>1. /\ Becomes(l, Handled(r, ok, FALSE), r.who, r.mine, RemoveAt(net, k))
        /\ live' = IF ok /\ r.op = "exchange" THEN live \cup {login'.token} ELSE live
    BY <1>1, <1>6
  <2>2. ok \in BOOLEAN /\ (ok /\ r.op \in Key => r.at = "ok")
    BY DEF Answers, Key, Starts, Stored, Reads, Writes
  <2>3. /\ login' = l /\ l \in L /\ l.token \in 0..Mock
        /\ ok /\ r.op = "exchange" => LoggedIn(l) /\ l.token \in 1..MaxLogins
    BY <1>4, <2>1 DEF Becomes
  <2>4. StoreTyped'
    BY <1>2, <1>3, <2>1, <2>3 DEF StoreTyped
  <2> HIDE DEF ok, l
  <2>5. PageTyped' /\ Waited'
    BY <1>2, <1>3, <2>1, <2>2, <2>3, AnswerHangs
  <2> QED BY <2>4, <2>5 DEF HangInv
<1> QED BY <1>5, <1>6

LEMMA TimesOutHangs ==
  ASSUME PageInv, RoomInv, HangInv, NEW k \in DOMAIN net, TimesOut(k) PROVE HangInv'
<1> DEFINE r == net[k]
           rest == IF r.at = "sent" /\ r.op \in Writes
                   THEN [net EXCEPT ![k].at = "late", ![k].mine = FALSE] ELSE RemoveAt(net, k)
<1>1. /\ Becomes(login, Handled(r, FALSE, FALSE), r.who, r.mine, rest)
      /\ UNCHANGED <<live, db, moves>>
  BY DEF TimesOut
<1>2. rest \in Left(k)
  BY DEF Left
<1>3. login.token \in 0..Mock /\ login' = login
  BY <1>1 DEF HangInv, StoreTyped, Becomes
<1> HIDE DEF rest
<1>4. PageTyped' /\ Waited'
  BY <1>1, <1>2, <1>3, AnswerHangs DEF HangInv
<1>5. StoreTyped'
  BY <1>1, <1>3 DEF HangInv, StoreTyped
<1> QED BY <1>4, <1>5 DEF HangInv

LEMMA ServeHangs ==
  ASSUME RoomInv, HangInv, NEW k \in DOMAIN net, Serve(k) PROVE HangInv'
<1> DEFINE r == net[k]
<1>1. PICK o \in Outcomes(db, r) \cup Fails(db)
                 \cup {[at |-> "denied", val |-> NoValue, db |-> db]} :
        /\ db' = o.db
        /\ net' = IF r.at = "late" THEN RemoveAt(net, k)
                  ELSE [net EXCEPT ![k].at = o.at, ![k].val = o.val]
  BY DEF Serve
<1>2. /\ r.op \in Stored /\ UNCHANGED <<login, live, path, page, moves>>
      /\ r.at \in {"sent", "late"}
  BY DEF Serve
<1>3. /\ PageTyped /\ Waited /\ StoreTyped /\ Typed(r) /\ Truthful(r, db) /\ Formed(r)
      /\ AllTyped(net) /\ IsSeq(net)
  BY NetTyped, NetEntry DEF HangInv, PageTyped, AllTyped, NetOK
<1>4. ServedAs(r.op, o, db)
  BY <1>2, <1>3, ServedTyped DEF StoreTyped, Typed
<1>5. StoreTyped'
  BY <1>1, <1>2, <1>3, <1>4 DEF StoreTyped, ServedAs
<1>6. ASSUME r.at = "late" PROVE AllTyped(net') /\ \A w \in Sharp(page) : Pending(net', w)
  <2>1. net' \in Left(k)
    BY <1>1, <1>6 DEF Left
  <2>2. ~r.mine
    BY <1>3, <1>6 DEF Typed
  <2> HIDE DEF r
  <2> DEFINE rest == RemoveAt(net, k)
  <2>3. net' = rest /\ rest \in Left(k)
    BY <1>1, <1>6 DEF Left, r
  <2> HIDE DEF rest
  <2> QED BY <1>3, <2>2, <2>3, PendingLeft, TypedLeft DEF r
<1>7. ASSUME r.at # "late" PROVE AllTyped(net') /\ \A w \in Sharp(page) : Pending(net', w)
  <2> DEFINE q == [r EXCEPT !.at = o.at, !.val = o.val]
  <2>1. /\ q.mine = r.mine /\ q.op = r.op /\ q.ids = r.ids /\ q.who = r.who
        /\ q.at = o.at /\ q.val = o.val /\ q.to = r.to /\ q.from = r.from
        /\ q.by = r.by /\ {"to", "from", "by"} \subseteq DOMAIN q /\ Formed(q)
    BY <1>3 DEF Formed, Typed
  <2>2. net' = [net EXCEPT ![k] = q]
    BY <1>1, <1>7
  <2> HIDE DEF q, r
  <2>3. Typed(q)
    BY <1>3, <1>4, <2>1 DEF Typed, Asked, Brought, ServedAs
  <2>4. /\ DOMAIN net' = DOMAIN net /\ net' = [i \in DOMAIN net |-> net'[i]]
        /\ \A i \in DOMAIN net : (i = k => net'[i] = q) /\ (i # k => net'[i] = net[i])
    BY <2>2
  <2>5. IsSeq(net')
    BY <1>3, <2>4, MadeSeq
  <2>6. NetOK(net')
    BY <1>3, <2>1, <2>4, <2>5 DEF AllTyped, NetOK
  <2>7. AllTyped(net')
    BY <1>3, <2>3, <2>4, <2>6 DEF AllTyped, Range
  <2>8. \A i \in DOMAIN net : net'[i].mine = net[i].mine /\ Tag(net'[i]) = Tag(net[i])
    BY <2>1, <2>4 DEF Tag, r
  <2>9. \A w \in Sharp(page) : Pending(net', w)
    BY <1>3, <2>4, <2>8 DEF Waited, Pending, Range
  <2> QED BY <2>7, <2>9
<1>8. PageTyped' /\ Waited'
  BY <1>2, <1>3, <1>6, <1>7, PagePrimed DEF PageTyped
<1> QED BY <1>5, <1>8 DEF HangInv

\* The login page opened by the redirect waits for the exchange of the code it came with.
LEMMA ReturnedFits ==
  ASSUME NEW ok \in BOOLEAN
  PROVE  LET e == LoginReturned(ok) IN
         /\ e.page \in LoginType /\ IsSeq(e.send) /\ \A i \in DOMAIN e.send : Asked(e.send[i])
         /\ \A w \in Sharp(e.page) : \E r \in Range(e.send) : Tag(r) \in w
<1>1. LoginOpened \in LoginType
  BY DEF LoginOpened, LoginType, LoginModes
<1>2. CASE ok
  <2> DEFINE p == [LoginOpened EXCEPT !.loading = TRUE]
             r == Req("exchange", {})
  <2>1. LoginReturned(ok).page = p /\ LoginReturned(ok).send = <<r>>
    BY <1>2 DEF LoginReturned, Sends, Asks
  <2>2. p \in LoginType
    BY <1>1 DEF LoginType
  <2>3. Sharp(p) \subseteq {{"authorize", "exchange"}}
    BY <2>2 DEF LoginType, Sharp, Waits, LoginWaits, When
  <2>4. Asked(r) /\ Tag(r) = "exchange"
    BY PagesAssumption DEF Asked, Req, Tag, FileOps, TextOps
  <2> HIDE DEF p, r
  <2>5. IsSeq(<<r>>) /\ Range(<<r>>) = {r} /\ DOMAIN <<r>> = {1} /\ <<r>>[1] = r
    BY ShortSeq DEF Range
  <2> QED BY <2>1, <2>2, <2>3, <2>4, <2>5
<1>3. CASE ~ok
  <2> DEFINE p == [LoginOpened EXCEPT !.failed = TRUE]
  <2>1. LoginReturned(ok).page = p /\ LoginReturned(ok).send = <<>>
    BY <1>3 DEF LoginReturned, Shows
  <2>2. p \in LoginType /\ ~p.loading
    BY <1>1 DEF LoginOpened, LoginType
  <2>3. Sharp(p) = {}
    BY <2>2 DEF LoginType, Sharp, Waits, LoginWaits, When
  <2> HIDE DEF p
  <2>4. IsSeq(<<>>) /\ DOMAIN <<>> = {}
    BY ShortSeq
  <2> QED BY <2>1, <2>2, <2>3, <2>4
<1> QED BY <1>2, <1>3

\* The requests a page that is opened anew issues.
LEMMA OpenedPending ==
  ASSUME NEW from, NEW to, Reached(to), NEW l, l.token \in 0..Mock
  PROVE  LET s == Issued(ReadsUser(from, to) \o Loads(to), l, to, TRUE) IN
         AllTyped(s) /\ \A w \in Sharp(OpenedPage(to)) : Pending(s, w)
<1> DEFINE loads == ReadsUser(from, to) \o Loads(to)
<1>1. IsSeq(loads)
  BY LoadsOK
<1>2. AllTyped(Issued(loads, l, to, TRUE))
  BY <1>1, LoadsTyped, TypedIssued
<1>3. ASSUME NEW w \in Sharp(OpenedPage(to)) PROVE Pending(Issued(loads, l, to, TRUE), w)
  <2>1. IsSeq(ReadsUser(from, to)) /\ IsSeq(Loads(to))
    BY LoadsOK, ShortSeq DEF ReadsUser
  <2>2. \E r \in Range(loads) : Tag(r) \in w
    BY <1>3, <2>1, LoadsEnd, RangeConcat
  <2> QED BY <2>2, PendingIssued
<1> QED BY <1>2, <1>3

LEMMA ReturnHangs ==
  ASSUME HangInv, WpsReturns PROVE HangInv'
<1>1. PICK ok \in BOOLEAN :
        LET e == LoginReturned(ok)
            l == [login EXCEPT !.user = IF login.token = 0 THEN 0 ELSE @]
            at == Route("login", 0)
            to == Landing(l, at) IN
        /\ login' = l
        /\ path' = to
        /\ page' = IF to = at THEN e.page ELSE OpenedPage(to)
        /\ net' = Issued(e.send, l, at, to = at)
                  \o IF to = at THEN <<>> ELSE Issued(ReadsUser(at, to) \o Loads(to), l, to, TRUE)
  BY DEF WpsReturns
<1> DEFINE e == LoginReturned(ok)
           l == [login EXCEPT !.user = IF login.token = 0 THEN 0 ELSE @]
           at == Route("login", 0)
           to == Landing(l, at)
           same == to = at
           sent == Issued(e.send, l, at, same)
           loaded == Issued(ReadsUser(at, to) \o Loads(to), l, to, TRUE)
<1>2. l \in [token : 0..Mock, user : 0..Mock]
  BY LoginNumbers DEF HangInv, StoreTyped
<1>3. StoreTyped'
  BY <1>1, <1>2 DEF WpsReturns, HangInv, StoreTyped
<1>4. Reached(to) /\ Reached(at) /\ at.at = "login"
  BY DEF Landing, Reached, RouteOK, Route, Protected, WithTopBar, Public
<1>5. /\ login' = l /\ path' = to /\ page' = IF same THEN e.page ELSE OpenedPage(to)
      /\ net' = sent \o IF same THEN <<>> ELSE loaded
  BY <1>1
<1>6. l.token \in 0..Mock /\ same \in BOOLEAN
  BY <1>2
<1>7. AllTyped(loaded) /\ \A w \in Sharp(OpenedPage(to)) : Pending(loaded, w)
  BY <1>4, <1>6, OpenedPending
<1>8. AllTyped(sent)
  BY <1>4, <1>6, ReturnedFits, TypedIssued
<1>9. same => e.page \in LoginType /\ \A w \in Sharp(e.page) : Pending(sent, w)
  BY ReturnedFits, PendingIssued
<1>10. ~same => FieldsOK(OpenedPage(to), to)
  BY <1>4, OpenedFields
<1> HIDE DEF e, l, at, to, same, sent, loaded
<1>11. FieldsOK(page', path')
  BY <1>5, <1>9, <1>10, FieldsOf
<1>12. AllTyped(<<>>)
  BY ShortSeq DEF AllTyped, NetOK, Range
<1>13. AllTyped(net')
  BY <1>5, <1>7, <1>8, <1>12, TypedConcat
<1>14. \A w \in Sharp(page') : Pending(net', w)
  BY <1>5, <1>7, <1>8, <1>9, <1>12, PendingConcat DEF AllTyped, NetOK
<1>15. PageTyped' /\ Waited'
  BY <1>4, <1>5, <1>11, <1>13, <1>14, PagePrimed
<1> QED BY <1>3, <1>15 DEF HangInv

LEMMA InitHangs == Init => HangInv
<1> SUFFICES ASSUME Init PROVE HangInv
  OBVIOUS
<1>1. PICK s \in Scenarios :
        /\ path = s.at /\ page = OpenedPage(s.at) /\ db = s.db
        /\ net = Issued(ReadsUser(Route("wps", 0), s.at) \o Loads(s.at), As(1), s.at, TRUE)
        /\ login \in {As(1), NoLogin} /\ live = {1} /\ moves = 0
  BY DEF Init
<1>2. Reached(path) /\ db \in DbType
  BY <1>1, ScenarioAssumption DEF Reached, RouteOK
<1>3. /\ 1 \in 1..MaxLogins /\ 1 \in 0..Mock /\ 0 \in 0..Mock /\ 0 \in 0..Moves
  BY PagesAssumption DEF Mock
<1>4. StoreTyped
  BY <1>1, <1>2, <1>3 DEF StoreTyped, As, NoLogin
<1>5. As(1).token \in 0..Mock
  BY <1>3 DEF As
<1>6. PageTyped
  BY <1>1, <1>2, <1>5, OpenedFields, OpenedPending DEF PageTyped
<1>7. Waited
  BY <1>1, <1>2, <1>5, OpenedPending DEF Waited
<1> QED BY <1>4, <1>6, <1>7 DEF HangInv

LEMMA PressHangs ==
  ASSUME PageInv, RoomInv, PageTyped, Waited, NEW e \in Presses, login.token \in 0..Mock,
         Becomes(login, e, path, TRUE, net)
  PROVE  PageTyped' /\ Waited'
<1>1. FieldsOK(page, path) /\ Reached(path) /\ AllTyped(net) /\ page.kind = path.at
  BY DEF PageTyped, PageInv
<1>2. /\ FieldsOK(e.page, path) /\ Fits(e)
      /\ Ended(e, Sharp(e.page), Sharp(page), "none")
      /\ page.kind \in {"hub", "list"} => e.send = <<>>
  BY <1>1, PressFits DEF Onward, Turned
<1>3. IsSeq(e.send) /\ (e.go.at = "detail" => e.go.id \in Sessions)
  BY PressReady DEF Leads, AsksRightly
<1>4. \A w \in Sharp(e.page) : Ends(e.send, w) \/ Pending(net, w)
  BY <1>2 DEF Ended, Waited
<1> QED BY <1>1, <1>2, <1>3, <1>4, BecomesTyped

LEMMA PollHangs ==
  ASSUME PageInv, RoomInv, PageTyped, Waited, login.token \in 0..Mock, page.kind = "report",
         page.polls < Polls, Becomes(login, Poll(page), path, TRUE, net)
  PROVE  PageTyped' /\ Waited'
<1> DEFINE e == Poll(page)
<1>1. FieldsOK(page, path) /\ Reached(path) /\ AllTyped(net) /\ path.at = "report"
  BY DEF PageTyped, PageInv
<1>2. page \in ReportType(Sessions)
  BY <1>1, FieldsOf
<1>3. FieldsOK(e.page, path) /\ Fits(e) /\ Ended(e, Sharp(e.page), Sharp(page), "none")
  BY <1>2, PollFits, FitOnward DEF Onward, Turned
<1>4. IsSeq(e.send) /\ e.go.at # "detail"
  BY ShortSeq DEF Poll, Sends, Asks, Stay, Route
<1> HIDE DEF e
<1>5. \A w \in Sharp(e.page) : Ends(e.send, w) \/ Pending(net, w)
  BY <1>3 DEF Ended, Waited
<1> QED BY <1>1, <1>3, <1>4, <1>5, BecomesTyped DEF e

\* How often the candidate has moved stays within its bound.
LEMMA MovesTyped ==
  ASSUME StoreTyped, NEW e, NEW l, Becomes(l, e, path, TRUE, net), Moved,
         moves < Moves \/ (e.go = Stay /\ l.user = login.user)
  PROVE  moves' \in 0..Moves
<1>1. Moves \in Nat /\ moves \in 0..Moves
  BY PagesAssumption DEF StoreTyped
<1>2. moves < Moves => moves + 1 \in 0..Moves
  BY <1>1
<1>3. e.go = Stay /\ l.user = login.user => path' = path
  BY DEF Becomes, Rendered
<1> QED BY <1>1, <1>2, <1>3 DEF Moved

LEMMA NextHangs == PageInv /\ RoomInv /\ HangInv /\ [Next]_vars => HangInv'
<1> SUFFICES ASSUME PageInv, RoomInv, HangInv, [Next]_vars PROVE HangInv'
  OBVIOUS
<1>1. /\ PageTyped /\ Waited /\ StoreTyped /\ login.token \in 0..Mock /\ db \in DbType
      /\ login \in [token : 0..Mock, user : 0..Mock]
  BY DEF HangInv, StoreTyped
<1>2. \A at \in Protected \cup Public : at # "report" => RouteOK(Route(at, 0))
  BY DEF RouteOK, Route
<1>3. CASE Press
  <2>1. PICK e \in Presses : /\ MayMove(e) /\ Becomes(login, e, path, TRUE, net) /\ Moved
                             /\ UNCHANGED <<can, live, db>>
    BY <1>3 DEF Press
  <2>2. moves' \in 0..Moves /\ login' = login
    BY <1>1, <2>1, MovesTyped DEF MayMove, Becomes
  <2>3. PageTyped' /\ Waited'
    BY <1>1, <2>1, PressHangs
  <2> QED BY <1>1, <2>1, <2>2, <2>3 DEF HangInv, StoreTyped
<1>4. CASE Navigate
  <2>1. PICK at \in {"hub", "resumes", "list"} \cup Tabs :
          /\ MayMove(Goes(page, Route(at, 0))) /\ Moved /\ UNCHANGED <<can, live, db>>
          /\ Becomes(login, Goes(page, Route(at, 0)), path, TRUE, net)
    BY <1>4 DEF Navigate
  <2>2. RouteOK(Route(at, 0)) /\ Route(at, 0).at # "detail"
    BY <1>2 DEF Tabs, Protected, WithTopBar, Route
  <2>3. PageTyped' /\ Waited'
    BY <1>1, <2>1, <2>2, GoesHangs
  <2>4. moves' \in 0..Moves /\ login' = login
    BY <1>1, <2>1, MovesTyped DEF MayMove, Becomes
  <2> QED BY <1>1, <2>1, <2>3, <2>4 DEF HangInv, StoreTyped
<1>5. CASE HandleLogout
  <2>1. PICK e \in {Nothing(page), Goes(page, Route("notfound", 0))} :
          /\ Becomes(NoLogin, e, path, TRUE, net) /\ Moved /\ moves < Moves
          /\ UNCHANGED <<can, live, db>>
    BY <1>5 DEF HandleLogout
  <2>2. RouteOK(Route("notfound", 0)) /\ Route("notfound", 0).at # "detail"
    BY <1>2 DEF Public, Route
  <2>3. NoLogin \in [token : 0..Mock, user : 0..Mock] /\ NoLogin.token \in 0..Mock
    BY <1>1, LoginNumbers DEF NoLogin
  <2>4. PageTyped' /\ Waited'
    BY <1>1, <2>1, <2>2, <2>3, GoesHangs
  <2>5. moves' \in 0..Moves /\ login' = NoLogin
    BY <1>1, <2>1, MovesTyped DEF Becomes
  <2> QED BY <1>1, <2>1, <2>3, <2>4, <2>5 DEF HangInv, StoreTyped
<1>6. CASE EnterApp
  <2>1. /\ Becomes(As(Mock), Goes(page, Route("hub", 0)), path, TRUE, net) /\ Moved
        /\ moves < Moves /\ UNCHANGED <<can, live, db>>
    BY <1>6 DEF EnterApp
  <2>2. RouteOK(Route("hub", 0)) /\ Route("hub", 0).at # "detail"
    BY <1>2 DEF Protected, WithTopBar, Route
  <2>3. As(Mock) \in [token : 0..Mock, user : 0..Mock] /\ As(Mock).token \in 0..Mock
    BY <1>1, LoginNumbers DEF As
  <2>4. PageTyped' /\ Waited'
    BY <1>1, <2>1, <2>2, <2>3, GoesHangs
  <2>5. moves' \in 0..Moves /\ login' = As(Mock)
    BY <1>1, <2>1, MovesTyped DEF Becomes
  <2> QED BY <1>1, <2>1, <2>3, <2>4, <2>5 DEF HangInv, StoreTyped
<1>7. CASE WpsReturns
  BY <1>7, ReturnHangs
<1>8. CASE \E k \in DOMAIN net : Serve(k) \/ Deliver(k) \/ TimesOut(k)
  BY <1>8, ServeHangs, DeliverHangs, TimesOutHangs
<1>9. CASE PollTick
  <2>1. /\ page.kind = "report" /\ page.polls < Polls /\ UNCHANGED <<can, live, db, moves>>
        /\ Becomes(login, Poll(page), path, TRUE, net)
    BY <1>9 DEF PollTick
  <2>2. PageTyped' /\ Waited' /\ login' = login
    BY <1>1, <2>1, PollHangs DEF Becomes
  <2> QED BY <1>1, <2>1, <2>2 DEF HangInv, StoreTyped
<1>10. CASE Expire
  <2>1. live' \subseteq live /\ UNCHANGED <<login, path, page, net, db, moves>>
    BY <1>10 DEF Expire
  <2> QED BY <1>1, <2>1, UntouchedHangs DEF HangInv, StoreTyped
<1>11. CASE RoomBegins
  <2>1. db' \in DbType /\ UNCHANGED <<login, live, path, page, net, moves>>
    BY <1>1, <1>11, DbChanges DEF RoomBegins, Statuses
  <2> QED BY <1>1, <2>1, UntouchedHangs DEF HangInv, StoreTyped
<1>12. CASE RoomOver
  <2> DEFINE s == path.id
             new == [db EXCEPT !.status[s] = "completed"]
             to == Route("report", s)
  <2>1. new \in DbType
    BY <1>1, DbChanges DEF Statuses
  <2>2. /\ db' = [new EXCEPT !.report[s] = "making"] /\ UNCHANGED <<can, live, moves>>
        /\ Becomes(login, Goes(page, to), path, TRUE, net) /\ path.at = "room"
    BY <1>12 DEF RoomOver
  <2> HIDE DEF new
  <2>3. db' \in DbType
    BY <2>1, <2>2, DbChanges
  <2>4. RouteOK(to) /\ to.at # "detail"
    BY <2>2 DEF RouteOK, Route, Protected, WithTopBar, RoomInv, PageReady
  <2> HIDE DEF to
  <2>5. PageTyped' /\ Waited' /\ login' = login
    BY <1>1, <2>2, <2>4, GoesHangs DEF Becomes
  <2> QED BY <1>1, <2>2, <2>3, <2>5 DEF HangInv, StoreTyped
<1>13. CASE ServerEvaluates
  <2>1. PICK s \in Sessions, x \in {"done", "failed"} :
          db' = [db EXCEPT !.report[s] = x] /\ UNCHANGED <<login, live, path, page, net, moves>>
    BY <1>13 DEF ServerEvaluates
  <2>2. db' \in DbType
    BY <1>1, <2>1, DbChanges
  <2> QED BY <1>1, <2>1, <2>2, UntouchedHangs DEF HangInv, StoreTyped
<1>14. CASE UNCHANGED vars
  <2>1. UNCHANGED <<login, live, db, path, page, net, moves>>
    BY <1>14 DEF vars
  <2> QED BY <1>1, <2>1, UntouchedHangs DEF HangInv, StoreTyped
<1> QED BY <1>3, <1>4, <1>5, <1>6, <1>7, <1>8, <1>9, <1>10, <1>11, <1>12, <1>13, <1>14 DEF Next

-----------------------------------------------------------------------------
(* The flags of the pages, and their types. *)

\* A wait as the page shows it is one of those kept apart above.
Shown(v, w) == \A r : Asked(r) /\ Tag(r) \in v => r.op \in w
LEMMA WaitsAreSharp ==
  ASSUME NEW p, NEW w \in Waits(p)
  PROVE  \E v \in Sharp(p) : Shown(v, w)
<1>1. ASSUME NEW v, "saving" \notin v, "deleting" \notin v PROVE Shown(v, v)
  BY <1>1, TagOf DEF Shown
<1>2. Shown(Lists, {"listQuestions"})
  BY TagOf DEF Shown, Lists, Asked
<1>3. /\ Shown({"patch", "saving"}, {"patch", "listQuestions"})
      /\ Shown({"deleteQuestions", "deleting"}, {"deleteQuestions", "listQuestions"})
  BY TagOf DEF Shown, Asked
<1> DEFINE Part(A, B) == \A a \in A : \E v \in B : Shown(v, a)
<1>4. \A b, v, a : Shown(v, a) => Part(When(b, {a}), When(b, {v}))
  BY DEF When
<1>5. \A b, a : "saving" \notin a /\ "deleting" \notin a => Part(When(b, {a}), When(b, {a}))
  BY <1>1, <1>4
<1>6. \A A, B, C, D : Part(A, B) /\ Part(C, D) => Part(A \cup C, B \cup D)
  OBVIOUS
<1>7. Part(ImportWaits(p.import), ImportWaits(p.import))
  <2> HIDE DEF Part
  <2> QED BY <1>5, <1>6 DEF ImportWaits
<1>8. Part(Waits(p), Sharp(p))
  <2>1. CASE p.kind = "bank"
    <3>1. /\ Waits(p) = BankWaits(p)
          /\ Sharp(p) = When(p.loading, {Lists})
                        \cup When(p.saving, {{"patch", "saving"}})
                        \cup When(p.deleting, {{"deleteQuestions", "deleting"}})
                        \cup ImportWaits(p.import)
      BY <2>1 DEF Waits, Sharp
    <3>2. /\ Part(When(p.loading, {{"listQuestions"}}), When(p.loading, {Lists}))
          /\ Part(When(p.saving, {{"patch", "listQuestions"}}),
                  When(p.saving, {{"patch", "saving"}}))
          /\ Part(When(p.deleting, {{"deleteQuestions", "listQuestions"}}),
                  When(p.deleting, {{"deleteQuestions", "deleting"}}))
      BY <1>2, <1>3, <1>4
    <3> DEFINE A1 == When(p.loading, {{"listQuestions"}})
               B1 == When(p.loading, {Lists})
               A2 == When(p.saving, {{"patch", "listQuestions"}})
               B2 == When(p.saving, {{"patch", "saving"}})
               A3 == When(p.deleting, {{"deleteQuestions", "listQuestions"}})
               B3 == When(p.deleting, {{"deleteQuestions", "deleting"}})
               I == ImportWaits(p.import)
    <3>3. Waits(p) = A1 \cup A2 \cup A3 \cup I /\ Sharp(p) = B1 \cup B2 \cup B3 \cup I
      BY <3>1 DEF BankWaits
    <3>4. Part(A1, B1) /\ Part(A2, B2) /\ Part(A3, B3) /\ Part(I, I)
      BY <1>7, <3>2
    <3> HIDE DEF A1, A2, A3, B1, B2, B3, I, Part
    <3>5. Part(A1 \cup A2, B1 \cup B2)
      BY <1>6, <3>4
    <3>6. Part(A1 \cup A2 \cup A3, B1 \cup B2 \cup B3)
      BY <1>6, <3>4, <3>5
    <3>7. Part(A1 \cup A2 \cup A3 \cup I, B1 \cup B2 \cup B3 \cup I)
      BY <1>6, <3>4, <3>6
    <3> QED BY <3>3, <3>7
  <2>2. CASE p.kind = "prep"
    <3> DEFINE A == When(p.phase # "none", {{"createInterview", "startInterview"}})
                    \cup When(p.parsing, {{"parse", "upload", "parseCloud", "uploadCloud"}})
                    \cup When(p.library.loading, {{"listResumes"}})
                    \cup When(p.cloud.loading, {{"listCloud"}})
                    \cup When(p.cloud.importing, {{"importCloud", "parseCloud", "uploadCloud"}})
                    \cup When(p.ocr, {{"ocr"}})
               B == When(p.github.loading, {{"analyze", "storeProject"}})
    <3>1. /\ Waits(p) = A \cup When(p.bankLoading, {{"listQuestions"}}) \cup B
                        \cup ImportWaits(p.import)
          /\ Sharp(p) = A \cup When(p.bankLoading, {Lists}) \cup B \cup ImportWaits(p.import)
      BY <2>2 DEF Waits, Sharp, PrepWaits
    <3>2. Part(When(p.bankLoading, {{"listQuestions"}}), When(p.bankLoading, {Lists}))
      BY <1>2, <1>4
    <3> HIDE DEF Part
    <3>3. Part(A, A)
      BY <1>5, <1>6, ZenonT(60)
    <3>4. Part(B, B)
      BY <1>5
    <3> DEFINE C == When(p.bankLoading, {{"listQuestions"}})
               D == When(p.bankLoading, {Lists})
               I == ImportWaits(p.import)
    <3>5. Waits(p) = A \cup C \cup B \cup I /\ Sharp(p) = A \cup D \cup B \cup I
      BY <3>1
    <3>6. Part(C, D) /\ Part(I, I)
      BY <1>7, <3>2
    <3> HIDE DEF A, B, C, D, I
    <3>7. Part(A \cup C, A \cup D)
      BY <1>6, <3>3, <3>6
    <3>8. Part(A \cup C \cup B, A \cup D \cup B)
      BY <1>6, <3>4, <3>7
    <3>9. Part(A \cup C \cup B \cup I, A \cup D \cup B \cup I)
      BY <1>6, <3>6, <3>8
    <3> QED BY <3>5, <3>9
  <2>3. CASE p.kind \notin {"bank", "prep"}
    <3>1. Sharp(p) = Waits(p)
      BY <2>3 DEF Sharp
    <3>2. \A v \in Waits(p) : "saving" \notin v /\ "deleting" \notin v
      BY <2>3 DEF Waits, When, ResumesWaits, JobsWaits, ReportWaits, DetailWaits, LoginWaits
    <3> QED BY <1>1, <3>1, <3>2
  <2> QED BY <2>1, <2>2, <2>3
<1> QED BY <1>8

\* ManagePage.tsx, CreateInterviewPage.tsx, ReportPage.tsx, InterviewDetailPage.tsx and
\* LoginPage.tsx with api/client.ts. Whatever is answered late, refused, lost or never, and
\* whatever is pressed meanwhile: a flag that disables a button or shows that the page waits
\* is up only while a request of this page is under way whose end takes it down.
THEOREM NothingEverHangs == Spec => []NothingHangs
<1>1. ASSUME HangInv, NEW w \in Waits(page)
      PROVE  \E k \in DOMAIN net : net[k].mine /\ net[k].op \in w
  <2>1. PICK v \in Sharp(page) : Shown(v, w)
    BY <1>1, WaitsAreSharp
  <2>2. PICK k \in DOMAIN net : net[k].mine /\ Tag(net[k]) \in v /\ Typed(net[k])
    BY <1>1, NetTyped DEF HangInv, Waited, Pending, Range
  <2> QED BY <2>1, <2>2 DEF Shown, Typed
<1>2. HangInv => NothingHangs
  BY <1>1 DEF NothingHangs
<1> QED BY InitPage, NextPage, InitReady, NextReady, InitHangs, NextHangs, <1>2, PTL DEF Spec

\* App.tsx's routes and the state of every page. The page shown is always the one of the
\* route, of its type, and so are the login, what is stored and the requests under way; a
\* request that a page waits for was sent by the page that is shown.
THEOREM PagesTyped == Spec => []PagesTypeOK
<1>1. ASSUME PageInv, RoomInv, HangInv PROVE PagesTypeOK
  <2>1. PageType
    BY <1>1 DEF HangInv, PageTyped, FieldsOK, PageType
  <2>2. \A k \in DOMAIN net : /\ net[k].at \in {"sent", "ok", "failed", "denied", "late"}
                              /\ net[k].mine => net[k].who = path
    BY <1>1, NetTyped, NetEntry DEF HangInv, Typed
  <2>3. page.kind = path.at /\ path.at \in Protected \cup Public
    BY <1>1 DEF PageInv, HangInv, PageTyped, Reached, RouteOK
  <2> QED BY <1>1, <2>1, <2>2, <2>3 DEF PagesTypeOK, HangInv, StoreTyped
<1>2. PageInv /\ RoomInv /\ HangInv => PagesTypeOK
  BY <1>1
<1> QED BY InitPage, NextPage, InitReady, NextReady, InitHangs, NextHangs, <1>2, PTL DEF Spec

-----------------------------------------------------------------------------
(* The list of the question bank. *)

\* A change under way, which the page reads the list again after; and a reading that, if it
\* was served already, brings the bank as it is.
Disturbs(r) == r.op \in ChangeOps \/ (r.op = "confirmImport" /\ r.at = "ok")
Current(r, d) == r.op = "listQuestions" /\ (r.at = "ok" => r.val.bank = d.bank)
OwnOnly(s) == \A r \in Range(s) : r.mine /\ r.op # "importSession"
\* The reading asked for last is such a one.
LastList(s, k) == s[k].op = "listQuestions" /\ \A j \in DOMAIN s : j > k => s[j].op # "listQuestions"
Fresh(s, d) == \E k \in DOMAIN s : LastList(s, k) /\ Current(s[k], d)
Sound(p, s, d) == p.loading => p.failed \/ (\E r \in Range(s) : Disturbs(r)) \/ Fresh(s, d)
AtBank == page.kind = "bank" /\ moves = 0 /\ "slow" \notin can
FreshInv == AtBank => OwnOnly(net) /\ Sound(page, net, db)

\* Where a sequence that is appended to, or loses an element, has the others.
LEMMA AppendedPlaces ==
  ASSUME NEW s, NEW t, IsSeq(s), IsSeq(t)
  PROVE  /\ Len(s) \in Nat /\ DOMAIN s = 1..Len(s) /\ DOMAIN t \subseteq Nat \ {0}
         /\ \A j \in DOMAIN s : j \in DOMAIN (s \o t) /\ (s \o t)[j] = s[j]
         /\ \A i \in DOMAIN t : Len(s) + i \in DOMAIN (s \o t) /\ (s \o t)[Len(s) + i] = t[i]
<1>1. PICK S, T : s \in Seq(S) /\ t \in Seq(T)
  BY DEF IsSeq
<1>2. s \in Seq(S \cup T) /\ t \in Seq(S \cup T)
  BY <1>1
<1>3. /\ Len(s) \in Nat /\ DOMAIN s = 1..Len(s) /\ Len(t) \in Nat /\ DOMAIN t = 1..Len(t)
  BY <1>1, LenProperties
<1>4. /\ s \o t \in Seq(S \cup T) /\ Len(s \o t) = Len(s) + Len(t)
      /\ \A j \in 1..Len(s) + Len(t) :
           (s \o t)[j] = IF j <= Len(s) THEN s[j] ELSE t[j - Len(s)]
  BY <1>2, ConcatProperties
<1>5. DOMAIN (s \o t) = 1..Len(s) + Len(t)
  BY <1>4, LenProperties
<1>6. ASSUME NEW i \in DOMAIN t
      PROVE  Len(s) + i \in DOMAIN (s \o t) /\ (s \o t)[Len(s) + i] = t[i]
  <2>1. Len(s) + i \in 1..Len(s) + Len(t) /\ ~(Len(s) + i <= Len(s)) /\ Len(s) + i - Len(s) = i
    BY <1>3
  <2> QED BY <1>4, <1>5, <2>1
<1>7. ASSUME NEW j \in DOMAIN s PROVE j \in DOMAIN (s \o t) /\ (s \o t)[j] = s[j]
  <2>1. j \in 1..Len(s) + Len(t) /\ j <= Len(s)
    BY <1>3
  <2> QED BY <1>4, <1>5, <2>1
<1> QED BY <1>3, <1>6, <1>7

LEMMA RemainingPlace ==
  ASSUME NEW s, IsSeq(s), NEW k \in DOMAIN s, NEW i \in DOMAIN s, i # k
  PROVE  LET j == IF i < k THEN i ELSE i - 1 IN
         j \in DOMAIN RemoveAt(s, k) /\ RemoveAt(s, k)[j] = s[i]
<1>1. PICK S : s \in Seq(S)
  BY DEF IsSeq
<1>2. Len(s) \in Nat /\ DOMAIN s = 1..Len(s) /\ k \in 1..Len(s) /\ i \in 1..Len(s)
  BY <1>1, LenProperties
<1> DEFINE a == SubSeq(s, 1, k - 1)
           b == SubSeq(s, k + 1, Len(s))
           j == IF i < k THEN i ELSE i - 1
<1>3. a \in Seq(S) /\ Len(a) = k - 1
  BY <1>1, <1>2, SubSeqProperties
<1>4. b \in Seq(S) /\ Len(b) = Len(s) - k
  BY <1>1, <1>2, SubSeqProperties
<1>5. RemoveAt(s, k) = a \o b
  BY DEF RemoveAt
<1> HIDE DEF a, b
<1>6. a \o b \in Seq(S) /\ Len(a \o b) = Len(a) + Len(b)
  BY <1>3, <1>4, ConcatProperties
<1>7. Len(a) + Len(b) = Len(s) - 1
  BY <1>2, <1>3, <1>4
<1>8. DOMAIN RemoveAt(s, k) = 1..Len(s) - 1
  BY <1>5, <1>6, <1>7, LenProperties
<1>9. j \in 1..Len(s) - 1 /\ (IF j < k THEN j ELSE j + 1) = i
  BY <1>2
<1> HIDE DEF j
<1>10. RemoveAt(s, k)[j] = s[i]
  BY <1>8, <1>9, RemovePlaces
<1> QED BY <1>8, <1>9, <1>10 DEF j

\* The last reading stays the last when others come or go; one that is asked for is.
LEMMA FreshKept ==
  ASSUME NEW s, NEW t, IsSeq(s), IsSeq(t), NEW d, Fresh(s, d),
         \A i \in DOMAIN t : t[i].op # "listQuestions"
  PROVE  Fresh(s \o t, d)
<1>1. PICK k \in DOMAIN s : LastList(s, k) /\ Current(s[k], d)
  BY DEF Fresh
<1>2. k \in DOMAIN (s \o t) /\ (s \o t)[k] = s[k]
  BY AppendedPlaces
<1>3. ASSUME NEW j \in DOMAIN (s \o t), j > k PROVE (s \o t)[j].op # "listQuestions"
  <2>1. \/ j \in DOMAIN s /\ (s \o t)[j] = s[j]
        \/ j - Len(s) \in DOMAIN t /\ (s \o t)[j] = t[j - Len(s)]
    BY ConcatPlaces
  <2>2. \A i \in DOMAIN s : i > k => s[i].op # "listQuestions"
    BY <1>1 DEF LastList
  <2>3. CASE j \in DOMAIN s /\ (s \o t)[j] = s[j]
    BY <1>3, <2>2, <2>3
  <2>4. CASE j - Len(s) \in DOMAIN t /\ (s \o t)[j] = t[j - Len(s)]
    BY <2>4
  <2> QED BY <2>1, <2>3, <2>4
<1> QED BY <1>1, <1>2, <1>3 DEF Fresh, LastList

LEMMA FreshAsked ==
  ASSUME NEW s, NEW t, IsSeq(s), IsSeq(t), NEW d, DOMAIN t = {1}, t[1].op = "listQuestions",
         t[1].at = "sent"
  PROVE  Fresh(s \o t, d)
<1>1. /\ Len(s) \in Nat /\ DOMAIN s = 1..Len(s)
      /\ Len(s) + 1 \in DOMAIN (s \o t) /\ (s \o t)[Len(s) + 1] = t[1]
  BY AppendedPlaces
<1>2. ASSUME NEW j \in DOMAIN (s \o t) PROVE ~(j > Len(s) + 1)
  <2>1. j \in DOMAIN s \/ (j - Len(s) = 1 /\ j \in Nat)
    BY ConcatPlaces
  <2> QED BY <1>1, <2>1
<1> QED BY <1>1, <1>2 DEF Fresh, LastList, Current

LEMMA FreshWithout ==
  ASSUME NEW s, IsSeq(s), NEW k \in DOMAIN s, s[k].op # "listQuestions", NEW d, Fresh(s, d)
  PROVE  Fresh(RemoveAt(s, k), d)
<1>1. PICK i \in DOMAIN s : LastList(s, i) /\ Current(s[i], d)
  BY DEF Fresh
<1>2. i # k
  BY <1>1 DEF LastList
<1>3. \A x \in DOMAIN s : x \in Nat
  BY DEF IsSeq
<1> DEFINE q == RemoveAt(s, k)
           j == IF i < k THEN i ELSE i - 1
<1>4. j \in DOMAIN q /\ q[j] = s[i]
  BY <1>2, RemainingPlace
<1>5. ASSUME NEW x \in DOMAIN q, x > j PROVE q[x].op # "listQuestions"
  <2> DEFINE y == IF x < k THEN x ELSE x + 1
  <2>1. x \in Nat /\ y \in DOMAIN s /\ q[x] = s[y]
    BY RemovePlaces
  <2>2. y > i
    BY <1>2, <1>3, <1>5, <2>1
  <2> QED BY <1>1, <2>1, <2>2 DEF LastList
<1> QED BY <1>1, <1>4, <1>5 DEF Fresh, LastList

\* Requests that the page has just sent.
LEMMA SentByPage ==
  ASSUME NEW e, IsSeq(e.send), NEW l, NEW who
  PROVE  LET s == Issued(e.send, l, who, TRUE) IN
         /\ IsSeq(s)
         /\ Ordinary(e) => OwnOnly(s) /\ \A i \in DOMAIN s : s[i].op # "listQuestions"
         /\ \A ops : AsksOne(e, ops) => DOMAIN s = {1} /\ s[1].op \in ops /\ s[1].at = "sent"
<1> DEFINE s == Issued(e.send, l, who, TRUE)
<1>1. /\ DOMAIN s = DOMAIN e.send
      /\ \A i \in DOMAIN s : s[i].op = e.send[i].op /\ s[i].mine = TRUE /\ s[i].at = "sent"
  BY DEF Issued
<1>2. IsSeq(s)
  BY IssuedOK DEF NetOK
<1> HIDE DEF s
<1>3. Ordinary(e) => \A i \in DOMAIN e.send : e.send[i].op \notin {"importSession", "listQuestions"}
  BY DEF Ordinary
<1>4. Ordinary(e) => OwnOnly(s) /\ \A i \in DOMAIN s : s[i].op # "listQuestions"
  BY <1>1, <1>3 DEF OwnOnly, Range
<1>5. ASSUME NEW ops, AsksOne(e, ops) PROVE DOMAIN s = {1} /\ s[1].op \in ops /\ s[1].at = "sent"
  <2>1. DOMAIN e.send = {1} /\ e.send[1].op \in ops
    BY <1>5 DEF AsksOne
  <2> QED BY <1>1, <2>1
<1> QED BY <1>2, <1>4, <1>5 DEF s

LEMMA OwnConcat ==
  ASSUME NEW s, NEW t, IsSeq(s), IsSeq(t), OwnOnly(s), OwnOnly(t) PROVE OwnOnly(s \o t)
  BY RangeConcat DEF OwnOnly

\* What leaves the reading of the list alone.
LEMMA SteadyFresh ==
  ASSUME IsSeq(net), OwnOnly(net), Sound(page, net, db), NEW e, Steady(e, page), IsSeq(e.send),
         NEW l, NEW who, page' = e.page, net' = net \o Issued(e.send, l, who, TRUE),
         db'.bank = db.bank
  PROVE  OwnOnly(net') /\ Sound(page', net', db')
<1> DEFINE s == Issued(e.send, l, who, TRUE)
<1>1. /\ IsSeq(s) /\ OwnOnly(s) /\ \A i \in DOMAIN s : s[i].op # "listQuestions"
      /\ AsksOne(e, ChangeOps) => \E r \in Range(s) : Disturbs(r)
  <2>1. /\ IsSeq(s)
        /\ Ordinary(e) => OwnOnly(s) /\ \A i \in DOMAIN s : s[i].op # "listQuestions"
        /\ AsksOne(e, ChangeOps) => DOMAIN s = {1} /\ s[1].op \in ChangeOps
    BY SentByPage
  <2> HIDE DEF s
  <2>2. AsksOne(e, ChangeOps) => s[1] \in Range(s) /\ Disturbs(s[1])
    BY <2>1 DEF Disturbs, Range
  <2>3. Ordinary(e)
    BY DEF Steady
  <2> QED BY <2>1, <2>2, <2>3
<1> HIDE DEF s
<1>2. net' = net \o s
  BY DEF s
<1>3. Range(net') = Range(net) \cup Range(s) /\ OwnOnly(net')
  BY <1>1, <1>2, RangeConcat, OwnConcat
<1>4. page'.loading = page.loading /\ ((page.failed => page'.failed) \/ AsksOne(e, ChangeOps))
  BY DEF Steady
<1>5. Fresh(net, db) => Fresh(net', db')
  <2>1. Fresh(net, db) => Fresh(net, db')
    BY DEF Fresh, Current
  <2> QED BY <1>1, <1>2, <2>1, FreshKept
<1>6. Sound(page', net', db')
  BY <1>1, <1>3, <1>4, <1>5 DEF Sound
<1> QED BY <1>3, <1>6

\* What the bank makes of an answer, that of the bar at its top included.
LEMMA HandledFollows ==
  ASSUME page \in BankType, NEW r, r.mine, NEW ok \in BOOLEAN, NEW denied
  PROVE  LET e == Handled(r, ok, denied) IN
         \/ Rereads(e)
         \/ r.op = "listQuestions" /\ ListTaken(e, page, r, ok)
         \/ Followed(e, page, r, ok)
<1>1. Asker(r) = page /\ page.kind = "bank"
  BY DEF Asker, BankType
<1>2. CASE r.op \in {"me", "parts"}
  <2>1. Handled(r, ok, denied) = Nothing(page)
    BY <1>1, <1>2 DEF Handled
  <2>2. Steady(Nothing(page), page)
    BY SteadyForms DEF Nothing
  <2> QED BY <1>2, <2>1, <2>2 DEF Followed, ChangeOps
<1>3. CASE r.op \notin {"me", "parts"}
  <2>1. Handled(r, ok, denied) = BankAnswer(page, r, ok, r.val)
    BY <1>1, <1>3 DEF Handled, Answer
  <2> QED BY <2>1, BankFollows
<1> QED BY <1>2, <1>3

LEMMA AnswerFresh ==
  ASSUME PageTyped, page \in BankType, OwnOnly(net), Sound(page, net, db), NEW k \in DOMAIN net,
         NEW ok \in BOOLEAN, NEW denied, net[k].op \in Stored => ok = (net[k].at = "ok"),
         NEW f, f.page = Handled(net[k], ok, denied).page,
         f.send = Handled(net[k], ok, denied).send, IsSeq(f.send),
         NEW l, NEW who, page' = f.page,
         net' = RemoveAt(net, k) \o Issued(f.send, l, who, TRUE), UNCHANGED db
  PROVE  OwnOnly(net') /\ Sound(page', net', db')
<1> DEFINE r == net[k]
           e == Handled(r, ok, denied)
           rest == RemoveAt(net, k)
           s == Issued(f.send, l, who, TRUE)
<1>1. IsSeq(net) /\ r \in Range(net) /\ r.mine
  BY DEF PageTyped, AllTyped, NetOK, OwnOnly, Range
<1>2. /\ IsSeq(rest) /\ Range(rest) \subseteq Range(net)
      /\ \A i \in DOMAIN net : i # k => net[i] \in Range(rest)
  BY <1>1, RangeRemove
<1>3. \A x \in Range(net) : x = r \/ x \in Range(rest)
  BY <1>2 DEF Range
<1>4. /\ IsSeq(s)
      /\ Ordinary(f) => OwnOnly(s) /\ \A i \in DOMAIN s : s[i].op # "listQuestions"
      /\ \A ops : AsksOne(f, ops) => DOMAIN s = {1} /\ s[1].op \in ops /\ s[1].at = "sent"
  BY SentByPage
<1>5. \/ Rereads(e)
      \/ r.op = "listQuestions" /\ ListTaken(e, page, r, ok)
      \/ Followed(e, page, r, ok)
  BY <1>1, HandledFollows
<1>6. net' = rest \o s /\ page' = e.page /\ f.send = e.send
  OBVIOUS
<1>7. r.op \in {"listQuestions", "confirmImport"} => ok = (r.at = "ok")
  BY DEF Stored, Reads, Writes
<1> HIDE DEF r, e, rest, s
<1>8. Range(net') = Range(rest) \cup Range(s)
  BY <1>2, <1>4, <1>6, RangeConcat
<1>9. ASSUME Rereads(e)
       PROVE  DOMAIN s = {1} /\ s[1].op = "listQuestions" /\ s[1].at = "sent"
  <2>1. AsksOne(f, {"listQuestions"})
    BY <1>6, <1>9 DEF Rereads, AsksOne
  <2>2. DOMAIN s = {1} /\ s[1].op \in {"listQuestions"} /\ s[1].at = "sent"
    BY <1>4, <2>1
  <2> QED BY <2>2
<1>10. OwnOnly(s)
  <2>1. CASE Rereads(e)
    <3>1. DOMAIN s = {1} /\ s[1].op = "listQuestions"
      BY <1>9, <2>1
    <3>2. \A i \in DOMAIN s : s[i].mine = TRUE
      BY DEF s, Issued
    <3> QED BY <3>1, <3>2 DEF OwnOnly, Range
  <2>2. CASE ~Rereads(e)
    BY <1>4, <1>5, <1>6, <2>2 DEF ListTaken, Followed, Steady, Ordinary
  <2> QED BY <2>1, <2>2
<1>11. OwnOnly(net')
  BY <1>2, <1>8, <1>10 DEF OwnOnly
<1>12. CASE Rereads(e)
  <2>1. DOMAIN s = {1} /\ s[1].op = "listQuestions" /\ s[1].at = "sent"
    BY <1>9, <1>12
  <2>2. Fresh(net', db')
    BY <1>2, <1>4, <1>6, <2>1, FreshAsked
  <2> QED BY <1>11, <2>2 DEF Sound
<1>13. CASE r.op = "listQuestions" /\ ListTaken(e, page, r, ok)
  BY <1>6, <1>11, <1>13 DEF ListTaken, Sound
<1>14. CASE Followed(e, page, r, ok)
  <2>1. /\ page'.loading = page.loading
        /\ (page.failed => page'.failed) \/ AsksOne(f, ChangeOps)
        /\ r.op \in ChangeOps => page'.failed \/ AsksOne(f, ChangeOps)
        /\ r.op # "listQuestions" /\ ~(r.op = "confirmImport" /\ ok)
    BY <1>6, <1>14 DEF Followed, Steady, AsksOne
  <2>2. AsksOne(f, ChangeOps) => \E x \in Range(net') : Disturbs(x)
    BY <1>4, <1>8 DEF Disturbs, Range
  <2>3. Disturbs(r) => page'.failed \/ AsksOne(f, ChangeOps)
    BY <1>7, <2>1 DEF Disturbs
  <2>4. Fresh(net, db) => Fresh(net', db')
    <3>1. \A i \in DOMAIN s : s[i].op # "listQuestions"
      BY <1>4, <1>6, <1>14 DEF Followed, Steady, Ordinary
    <3>2. Fresh(net, db) => Fresh(rest, db)
      BY <1>1, <2>1, FreshWithout DEF r, rest
    <3> QED BY <1>2, <1>4, <1>6, <3>1, <3>2, FreshKept
  <2>5. Sound(page', net', db')
    BY <1>3, <1>8, <2>1, <2>2, <2>3, <2>4 DEF Sound
  <2> QED BY <1>11, <2>5
<1> QED BY <1>5, <1>12, <1>13, <1>14

\* A request that is served: what changes the bank is a change under way.
LEMMA ServeFresh ==
  ASSUME RoomInv, HangInv, OwnOnly(net), Sound(page, net, db), NEW k \in DOMAIN net, Serve(k)
  PROVE  OwnOnly(net') /\ Sound(page', net', db')
<1> DEFINE r == net[k]
<1>1. PICK o \in Outcomes(db, r) \cup Fails(db)
                 \cup {[at |-> "denied", val |-> NoValue, db |-> db]} :
        /\ db' = o.db
        /\ net' = IF r.at = "late" THEN RemoveAt(net, k)
                  ELSE [net EXCEPT ![k].at = o.at, ![k].val = o.val]
  BY DEF Serve
<1>2. r.op \in Stored /\ r.at \in {"sent", "late"} /\ page' = page
  BY DEF Serve
<1>3. Typed(r) /\ Truthful(r, db) /\ Formed(r) /\ r \in Range(net) /\ db \in DbType
  BY NetTyped, NetEntry DEF HangInv, StoreTyped, Range
<1>4. r.mine /\ r.op # "importSession" /\ r.at = "sent"
  BY <1>2, <1>3 DEF OwnOnly, Typed
<1>5. ServedAs(r.op, o, db)
  BY <1>2, <1>3, ServedTyped DEF Typed
<1> DEFINE q == [r EXCEPT !.at = o.at, !.val = o.val]
<1>6. q.mine = r.mine /\ q.op = r.op /\ q.at = o.at /\ q.val = o.val
  BY <1>3 DEF Formed
<1>7. net' = [net EXCEPT ![k] = q]
  BY <1>1, <1>4
<1> HIDE DEF q, r
<1>8. /\ DOMAIN net' = DOMAIN net
      /\ \A i \in DOMAIN net : (i = k => net'[i] = q) /\ (i # k => net'[i] = net[i])
  BY <1>7
<1>9. q \in Range(net') /\ \A x \in Range(net) : x = r \/ x \in Range(net')
  BY <1>8 DEF Range, r
<1>10. \A x \in Range(net') : x = q \/ x \in Range(net)
  BY <1>8 DEF Range
<1>11. OwnOnly(net')
  BY <1>4, <1>6, <1>10 DEF OwnOnly
<1>12. Disturbs(q) \/ db'.bank = db.bank
  BY <1>1, <1>4, <1>5, <1>6 DEF ServedAs, Disturbs, ChangeOps
<1>13. /\ \A i, j \in DOMAIN net : net'[i].op = net[i].op
       /\ db'.bank = db.bank => \A i \in DOMAIN net : Current(net[i], db) => Current(net'[i], db')
  BY <1>1, <1>5, <1>6, <1>8 DEF Current, ServedAs, r
<1>14. Disturbs(r) => Disturbs(q)
  BY <1>4, <1>6 DEF Disturbs
<1>15. Fresh(net, db) /\ db'.bank = db.bank => Fresh(net', db')
  BY <1>8, <1>13 DEF Fresh, LastList
<1>16. Sound(page', net', db')
  BY <1>2, <1>9, <1>12, <1>14, <1>15 DEF Sound
<1> QED BY <1>11, <1>16

\* A step that leaves the route alone and does the effect e of the page that is shown.
LEMMA StaysSteady ==
  ASSUME PageTyped, OwnOnly(net), Sound(page, net, db), NEW l, NEW e, Steady(e, page),
         IsSeq(e.send), Becomes(l, e, path, TRUE, net), path' = path, UNCHANGED db
  PROVE  OwnOnly(net') /\ Sound(page', net', db')
<1>1. page' = e.page /\ net' = net \o Issued(e.send, l, path, TRUE)
  BY DEF Becomes
<1>2. IsSeq(net)
  BY DEF PageTyped, AllTyped, NetOK
<1> QED BY <1>1, <1>2, SteadyFresh
LEMMA GoesSteady ==
  ASSUME NEW to, NEW e \in {Goes(page, to), Nothing(page)} PROVE Steady(e, page) /\ IsSeq(e.send)
  BY ShortSeq DEF Goes, Nothing, Shows, Steady, Ordinary

\* An answer, while the page stays.
LEMMA DeliverFresh ==
  ASSUME PageInv, RoomInv, PageTyped, page \in BankType, OwnOnly(net), Sound(page, net, db),
         NEW k \in DOMAIN net, Deliver(k), path' = path
  PROVE  OwnOnly(net') /\ Sound(page', net', db')
<1> DEFINE r == net[k]
<1>1. PICK a \in Answers(r) :
        IF a = "denied"
        THEN LET d == Denied(r)
                 e == Handled(r, FALSE, TRUE) IN
             Becomes(d.login, IF d.go = Stay THEN e ELSE [e EXCEPT !.go = d.go],
                     r.who, r.mine, RemoveAt(net, k)) /\ UNCHANGED live
        ELSE /\ Becomes(IF a = "ok" THEN LoginAfter(r) ELSE login, Handled(r, a = "ok", FALSE),
                        r.who, r.mine, RemoveAt(net, k))
             /\ live' = IF a = "ok" /\ r.op = "exchange" THEN live \cup {login'.token} ELSE live
  BY DEF Deliver
<1>2. UNCHANGED db
  BY DEF Deliver
<1>3. r.mine = TRUE /\ r.who = path
  BY NetEntry DEF OwnOnly, Range
<1>4. r.op \in Stored => a = r.at
  BY DEF Answers
<1>5. ASSUME NEW ok \in BOOLEAN, NEW denied, NEW l, NEW f, ok /\ r.op \in Key => r.at = "ok",
             r.op \in Stored => ok = (r.at = "ok"),
             f.page = Handled(r, ok, denied).page, f.send = Handled(r, ok, denied).send,
             Becomes(l, f, r.who, r.mine, RemoveAt(net, k))
      PROVE  OwnOnly(net') /\ Sound(page', net', db')
  <2>1. IsSeq(f.send)
    BY <1>3, <1>5, NetEntry, HandledReady DEF AsksRightly
  <2>2. page' = f.page /\ net' = RemoveAt(net, k) \o Issued(f.send, l, r.who, TRUE)
    BY <1>3, <1>5 DEF Becomes
  <2> QED BY <1>2, <1>5, <2>1, <2>2, AnswerFresh, ZenonT(60)
<1>6. CASE a = "denied"
  <2> DEFINE e == Handled(r, FALSE, TRUE)
             to == Denied(r).go
             f == IF to = Stay THEN e ELSE [e EXCEPT !.go = to]
  <2>1. Becomes(Denied(r).login, f, r.who, r.mine, RemoveAt(net, k))
    BY <1>1, <1>6
  <2>2. IsEffect(e)
    BY HandledIsEffect
  <2> HIDE DEF e, to
  <2>3. f.page = e.page /\ f.send = e.send
    BY <2>2 DEF IsEffect
  <2> HIDE DEF f, r
  <2>4. r.op \in Stored => FALSE = (r.at = "ok")
    BY <1>4, <1>6
  <2> QED BY <1>5, <2>1, <2>3, <2>4 DEF e
<1>7. CASE a # "denied"
  <2> DEFINE ok == a = "ok"
             l == IF ok THEN LoginAfter(r) ELSE login
  <2>1. Becomes(l, Handled(r, ok, FALSE), r.who, r.mine, RemoveAt(net, k))
    BY <1>1, <1>7
  <2>2. ok \in BOOLEAN /\ (ok /\ r.op \in Key => r.at = "ok") /\ (r.op \in Stored => ok = (r.at = "ok"))
    BY <1>4 DEF Key, Starts, Stored, Reads, Writes
  <2> HIDE DEF ok, l, r
  <2> QED BY <1>5, <2>1, <2>2
<1> QED BY <1>6, <1>7

\* No answer leads to the question bank.
LEMMA HandledElsewhere ==
  ASSUME NEW r, NEW ok \in BOOLEAN, NEW denied PROVE Handled(r, ok, denied).go.at # "bank"
<1>1. ASSUME NEW e, NEW p, Tame(e, p) PROVE e.go.at # "bank"
  BY <1>1 DEF Tame, Calm
<1>2. /\ \A q : Shows(q).go = Stay /\ \A to : Goes(q, to).go = to
      /\ \A q, op, ids : Sends(q, op, ids).go = Stay
      /\ Stay.at # "bank" /\ \A id : Route("room", id).at # "bank"
  BY DEF Shows, Goes, Sends, Asks, Stay, Route
<1>3. ASSUME NEW p, NEW x
      PROVE  /\ GivenUp(p).go.at # "bank" /\ Outset(p).go.at # "bank" /\ Unstarted(p).go.at # "bank"
             /\ Preparing(p, x).go.at # "bank" /\ Entering(p, x).go.at # "bank"
             /\ DetailLoaded(p, x, ok).go.at # "bank"
  BY <1>2 DEF GivenUp, Outset, Unstarted, Preparing, Entering, DetailLoaded
<1> QED BY <1>1, <1>3, HandledEffects
LEMMA DeliverElsewhere ==
  ASSUME NEW k \in DOMAIN net, Deliver(k), path'.at = "bank" PROVE path' = path /\ UNCHANGED <<can, moves>>
<1> DEFINE r == net[k]
<1>1. PICK a \in Answers(r) :
        IF a = "denied"
        THEN LET d == Denied(r)
                 e == Handled(r, FALSE, TRUE) IN
             Becomes(d.login, IF d.go = Stay THEN e ELSE [e EXCEPT !.go = d.go],
                     r.who, r.mine, RemoveAt(net, k)) /\ UNCHANGED live
        ELSE /\ Becomes(IF a = "ok" THEN LoginAfter(r) ELSE login, Handled(r, a = "ok", FALSE),
                        r.who, r.mine, RemoveAt(net, k))
             /\ live' = IF a = "ok" /\ r.op = "exchange" THEN live \cup {login'.token} ELSE live
  BY DEF Deliver
<1>2. UNCHANGED <<can, moves>>
  BY DEF Deliver
<1>3. ASSUME NEW l, NEW f, f.go.at # "bank", Becomes(l, f, r.who, r.mine, RemoveAt(net, k))
      PROVE  path' = path
  <2>1. path' = Rendered(l, f)
    BY <1>3 DEF Becomes
  <2> QED BY <1>3, <2>1, RenderedTo
<1>4. CASE a = "denied"
  <2> DEFINE e == Handled(r, FALSE, TRUE)
             to == Denied(r).go
             f == IF to = Stay THEN e ELSE [e EXCEPT !.go = to]
  <2>1. Becomes(Denied(r).login, f, r.who, r.mine, RemoveAt(net, k))
    BY <1>1, <1>4
  <2>2. IsEffect(e) /\ e.go.at # "bank"
    BY HandledIsEffect, HandledElsewhere
  <2>3. to = Stay \/ to.at # "bank"
    BY DEF Denied, Route
  <2> HIDE DEF e, to
  <2>4. f.go.at # "bank"
    BY <2>2, <2>3 DEF IsEffect
  <2> HIDE DEF f, r
  <2> QED BY <1>2, <1>3, <2>1, <2>4
<1>5. CASE a # "denied"
  <2> DEFINE ok == a = "ok"
             l == IF ok THEN LoginAfter(r) ELSE login
  <2>1. Becomes(l, Handled(r, ok, FALSE), r.who, r.mine, RemoveAt(net, k))
    BY <1>1, <1>5
  <2>2. ok \in BOOLEAN
    OBVIOUS
  <2> HIDE DEF ok, l, r
  <2>3. Handled(r, ok, FALSE).go.at # "bank"
    BY <2>2, HandledElsewhere
  <2> QED BY <1>2, <1>3, <2>1, <2>3
<1> QED BY <1>4, <1>5

\* Who is at the bank and has not moved was there a step before.
LEMMA BankStays ==
  ASSUME PageInv, PageInv', moves \in Nat, [Next]_vars, AtBank'
  PROVE  AtBank /\ path' = path
<1>1. path'.at = "bank" /\ moves' = 0
  BY DEF AtBank, PageInv
<1>2. Moved => path' = path /\ moves = 0
  BY <1>1 DEF Moved
<1>3. (path' = path /\ UNCHANGED moves) \/ Moved
  <2>1. CASE Press \/ Navigate \/ HandleLogout \/ EnterApp
    BY <2>1 DEF Press, Navigate, HandleLogout, EnterApp
  <2>2. CASE WpsReturns
    <3>1. \E l : path' = Landing(l, Route("login", 0))
      BY <2>2 DEF WpsReturns
    <3>2. path'.at \in {"login", "hub"}
      BY <3>1 DEF Landing, Route
    <3> QED BY <1>1, <3>2
  <2>3. CASE \E k \in DOMAIN net : Serve(k)
    BY <2>3 DEF Serve
  <2>4. CASE \E k \in DOMAIN net : Deliver(k)
    BY <1>1, <2>4, DeliverElsewhere
  <2>5. CASE \E k \in DOMAIN net : TimesOut(k)
    BY <2>5 DEF TimesOut, AtBank
  <2>6. ASSUME NEW l, NEW e, NEW rest, NEW mine, NEW who, Becomes(l, e, who, mine, rest),
               e.go.at # "bank"
        PROVE  path' = path
    <3>1. path' = Rendered(l, e)
      BY <2>6 DEF Becomes
    <3> QED BY <1>1, <2>6, <3>1, RenderedTo
  <2>7. CASE PollTick
    <3>1. Poll(page).go.at # "bank"
      BY DEF Poll, Sends, Asks, Stay, Route
    <3>2. Becomes(login, Poll(page), path, TRUE, net) /\ UNCHANGED moves
      BY <2>7 DEF PollTick
    <3> QED BY <2>6, <3>1, <3>2
  <2>8. CASE RoomOver
    <3>1. Goes(page, Route("report", path.id)).go.at # "bank"
      BY DEF Goes, Route
    <3>2. Becomes(login, Goes(page, Route("report", path.id)), path, TRUE, net) /\ UNCHANGED moves
      BY <2>8 DEF RoomOver
    <3> QED BY <2>6, <3>1, <3>2
  <2>9. CASE Expire \/ RoomBegins \/ ServerEvaluates \/ UNCHANGED vars
    BY <2>9 DEF Expire, RoomBegins, ServerEvaluates, vars
  <2> QED BY <2>1, <2>2, <2>3, <2>4, <2>5, <2>7, <2>8, <2>9 DEF Next
<1>4. path' = path /\ moves = 0
  BY <1>1, <1>2, <1>3
<1>5. can' = can
  BY DEF Next, Press, Navigate, HandleLogout, EnterApp, WpsReturns, Serve, Deliver, TimesOut,
         PollTick, Expire, RoomBegins, RoomOver, ServerEvaluates, vars
<1> QED BY <1>1, <1>4, <1>5 DEF AtBank, PageInv

\* Every step of one who stays at the bank.
LEMMA StayFresh ==
  ASSUME PageInv, RoomInv, HangInv, FreshInv, AtBank, [Next]_vars, path' = path
  PROVE  OwnOnly(net') /\ Sound(page', net', db')
<1>1. /\ OwnOnly(net) /\ Sound(page, net, db) /\ PageTyped /\ db \in DbType
      /\ path.at = "bank" /\ page.kind = "bank" /\ IsSeq(net)
  BY DEF FreshInv, HangInv, StoreTyped, AtBank, PageInv, PageTyped, AllTyped, NetOK
<1>2. page \in BankType
  BY <1>1, FieldsOf DEF PageTyped
<1>3. ASSUME UNCHANGED <<page, net>>, db'.bank = db.bank
      PROVE  OwnOnly(net') /\ Sound(page', net', db')
  <2>1. \A x : Current(x, db) => Current(x, db')
    BY <1>3 DEF Current
  <2>2. Sound(page', net', db')
    BY <1>1, <1>3, <2>1 DEF Sound, Fresh
  <2> QED BY <1>1, <1>3, <2>2
<1>4. CASE Press
  <2>1. PICK e \in Presses : Becomes(login, e, path, TRUE, net)
    BY <1>4 DEF Press
  <2>2. UNCHANGED db
    BY <1>4 DEF Press
  <2>3. Presses = BankPresses(page, can)
    BY <1>1 DEF Presses
  <2>4. Steady(e, page)
    BY <1>2, <2>3, BankSteady
  <2>5. IsSeq(e.send)
    BY PressReady DEF AsksRightly
  <2> QED BY <1>1, <2>1, <2>2, <2>4, <2>5, StaysSteady
<1>5. CASE Navigate \/ HandleLogout \/ EnterApp
  <2>1. PICK l, to : \E e \in {Goes(page, to), Nothing(page)} : Becomes(l, e, path, TRUE, net)
    BY <1>5 DEF Navigate, HandleLogout, EnterApp
  <2>2. PICK e \in {Goes(page, to), Nothing(page)} : Becomes(l, e, path, TRUE, net)
    BY <2>1
  <2>3. UNCHANGED db
    BY <1>5 DEF Navigate, HandleLogout, EnterApp
  <2>4. Steady(e, page) /\ IsSeq(e.send)
    BY GoesSteady
  <2> HIDE DEF Steady
  <2> QED BY <1>1, <2>2, <2>3, <2>4, StaysSteady
<1>6. CASE \E k \in DOMAIN net : Serve(k)
  BY <1>1, <1>6, ServeFresh
<1>7. CASE \E k \in DOMAIN net : Deliver(k)
  BY <1>1, <1>2, <1>7, DeliverFresh
<1>8. ~WpsReturns /\ ~RoomBegins /\ ~RoomOver /\ ~PollTick /\ \A k \in DOMAIN net : ~TimesOut(k)
  BY <1>1 DEF WpsReturns, RoomBegins, RoomOver, PollTick, TimesOut, AtBank
<1>9. CASE Expire \/ UNCHANGED vars
  BY <1>3, <1>9 DEF Expire, vars
<1>10. CASE ServerEvaluates
  <2>1. PICK s, x : db' = [db EXCEPT !.report[s] = x]
    BY <1>10 DEF ServerEvaluates
  <2>2. db'.bank = db.bank
    BY <1>1, <2>1 DEF DbType
  <2> QED BY <1>3, <1>10, <2>2 DEF ServerEvaluates
<1> QED BY <1>4, <1>5, <1>6, <1>7, <1>8, <1>9, <1>10 DEF Next

LEMMA InitFresh == Init => FreshInv
<1> SUFFICES ASSUME Init, AtBank PROVE OwnOnly(net) /\ Sound(page, net, db)
  BY DEF FreshInv
<1>1. PICK s \in Scenarios :
        /\ page = OpenedPage(s.at)
        /\ net = Issued(ReadsUser(Route("wps", 0), s.at) \o Loads(s.at), As(1), s.at, TRUE)
  BY DEF Init
<1>2. s.at.at = "bank"
  BY <1>1, OpenedShape DEF AtBank
<1> DEFINE a == [Req("listQuestions", {}) EXCEPT !.from = "page"]
           b == Req("me", {})
           reads == ReadsUser(Route("wps", 0), s.at)
           reqs == reads \o Loads(s.at)
<1>3. a.op = "listQuestions" /\ b.op = "me"
  BY DEF Req
<1>4. Loads(s.at) = <<a>>
  BY <1>2 DEF Loads, LoadBank, Asks
<1>5. reads = <<>> \/ reads = <<b>>
  BY DEF ReadsUser
<1> HIDE DEF a, b, reads
<1>6. IsSeq(reads) /\ IsSeq(<<a>>) /\ \A i \in DOMAIN reads : reads[i].op = "me"
  BY <1>3, <1>5, ShortSeq
<1>7. reqs = reads \o <<a>>
  BY <1>4
<1> HIDE DEF reqs
<1>8. DOMAIN <<a>> = {1} /\ <<a>>[1] = a
  BY ShortSeq
<1> DEFINE k == Len(reads) + 1
<1>9. /\ k \in DOMAIN reqs /\ reqs[k].op = "listQuestions" /\ k \in Nat
      /\ \A i \in DOMAIN reqs : reqs[i].op \in {"me", "listQuestions"} /\ (reqs[i].op # "me" => i = k)
  <2>1. Len(reads) \in Nat /\ k \in DOMAIN reqs /\ reqs[k] = a
    BY <1>6, <1>7, <1>8, AppendedPlaces
  <2>2. ASSUME NEW i \in DOMAIN reqs
        PROVE  reqs[i].op = "me" \/ (i - Len(reads) = 1 /\ reqs[i] = a /\ i \in Nat)
    BY <1>6, <1>7, <1>8, ConcatPlaces
  <2> QED BY <1>3, <2>1, <2>2
<1> HIDE DEF k
<1>10. /\ DOMAIN net = DOMAIN reqs
       /\ \A i \in DOMAIN net : net[i].op = reqs[i].op /\ net[i].mine = TRUE /\ net[i].at = "sent"
  BY <1>1 DEF Issued, reqs, reads
<1>11. OwnOnly(net)
  BY <1>9, <1>10 DEF OwnOnly, Range
<1>12. Fresh(net, db)
  <2>1. ASSUME NEW j \in DOMAIN net, j > k PROVE net[j].op # "listQuestions"
    <3>1. j # k
      BY <1>9, <2>1
    <3> QED BY <1>9, <1>10, <3>1
  <2> QED BY <1>9, <1>10, <2>1 DEF Fresh, LastList, Current
<1> QED BY <1>11, <1>12 DEF Sound

LEMMA FreshPrimed ==
  ASSUME AtBank' => OwnOnly(net') /\ Sound(page', net', db') PROVE FreshInv'
  BY DEF FreshInv, OwnOnly, Sound, Fresh, LastList, Disturbs, Current, Range

LEMMA NextFresh ==
  PageInv /\ PageInv' /\ RoomInv /\ HangInv /\ FreshInv /\ [Next]_vars => FreshInv'
<1> SUFFICES ASSUME PageInv, PageInv', RoomInv, HangInv, FreshInv, [Next]_vars PROVE FreshInv'
  OBVIOUS
<1>1. moves \in Nat
  BY PagesAssumption DEF HangInv, StoreTyped
<1>2. AtBank' => AtBank /\ path' = path
  BY <1>1, BankStays
<1>3. AtBank' => OwnOnly(net') /\ Sound(page', net', db')
  BY <1>2, StayFresh
<1> QED BY <1>3, FreshPrimed

LEMMA ListAnswered ==
  ASSUME NEW p, NEW r, r.op = "listQuestions", NEW ok \in BOOLEAN
  PROVE  BankAnswer(p, r, ok, r.val) = BankListed(p, r.from, r.val.bank, ok)
BY DEF BankAnswer, ImportOps

\* The step that shows the answer to the reading that was asked for last.
LEMMA LastTaken ==
  ASSUME PageInv, PageInv', RoomInv, HangInv, FreshInv, AtBank, page'.kind = "bank",
         NEW k \in DOMAIN net, LastReading(k), \A j \in DOMAIN net : net[j].op \notin BankChanges,
         Deliver(k), ~page'.failed
  PROVE  page'.shown = db'.bank
<1> DEFINE r == net[k]
<1>1. /\ Sound(page, net, db) /\ OwnOnly(net) /\ PageTyped
      /\ path' = path /\ db' = db /\ r.op = "listQuestions"
  <2>1. path'.at = "bank"
    BY DEF PageInv
  <2>2. path' = path
    BY <2>1, DeliverElsewhere
  <2> QED BY <2>2 DEF FreshInv, HangInv, Deliver, LastReading
<1>2. page \in BankType
  BY <1>1, FieldsOf DEF PageTyped, AtBank
<1>3. r.mine = TRUE /\ r.who = path
  BY <1>1, NetEntry DEF HangInv, OwnOnly, Range
<1>4. Answers(r) = {r.at} \ {"sent", "late"}
  BY <1>1 DEF Answers, Stored, Reads
<1>5. \E ok \in BOOLEAN : \E denied : /\ ok = (r.at = "ok")
                                    /\ page' = Handled(r, ok, denied).page
  <2>1. CASE r.at = "denied"
    <3> DEFINE h == Handled(r, FALSE, TRUE)
               e == IF Denied(r).go = Stay THEN h ELSE [h EXCEPT !.go = Denied(r).go]
    <3>1. Becomes(Denied(r).login, e, r.who, r.mine, RemoveAt(net, k))
      BY <1>4, <2>1 DEF Deliver
    <3>2. IsEffect(h)
      BY HandledIsEffect
    <3> HIDE DEF h
    <3>3. e.page = h.page
      BY <3>2 DEF IsEffect
    <3> HIDE DEF e
    <3>4. page' = e.page
      BY <1>1, <1>3, <3>1 DEF Becomes
    <3> QED BY <2>1, <3>3, <3>4 DEF h
  <2>2. CASE r.at # "denied"
    <3>1. \E l : Becomes(l, Handled(r, r.at = "ok", FALSE), r.who, r.mine, RemoveAt(net, k))
      BY <1>4, <2>2 DEF Deliver
    <3>2. page' = Handled(r, r.at = "ok", FALSE).page
      BY <1>1, <1>3, <3>1 DEF Becomes
    <3> QED BY <3>2
  <2> QED BY <2>1, <2>2
<1>6. PICK ok \in BOOLEAN : /\ ok = (r.at = "ok")
                           /\ \E denied : page' = Handled(r, ok, denied).page
  BY <1>5
<1>7. page' = BankListed(page, r.from, r.val.bank, ok).page
  <2>1. Asker(r) = page /\ page.kind = "bank"
    BY <1>2, <1>3 DEF Asker, BankType
  <2>2. \A denied : Handled(r, ok, denied) = Answer(page, r, ok, denied)
    BY <1>1, <2>1 DEF Handled
  <2>3. \A denied : Answer(page, r, ok, denied) = BankAnswer(page, r, ok, r.val)
    BY <2>1 DEF Answer
  <2>4. BankAnswer(page, r, ok, r.val) = BankListed(page, r.from, r.val.bank, ok)
    <3>1. r.op = "listQuestions"
      BY <1>1
    <3> HIDE DEF r
    <3> QED BY <3>1, ListAnswered
  <2> QED BY <1>6, <2>2, <2>3, <2>4
<1>8. (page'.failed <=> page.failed \/ ~ok) /\ (ok => page'.shown = r.val.bank)
  <2> DEFINE l == [page EXCEPT !.loading = FALSE, !.failed = @ \/ ~ok,
                               !.shown = IF ok THEN r.val.bank ELSE @]
  <2>1. l.failed = (page.failed \/ ~ok) /\ (ok => l.shown = r.val.bank)
    BY <1>2 DEF BankType
  <2>2. page' = BankOver(l, r.from)
    BY <1>7 DEF BankListed, Shows
  <2>3. {"failed", "shown"} \subseteq DOMAIN l
    BY <1>2 DEF BankType
  <2> HIDE DEF l
  <2>4. page'.failed = l.failed /\ page'.shown = l.shown
    BY <2>2, <2>3 DEF BankOver
  <2> QED BY <2>1, <2>4
<1>9. \A x \in Range(net) : ~Disturbs(x)
  BY DEF BankChanges, Disturbs, ChangeOps, Range
<1>10. PICK j \in DOMAIN net : LastList(net, j) /\ Current(net[j], db)
  BY <1>1, <1>8, <1>9 DEF Sound, LastReading, Fresh
<1>11. j = k
  <2>1. j \in Nat /\ k \in Nat
    BY <1>1 DEF PageTyped, AllTyped, NetOK, IsSeq
  <2> QED BY <1>10, <2>1 DEF LastList, LastReading
<1> QED BY <1>1, <1>6, <1>8, <1>10, <1>11 DEF Current

\* ManagePage.tsx:191-376. Whatever changes are made to the bank, by dialogs or by the import,
\* and however their requests and the readings of the list overlap: for a candidate who has
\* stayed on the page and is answered in time, the answer to the reading that was asked for
\* last shows the bank as it is, when no answer to a reading came in between, no change is
\* under way and nothing failed. What a reading asked for earlier shows when it comes after
\* that is not claimed: it may be an older list.
THEOREM LastReadingIsFresh == Spec => FreshList
<1> DEFINE A == \A k \in DOMAIN net :
                  ( /\ page.kind = "bank" /\ page'.kind = "bank" /\ moves = 0 /\ "slow" \notin can
                    /\ LastReading(k) /\ \A j \in DOMAIN net : net[j].op \notin BankChanges
                    /\ Deliver(k) /\ ~page'.failed )
                  => page'.shown = db'.bank
<1>1. PageInv /\ PageInv' /\ RoomInv /\ HangInv /\ FreshInv => A
  BY LastTaken DEF AtBank
<1>2. FreshList <=> [][A]_vars
  BY DEF FreshList
<1> HIDE DEF A
<1> QED BY <1>1, <1>2, InitPage, NextPage, InitReady, NextReady, InitHangs, NextHangs,
           InitFresh, NextFresh, PTL DEF Spec
=============================================================================
