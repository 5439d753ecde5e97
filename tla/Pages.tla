-------------------------------- MODULE Pages --------------------------------
(***************************************************************************)
(* The single-page application: App.tsx's routes, auth/AuthContext.tsx and    *)
(* auth/ProtectedRoute.tsx, api/client.ts, and one page at a time             *)
(* (ManagePanels, ReportPage, SessionPages) with the requests under way       *)
(* (PageServer).                                                            *)
(*                                                                         *)
(* A handler runs to its next await in one step. Its request then has a      *)
(* position of its own in "net" and is served and answered when it may be,    *)
(* whatever the candidate does meanwhile: "mine" is FALSE once the page that   *)
(* waits for it is gone, and "who" is the route of that page. A handler whose  *)
(* page is gone still sends and navigates.                                   *)
(*                                                                         *)
(* A login is a token and a user (localStorage and React's state): 0 is none, *)
(* 1, 2, ... are logins by WPS, Mock the demonstration account.               *)
(***************************************************************************)
EXTENDS PageServer, SequencesExt

CONSTANTS MaxLogins, Moves, InFlight, Scenarios

\* There is a login to begin with, a bank that what is imported goes to, and the empty
\* keyword.
ASSUME PagesAssumption ==
  /\ \A n \in {MaxLogins, Moves, InFlight, Polls, Banks, MaxResumes} : n \in Nat
  /\ \A S \in {Questions, Files, Jobs, Sessions} : S \subseteq Nat \ {0}
  /\ MaxLogins # 0 /\ Banks # 0 /\ 0 \in Keywords

VARIABLES can, login, live, path, page, net, db, moves
vars == <<can, login, live, path, page, net, db, moves>>

Mock == MaxLogins + 1
NoLogin == [token |-> 0, user |-> 0]
As(n) == [token |-> n, user |-> n]
LoggedIn(l) == l.token # 0 /\ l.user # 0

Tabs == {"resumes", "jobs", "bank"}
WithTopBar == {"hub", "prep", "list", "room", "report"} \cup Tabs
Protected == WithTopBar \cup {"detail"}
Public == {"welcome", "login", "notfound", "wps"}

\* Where a scenario starts there is something: a page of the application, that of a session
\* for one that is stored (or a demonstration's report), the room for one that has its
\* questions.
ASSUME ScenarioAssumption ==
  \A s \in Scenarios :
    /\ s.db \in DbType
    /\ s.at.at \in Protected \cup Public
    /\ s.at.at \in {"detail", "room"} => s.at.id \in Sessions
    /\ s.at.at = "report" => s.at.id \in Sessions \cup {0}
    /\ s.at.at = "room" => s.db.status[s.at.id] \notin {"none", "draft"}

-----------------------------------------------------------------------------
(* Routes and pages. *)

\* ProtectedRoute, and the redirects of the welcome and the login page.
Landing(l, to) ==
  CASE to.at \in Protected /\ ~LoggedIn(l) -> Route("login", 0)
    [] to.at \in {"welcome", "login"} /\ LoggedIn(l) -> Route("hub", 0)
    [] OTHER -> to

OpenedPage(to) ==
  CASE to.at = "prep" -> PrepOpened
    [] to.at \in {"hub", "list"} -> ListOpened(to.at)
    [] to.at = "bank" -> BankOpened
    [] to.at = "resumes" -> ResumesOpened
    [] to.at = "jobs" -> JobsOpened
    [] to.at = "report" -> ReportOpened(to.id)
    [] to.at = "detail" -> DetailOpened(to.id)
    [] to.at = "login" -> LoginOpened
    [] OTHER -> Plain(to.at, to.id)

\* What the effects of a page ask for when it is mounted. The bar at its top reads the
\* user again, unless only the tab under it changes.
Loads(to) ==
  CASE to.at = "jobs" -> <<Req("listJobs", {})>>
    [] to.at \in {"hub", "list"} -> <<Req("listInterviews", {})>>
    [] to.at = "bank" -> LoadBank(BankOpened, "page").send
    [] to.at = "resumes" -> <<Req("listResumes", {})>>
    [] to.at = "report" -> ReportLoads(to.id)
    [] to.at = "detail" -> <<Req("getInterview", {to.id})>>
    [] OTHER -> <<>>
ReadsUser(from, to) ==
  IF "me" \in can /\ to.at \in Protected /\ ~(from.at \in Tabs /\ to.at \in Tabs)
  THEN <<Req("me", {})>> ELSE <<>>

Answer(p, r, ok, denied) ==
  CASE p.kind = "prep" -> PrepAnswer(p, r, ok, r.val)
    [] p.kind \in {"hub", "list"} -> Listed(p, r.val.ids, ok, denied)
    [] p.kind = "bank" -> BankAnswer(p, r, ok, r.val)
    [] p.kind = "resumes" -> ResumesAnswer(p, r, ok, r.val)
    [] p.kind = "jobs" -> JobsAnswer(p, r, ok, r.val)
    [] p.kind = "report" -> ReportAnswer(p, r, ok, denied, r.val)
    [] p.kind = "detail" -> DetailAnswer(p, r, ok, r.val)
    [] p.kind = "login" -> LoginAnswer(p, r, ok)
    [] OTHER -> Nothing(p)

Presses ==
  CASE page.kind = "prep" -> PrepPresses(page, can)
    [] page.kind = "hub" -> HubPresses(page)
    [] page.kind = "list" -> ListPresses(page)
    [] page.kind = "bank" -> BankPresses(page, can)
    [] page.kind = "resumes" -> ResumesPresses(page, can)
    [] page.kind = "jobs" -> JobsPresses(page)
    [] page.kind = "report" -> ReportPresses(page)
    [] page.kind = "detail" -> DetailPresses(page)
    [] page.kind = "login" -> LoginPresses(page)
    [] page.kind = "welcome" -> {Goes(page, Route("login", 0))}
    [] page.kind = "notfound" -> {Goes(page, Route(at, 0)) : at \in {"welcome", "login"}}
    \* The room's back button, and the links it shows beside an error.
    [] page.kind = "room" -> {Goes(page, Route("list", 0)), Goes(page, Route("detail", page.id))}
    [] OTHER -> {}

Waits(p) ==
  CASE p.kind = "prep" -> PrepWaits(p)
    [] p.kind \in {"hub", "list"} -> When(p.loading, {{"listInterviews"}})
    [] p.kind = "bank" -> BankWaits(p)
    [] p.kind = "resumes" -> ResumesWaits(p)
    [] p.kind = "jobs" -> JobsWaits(p)
    [] p.kind = "report" -> ReportWaits(p)
    [] p.kind = "detail" -> DetailWaits(p)
    [] p.kind = "login" -> LoginWaits(p)
    [] OTHER -> {}

-----------------------------------------------------------------------------
(* What a step of a page leads to. *)

\* A request takes the token of the moment it is sent.
Issued(reqs, l, who, mine) ==
  [i \in DOMAIN reqs |->
     [op |-> reqs[i].op, ids |-> reqs[i].ids, to |-> reqs[i].to, from |-> reqs[i].from,
      known |-> reqs[i].known, by |-> l.token, who |-> who, mine |-> mine, at |-> "sent",
      val |-> NoValue]]
\* mutant: what a page that is gone waits for goes to the next one
DisownedNever(reqs) == reqs
Disowned(reqs) == [i \in DOMAIN reqs |-> [reqs[i] EXCEPT !.mine = FALSE]]

\* The page is rendered again when the route or the user changes, not for the token.
Rendered(l, e) ==
  IF e.go = Stay /\ l.user = login.user THEN path
  ELSE Landing(l, IF e.go = Stay THEN path ELSE e.go)

\* The login becomes l and the page that was at "who" does e; "rest" are the requests left.
Becomes(l, e, who, mine, rest) ==
  LET to == Rendered(l, e)
      sent == Issued(e.send, l, who, mine /\ to = path) IN
  /\ login' = l
  /\ path' = to
  /\ IF to = path
     THEN page' = (IF mine THEN e.page ELSE page) /\ net' = rest \o sent
     ELSE /\ page' = OpenedPage(to)
          /\ net' = IF to.at = "wps" THEN <<>>
                    ELSE Disowned(rest) \o sent
                         \o Issued(ReadsUser(path, to) \o Loads(to), l, to, TRUE)

\* Moves bounds how often the candidate changes the page, "can" to which ones.
MayMove(e) == e.go # Stay => moves < Moves /\ e.go.at \in can
Moved == moves' = IF path' = path THEN moves ELSE moves + 1
\* InFlight bounds how many requests a press may add to.
MaySend(e) == e.send # <<>> => Len(net) + Len(e.send) <= InFlight

Press ==
  \E e \in Presses :
    /\ MayMove(e) /\ MaySend(e)
    /\ Becomes(login, e, path, TRUE, net)
    /\ Moved
    /\ UNCHANGED <<can, live, db>>

\* The navigation at the top of a page, and the tabs of the management page.
Navigate ==
  \E at \in {"hub", "resumes", "list"} \cup IF path.at \in Tabs THEN Tabs ELSE {} :
    LET e == Goes(page, Route(at, 0)) IN
    /\ path.at \in Protected /\ MayMove(e)
    /\ Becomes(login, e, path, TRUE, net)
    /\ Moved
    /\ UNCHANGED <<can, live, db>>

\* The bar goes to an address that is none; the side navigation of the session page
\* only forgets the login.
HandleLogout ==
  /\ path.at \in Protected /\ moves < Moves /\ "logout" \in can
  /\ Becomes(NoLogin, IF path.at = "detail" THEN Nothing(page)
                      ELSE Goes(page, Route("notfound", 0)), path, TRUE, net)
  /\ Moved
  /\ UNCHANGED <<can, live, db>>

\* loginWithMock.
EnterApp ==
  /\ page.kind = "login" /\ page.mode \in LoginEnters /\ moves < Moves
  /\ Becomes(As(Mock), Goes(page, Route("hub", 0)), path, TRUE, net)
  /\ Moved
  /\ UNCHANGED <<can, live, db>>

\* The application is loaded anew at the login page's address, with a code or an error.
WpsReturns ==
  /\ path.at = "wps"
  /\ \E ok \in BOOLEAN :
       LET e == LoginReturned(ok)
           l == [login EXCEPT !.user = IF login.token = 0 THEN 0 ELSE @]
           at == Route("login", 0)
           to == Landing(l, at) IN
       /\ login' = l
       /\ path' = to
       /\ page' = IF to = at THEN e.page ELSE OpenedPage(to)
       /\ net' = Issued(e.send, l, at, to = at)
                 \o IF to = at THEN <<>> ELSE Issued(ReadsUser(at, to) \o Loads(to), l, to, TRUE)
  /\ UNCHANGED <<can, live, db, moves>>

-----------------------------------------------------------------------------
(* Requests. *)

\* Asked with no token, or refused without forgetting the login.
PublicOps == {"authorize", "exchange"} \cup Local
KeepsLogin == {"listCloud", "importCloud", "importList", "importWps", "parseImage", "ocr"}
\* fetchJSON gives up after 20 seconds; two uploads of images use plain fetch.
Untimed == Local \cup {"parseImage", "ocr"}
Refused(r) == r.op \notin PublicOps /\ r.by \notin live

\* The stored part of an application lives in db; a token that is not alive is refused.
Serve(k) ==
  LET r == net[k] IN
  /\ r.op \in Stored /\ r.at \in {"sent", "late"}
  /\ \E o \in IF Refused(r) THEN {[at |-> "denied", val |-> NoValue, db |-> db]}
              ELSE Outcomes(db, r) \cup IF "fault" \in can THEN Fails(db) ELSE {} :
       /\ db' = o.db
       /\ net' = IF r.at = "late" THEN RemoveAt(net, k)
                 ELSE [net EXCEPT ![k].at = o.at, ![k].val = o.val]
  /\ UNCHANGED <<can, login, live, path, page, moves>>

\* The page that asked; of one that is gone only what it sends and where it goes is left.
Asker(r) == IF r.mine THEN page ELSE OpenedPage(r.who)
\* A login whose page is gone logs in all the same, but leads nowhere.
Handled(r, ok, denied) ==
  IF r.op \in {"me", "parts"} \/ (r.op = "exchange" /\ ~r.mine) THEN Nothing(Asker(r))
  ELSE Answer(Asker(r), r, ok, denied)

\* mutant: the login is forgotten and nobody is told
DeniedQuietly(r) ==
  IF r.op \in KeepsLogin \/ r.by = Mock THEN [login |-> login, go |-> Stay]
  ELSE [login |-> [login EXCEPT !.token = 0], go |-> Stay]
\* fetchJSON on 401: whatever login there is by now is forgotten.
Denied(r) ==
  IF r.op \in KeepsLogin \/ r.by = Mock THEN [login |-> login, go |-> Stay]
  ELSE IF path.at = "login" THEN [login |-> [login EXCEPT !.token = 0], go |-> Stay]
  ELSE [login |-> NoLogin, go |-> Route("login", 0)]

\* exchange brings a new token, "me" the user of the one it was asked with.
LoginAfter(r) ==
  CASE r.op = "exchange" -> As(Cardinality(live) + 1)
    [] r.op = "me" -> [login EXCEPT !.user = r.by]
    [] OTHER -> login

Answers(r) ==
  IF r.op \in Stored THEN {r.at} \ {"sent", "late"}
  ELSE IF Refused(r) THEN {"denied"}
  ELSE {"ok"} \cup IF "fault" \in can THEN {"failed"} ELSE {}

Deliver(k) ==
  LET r == net[k] IN
  /\ r.op = "exchange" => Cardinality(live) < MaxLogins
  /\ \E a \in Answers(r) :
       IF a = "denied"
       THEN LET d == Denied(r)
                e == Handled(r, FALSE, TRUE) IN
            Becomes(d.login, IF d.go = Stay THEN e ELSE [e EXCEPT !.go = d.go],
                    r.who, r.mine, RemoveAt(net, k)) /\ UNCHANGED live
       ELSE /\ Becomes(IF a = "ok" THEN LoginAfter(r) ELSE login, Handled(r, a = "ok", FALSE),
                       r.who, r.mine, RemoveAt(net, k))
            /\ live' = IF a = "ok" /\ r.op = "exchange" THEN live \cup {login'.token} ELSE live
  /\ UNCHANGED <<can, db, moves>>

\* The page is told that nothing came; what the server is asked it may still do later.
TimesOut(k) ==
  LET r == net[k]
      rest == IF r.at = "sent" /\ r.op \in Writes
              THEN [net EXCEPT ![k].at = "late", ![k].mine = FALSE] ELSE RemoveAt(net, k) IN
  /\ "slow" \in can /\ r.op \notin Untimed /\ r.at # "late"
  /\ Becomes(login, Handled(r, FALSE, FALSE), r.who, r.mine, rest)
  /\ UNCHANGED <<can, live, db, moves>>

\* The report page's timer; Polls is its bound and the code's.
PollTick ==
  /\ page.kind = "report" /\ page.timer /\ page.polls < Polls
  /\ Becomes(login, Poll(page), path, TRUE, net)
  /\ UNCHANGED <<can, live, db, moves>>

-----------------------------------------------------------------------------
(* The world around. *)

\* The login's token runs out, or the server's secret changes.
Expire ==
  /\ "expire" \in can /\ login.token \in live
  /\ live' = live \ {login.token}
  /\ UNCHANGED <<can, login, path, page, net, db, moves>>

\* The interview in the room begins, and ends: the server starts on the report and the
\* room goes to it.
RoomBegins ==
  /\ path.at = "room" /\ db.status[path.id] = "ready"
  /\ db' = [db EXCEPT !.status[path.id] = "in_progress"]
  /\ UNCHANGED <<can, login, live, path, page, net, moves>>
RoomOver ==
  /\ path.at = "room" /\ db.status[path.id] = "in_progress"
  /\ db' = [db EXCEPT !.status[path.id] = "completed", !.report[path.id] = "making"]
  /\ Becomes(login, Goes(page, Route("report", path.id)), path, TRUE, net)
  /\ UNCHANGED <<can, live, moves>>

ServerEvaluates ==
  \E s \in Sessions :
    /\ db.report[s] = "making"
    /\ \E end \in {"done"} \cup IF "fault" \in can THEN {"failed"} ELSE {} :
         db' = [db EXCEPT !.report[s] = end]
    /\ UNCHANGED <<can, login, live, path, page, net, moves>>

-----------------------------------------------------------------------------
Init ==
  \E s \in Scenarios :
    /\ can = s.can
    /\ login = IF s.at.at \in Protected THEN As(1) ELSE NoLogin
    /\ live = {1}
    /\ path = s.at
    /\ page = OpenedPage(s.at)
    /\ net = Issued(ReadsUser(Route("wps", 0), s.at) \o Loads(s.at), As(1), s.at, TRUE)
    /\ db = s.db
    /\ moves = 0

HeadStep == net # <<>> /\ (Serve(1) \/ Deliver(1))

Next ==
  \/ Press \/ Navigate \/ HandleLogout \/ EnterApp \/ WpsReturns
  \/ \E k \in DOMAIN net : Serve(k) \/ Deliver(k) \/ TimesOut(k)
  \/ PollTick \/ Expire \/ RoomBegins \/ RoomOver \/ ServerEvaluates

\* Every request comes to an end, and the browser runs its timers.
Fairness == WF_vars(HeadStep) /\ WF_vars(PollTick)
Spec == Init /\ [][Next]_vars /\ Fairness

-----------------------------------------------------------------------------
PageType ==
  CASE page.kind = "prep" -> page \in PrepType
    [] page.kind \in {"hub", "list"} -> page \in ListType
    [] page.kind = "bank" -> page \in BankType
    [] page.kind = "resumes" -> page \in ResumesType
    [] page.kind = "jobs" -> page \in JobsType
    [] page.kind = "report" -> page \in ReportType(Sessions)
    [] page.kind = "detail" -> page \in DetailType
    [] page.kind = "login" -> page \in LoginType
    [] OTHER -> page = Plain(path.at, path.id)

\* Types; the page shown is the one of the route, and no request waits that nobody sent.
PagesTypeOK ==
  /\ PageType /\ page.kind = path.at /\ path.at \in Protected \cup Public
  /\ login \in [token : 0..Mock, user : 0..Mock] /\ live \subseteq 1..MaxLogins
  /\ db \in DbType /\ moves \in 0..Moves
  /\ \A k \in DOMAIN net :
       /\ net[k].at \in {"sent", "ok", "failed", "denied", "late"}
       /\ net[k].mine => net[k].who = path

\* CreateInterviewPage.tsx:519-532, InterviewDetailPage.tsx:82-100. The room is entered
\* only for a session the server has the questions of.
RoomIsReady == path.at = "room" => db.status[path.id] \notin {"none", "draft"}

\* auth/ProtectedRoute.tsx, api/client.ts:121-145. A page that needs a login is never
\* left on the screen without one: a 401 that takes the token also takes the page.
ProtectedNeedsLogin == path.at \in Protected => LoggedIn(login)

\* ReportPage.tsx:164-185. Where the report is said to be awaited, a timer runs, or the
\* page has said that it gave up, or that something failed.
NeverStuck ==
  (page.kind = "report" /\ page.available = "no") =>
    page.timer \/ page.gaveUp \/ page.failed \/ page.retrying

\* The loading flags of all pages. Whatever says that it is waiting has a request under
\* way, of this page, that will end the wait: no button stays disabled for ever.
NothingHangs ==
  \A w \in Waits(page) : \E k \in DOMAIN net : net[k].mine /\ net[k].op \in w

\* CreateInterviewPage.tsx:495-540 and the detail page: one page never creates or starts
\* two sessions at once, however its buttons are pressed.
OneStart ==
  Cardinality({k \in DOMAIN net :
                 net[k].mine /\ net[k].op \in {"createInterview", "startInterview"}}) <= 1

\* ManagePage.tsx:191-376. A change is read back only after all of it was made, whatever
\* changes and readings overlap: when the list was not shown since the last reading was
\* asked for, no change is under way, and the answer to that reading is shown, then the list
\* is the bank as it is, with earlier readings still under way or without. It is stated of a
\* candidate who stays on the page and is answered in time. Of the answer to an earlier
\* reading nothing is said: load does not tell them apart, and one that comes after the
\* answer to the last puts an older list back.
BankChanges == {"deleteQuestions", "patch", "confirmImport"}
LastReading(k) ==
  /\ page.loading /\ net[k].op = "listQuestions"
  /\ \A j \in DOMAIN net : j > k => net[j].op # "listQuestions"
FreshList ==
  [][ \A k \in DOMAIN net :
        ( /\ page.kind = "bank" /\ page'.kind = "bank" /\ moves = 0 /\ "slow" \notin can
          /\ LastReading(k) /\ \A j \in DOMAIN net : net[j].op \notin BankChanges
          /\ Deliver(k) /\ ~page'.failed )
        => page'.shown = db'.bank ]_vars

\* ReportPage.tsx:221-292. Once the report is there, a candidate who stays on its page
\* comes to see it, or is told that something failed or that the page gave up.
ReportSettles ==
  (page.kind = "report" /\ \E s \in Sessions : page.id = s /\ db.report[s] = "done")
    ~> (page.kind # "report" \/ page.shown \/ page.failed \/ page.gaveUp \/ page.demo)
=============================================================================
