----------------------------- MODULE SessionPages -----------------------------
(***************************************************************************)
(* The pages around a session: the lists of pages/HubPage.tsx and            *)
(* pages/InterviewListPage.tsx, the single session of                        *)
(* pages/InterviewDetailPage.tsx, and the forms of pages/LoginPage.tsx. The   *)
(* room is a page without state here: modules InterviewRoom and RoomSystem    *)
(* are about it.                                                            *)
(***************************************************************************)
EXTENDS PageEffects

CONSTANTS Sessions

\* Pages that keep nothing.
Plain(at, id) == [kind |-> at, id |-> id]

-----------------------------------------------------------------------------
(* The dossiers of the start page and the records of the history. *)

ListOpened(kind) == [kind |-> kind, loading |-> TRUE, failed |-> FALSE, rows |-> {}, demo |-> FALSE]
ListType ==
  [kind : {"hub", "list"}, loading : BOOLEAN, failed : BOOLEAN, rows : SUBSET Sessions,
   demo : BOOLEAN]

\* Being refused is no error: the history falls back to demonstration records,
\* the start page stays empty.
Listed(p, rows, ok, denied) ==
  Shows(IF ok THEN [p EXCEPT !.loading = FALSE, !.rows = rows]
        ELSE [p EXCEPT !.loading = FALSE, !.failed = ~denied, !.demo = p.kind = "list"])
HubPresses(p) ==
  {Goes(p, Route("prep", 0)), Goes(p, Route("list", 0))}
  \cup {Goes(p, Route("report", s)) : s \in p.rows}
\* A demonstration record opens the report of a session that is not there.
ListPresses(p) ==
  {Goes(p, Route("report", s)) : s \in IF p.demo THEN {0} ELSE p.rows}

-----------------------------------------------------------------------------
(* InterviewDetailPage. *)

DetailOpened(id) ==
  [kind |-> "detail", id |-> id, loading |-> TRUE, failed |-> FALSE, status |-> "unknown",
   starting |-> FALSE, saving |-> FALSE]
DetailType ==
  [kind : {"detail"}, id : Sessions, loading : BOOLEAN, failed : BOOLEAN,
   status : {"unknown", "none", "draft", "ready", "in_progress", "completed"},
   starting : BOOLEAN, saving : BOOLEAN]

DetailLoaded(p, status, ok) ==
  Shows([p EXCEPT !.loading = FALSE, !.failed = ~ok, !.status = IF ok THEN status ELSE @])

HandleStart(p) ==
  IF p.status = "ready" THEN Goes(p, Route("room", p.id))
  ELSE Sends([p EXCEPT !.starting = TRUE], "startInterview", {p.id})
\* The button is given back only by a failure; success leaves the page.
DetailStarted(p, ok) ==
  IF ok THEN Goes(p, Route("room", p.id)) ELSE Shows([p EXCEPT !.starting = FALSE])

HandleSaveToBank(p) == Sends([p EXCEPT !.saving = TRUE], "importSession", {p.id})
SavedToBank(p) == Shows([p EXCEPT !.saving = FALSE])

DetailPresses(p) ==
  IF p.loading THEN {}
  ELSE IF p.failed THEN {Goes(p, Route("list", 0))}
  ELSE When(p.status \in {"draft", "ready"} /\ ~p.starting, {HandleStart(p)})
       \cup When(p.status = "in_progress", {Goes(p, Route("room", p.id))})
       \cup When(p.status = "completed", {Goes(p, Route("report", p.id))})
       \* A draft has no questions to store.
       \cup When(p.status # "draft" /\ ~p.saving, {HandleSaveToBank(p)})

DetailAnswer(p, r, ok, val) ==
  CASE r.op = "getInterview" -> DetailLoaded(p, val.status, ok)
    [] r.op = "startInterview" -> DetailStarted(p, ok)
    [] r.op = "importSession" -> SavedToBank(p)
    [] OTHER -> Nothing(p)
DetailWaits(p) ==
  When(p.loading, {{"getInterview"}}) \cup When(p.starting, {{"startInterview"}})
  \cup When(p.saving, {{"importSession"}})

-----------------------------------------------------------------------------
(* LoginPage: passwords and codes are checked in the browser against a fixed *)
(* demonstration account; only the WPS button asks the server.               *)

LoginModes ==
  {"login-password", "login-otp", "register", "verify", "forgot-start", "forgot-reset"}
LoginOpened ==
  [kind |-> "login", mode |-> "login-password", loading |-> FALSE, failed |-> FALSE]
LoginType == [kind : {"login"}, mode : LoginModes, loading : BOOLEAN, failed : BOOLEAN]
\* The page opened by the redirect of the callback, with a code or with an error.
LoginReturned(ok) ==
  IF ok THEN Sends([LoginOpened EXCEPT !.loading = TRUE], "exchange", {})
  ELSE Shows([LoginOpened EXCEPT !.failed = TRUE])

HandleAuthorize(p) == Sends([p EXCEPT !.loading = TRUE, !.failed = FALSE], "authorize", {})
LoginFailed(p) == Shows([p EXCEPT !.loading = FALSE, !.failed = TRUE])
\* The browser leaves the application.
Authorized(p, ok) == IF ok THEN Goes(p, Route("wps", 0)) ELSE LoginFailed(p)
Exchanged(p, ok) == IF ok THEN Goes(p, Route("hub", 0)) ELSE LoginFailed(p)

\* A form that succeeds goes on to another one, or enters the application (LoginEnters);
\* one that fails says why.
FormStep(mode) ==
  CASE mode = "login-password" -> {"login-otp", "register", "forgot-start"}
    [] mode = "login-otp" -> {"login-password", "register"}
    [] mode = "register" -> {"verify", "login-password"}
    [] mode = "verify" -> {"register"}
    [] mode = "forgot-start" -> {"forgot-reset", "login-password"}
    [] OTHER -> {"login-password"}
LoginEnters == {"login-password", "login-otp", "verify"}
LoginPresses(p) ==
  {Goes(p, Route("welcome", 0))}
  \cup {Shows([p EXCEPT !.mode = m, !.failed = FALSE]) : m \in FormStep(p.mode)}
  \cup {Shows([p EXCEPT !.failed = TRUE])}
  \cup When(p.mode \in {"login-password", "login-otp"} /\ ~p.loading, {HandleAuthorize(p)})

LoginAnswer(p, r, ok) ==
  CASE r.op = "authorize" -> Authorized(p, ok)
    [] r.op = "exchange" -> Exchanged(p, ok)
    [] OTHER -> Nothing(p)
LoginWaits(p) == When(p.loading, {{"authorize", "exchange"}})
=============================================================================
