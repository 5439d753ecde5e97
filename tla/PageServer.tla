------------------------------ MODULE PageServer ------------------------------
(***************************************************************************)
(* The server as the pages see it: what it keeps of a user and what it makes  *)
(* of a request. "Stored" requests read or change what it keeps, and are       *)
(* served at one moment and answered at a later one; all others are only       *)
(* answered. An outcome says how the request ends, the value it brings, and    *)
(* what is kept afterwards.                                                   *)
(***************************************************************************)
EXTENDS ManagePanels, ReportPage, SessionPages

Statuses == {"none", "draft", "ready", "in_progress", "completed"}
DbType ==
  [status : [Sessions -> Statuses], report : [Sessions -> {"none", "making", "failed", "done"}],
   bank : [Questions -> 0..Banks], resumes : SUBSET Files, jobs : SUBSET Jobs]

\* An answer's value: questions with their banks, things found, a session's status,
\* whether there is a report.
NoValue == [bank |-> [q \in Questions |-> 0], ids |-> {}, status |-> "none", yes |-> FALSE]
Ids(ids) == [NoValue EXCEPT !.ids = ids]
HasFeedback(yes) == [NoValue EXCEPT !.yes = yes]

Brings(val, db) == {[at |-> "ok", val |-> val, db |-> db]}
Does(db) == Brings(NoValue, db)
Fails(db) == {[at |-> "failed", val |-> NoValue, db |-> db]}
ButOnlyIf(guard, db, S) == IF guard THEN S ELSE Fails(db)

-----------------------------------------------------------------------------
(* question/handler.go, service.go and repo.go. *)

\* One question that is gone fails the request; of several, those there are go.
DeleteQuestions(db, ids, from) ==
  ButOnlyIf(ids # {} /\ (from = "one" => \A q \in ids : db.bank[q] # 0), db,
    Does([db EXCEPT !.bank = [q \in Questions |-> IF q \in ids THEN 0 ELSE @[q]]]))
Patch(db, ids, to) ==
  ButOnlyIf(ids # {} /\ db.bank[Next1(ids)] # 0, db,
    Does(IF to = 0 THEN db ELSE [db EXCEPT !.bank[Next1(ids)] = to]))
\* A question the bank holds already is left where it is.
ImportConfirmed(db, ids) ==
  Does([db EXCEPT !.bank = [q \in Questions |-> IF q \in ids /\ @[q] = 0 THEN 1 ELSE @[q]]])
\* Only what was answered is stored; which questions these are is not kept here.
ImportFromSession(db, s) ==
  Fails(db) \cup
  IF db.status[s] \notin {"in_progress", "completed"} THEN {}
  ELSE UNION {ImportConfirmed(db, {q}) : q \in Questions}

-----------------------------------------------------------------------------
(* resume/handler.go and jobinfo/handler.go. *)

UploadResume(db, f) ==
  ButOnlyIf(Cardinality(db.resumes) < MaxResumes, db, Does([db EXCEPT !.resumes = @ \cup {f}]))
RenameResume(db, f) == ButOnlyIf(f \in db.resumes, db, Does(db))
DeleteResume(db, f) == ButOnlyIf(f \in db.resumes, db, Does([db EXCEPT !.resumes = @ \ {f}]))

\* Jobs bounds how many can be stored.
CreateJob(db) ==
  LET new == Jobs \ db.jobs IN
  ButOnlyIf(new # {}, db,
    LET j == Next1(new) IN Brings(Ids({j}), [db EXCEPT !.jobs = @ \cup {j}]))
UpdateJob(db, j) == ButOnlyIf(j \in db.jobs, db, Does(db))
DeleteJob(db, j) == ButOnlyIf(j \in db.jobs, db, Does([db EXCEPT !.jobs = @ \ {j}]))

-----------------------------------------------------------------------------
(* interview/handler.go and service.go, analysis/service.go. *)

\* Questions of the bank need no generation: such a session is ready at once.
CreateInterview(db, questions) ==
  LET new == {s \in Sessions : db.status[s] = "none"} IN
  ButOnlyIf(new # {} /\ \A q \in questions : db.bank[q] # 0, db,
    LET s == Next1(new) IN
    Brings(Ids({s}),
           [db EXCEPT !.status[s] = IF questions = {} THEN "draft" ELSE "ready"]))
\* Only a draft is started.
StartInterview(db, s) ==
  ButOnlyIf(db.status[s] = "draft", db, Does([db EXCEPT !.status[s] = "ready"]))

ReportOf(db, s) ==
  ButOnlyIf(s # 0 /\ db.status[s] = "completed", db,
            Brings(HasFeedback(db.report[s] = "done"), db))
\* An evaluation that fails is no error: there is no report, still.
RetryReport(db, s) ==
  ButOnlyIf(s # 0 /\ db.status[s] = "completed", db,
            Brings(HasFeedback(TRUE), [db EXCEPT !.report[s] = "done"])
            \cup Brings(HasFeedback(FALSE), [db EXCEPT !.report[s] = IF @ = "done" THEN @ ELSE "failed"]))
SessionOf(db, s) ==
  ButOnlyIf(s # 0 /\ db.status[s] # "none", db,
            Brings([NoValue EXCEPT !.status = db.status[s]], db))

-----------------------------------------------------------------------------
Reads == {"listQuestions", "listResumes", "listJobs", "listInterviews", "getInterview",
          "getReport", "pollReport"}
Writes == {"deleteQuestions", "patch", "confirmImport", "importSession", "uploadResume",
           "renameResume", "deleteResume", "createJob", "updateJob", "deleteJob",
           "createInterview", "startInterview", "retryReport"}
Stored == Reads \cup Writes
\* Work of the browser, which no server refuses and no timer ends.
Local == {"parse", "parseCloud", "extract", "extractResume"}

Outcomes(db, r) ==
  CASE r.op = "listQuestions" -> Brings([NoValue EXCEPT !.bank = db.bank], db)
    [] r.op = "listResumes" -> Brings(Ids(db.resumes), db)
    [] r.op = "listJobs" -> Brings(Ids(db.jobs), db)
    [] r.op = "listInterviews" -> Brings(Ids({s \in Sessions : db.status[s] # "none"}), db)
    [] r.op = "getInterview" -> SessionOf(db, The(r.ids))
    [] r.op \in {"getReport", "pollReport"} -> ReportOf(db, The(r.ids))
    [] r.op = "deleteQuestions" -> DeleteQuestions(db, r.ids, r.from)
    [] r.op = "patch" -> Patch(db, r.ids, r.to)
    [] r.op = "confirmImport" -> ImportConfirmed(db, r.ids)
    [] r.op = "importSession" -> ImportFromSession(db, The(r.ids))
    [] r.op = "uploadResume" -> UploadResume(db, The(r.ids))
    [] r.op = "renameResume" -> RenameResume(db, The(r.ids))
    [] r.op = "deleteResume" -> DeleteResume(db, The(r.ids))
    [] r.op = "createJob" -> CreateJob(db)
    [] r.op = "updateJob" -> UpdateJob(db, The(r.ids))
    [] r.op = "deleteJob" -> DeleteJob(db, The(r.ids))
    [] r.op = "createInterview" -> CreateInterview(db, r.ids)
    [] r.op = "startInterview" -> StartInterview(db, The(r.ids))
    [] OTHER -> RetryReport(db, The(r.ids))
=============================================================================
