------------------------------ MODULE PrepPage ------------------------------
(***************************************************************************)
(* pages/CreateInterviewPage.tsx: the material of an interview is collected *)
(* in dialogs, most of which wait for requests, and one button creates the  *)
(* session, has its questions generated and enters the room.                *)
(*                                                                         *)
(* A resume is the number of its file: "text" and "url" are the files whose  *)
(* text and whose archived original the page holds, 0 for none. "failed" is  *)
(* the error shown; keywords of the cloud search are numbers, 0 the empty    *)
(* one. "can" names the parts of the page the candidate uses.               *)
(***************************************************************************)
EXTENDS ImportDialog

CONSTANTS Files, Keywords, Banks, MaxResumes

NoGithub == [choice |-> "none", loading |-> FALSE, found |-> FALSE]
PrepOpened ==
  [kind |-> "prep", job |-> FALSE, jd |-> FALSE, modal |-> "none", phase |-> "none",
   failed |-> FALSE, saved |-> FALSE, upload |-> "none", chooser |-> FALSE,
   text |-> 0, url |-> 0, parsing |-> FALSE,
   library |-> [loading |-> FALSE, items |-> {}],
   cloud |-> [loading |-> FALSE, importing |-> FALSE, typed |-> 0, timer |-> FALSE,
              listed |-> FALSE],
   ocr |-> FALSE,
   bank |-> [q \in Questions |-> 0], bankLoading |-> FALSE, selected |-> {},
   github |-> NoGithub,
   import |-> ImportClosed]

Modals == {"none", "job", "resumePick", "resumeImportMethod", "wpsCloud", "jd", "bank"}
PrepType ==
  [kind : {"prep"}, job : BOOLEAN, jd : BOOLEAN, modal : Modals,
   phase : {"none", "creating", "generating"}, failed : BOOLEAN, saved : BOOLEAN,
   upload : {"none", "yes", "no"}, chooser : BOOLEAN,
   text : Files \cup {0}, url : Files \cup {0}, parsing : BOOLEAN,
   library : [loading : BOOLEAN, items : SUBSET Files],
   cloud : [loading : BOOLEAN, importing : BOOLEAN, typed : Keywords, timer : BOOLEAN,
            listed : BOOLEAN],
   ocr : BOOLEAN,
   bank : [Questions -> 0..Banks], bankLoading : BOOLEAN, selected : SUBSET Questions,
   github : [choice : {"none", "yes", "no"}, loading : BOOLEAN, found : BOOLEAN],
   import : ImportType]

\* The effect of a page, the page put into the right state first.
Then(e, p) == [e EXCEPT !.page = p]
Closes(p) == Shows([p EXCEPT !.modal = "none"])
Opens(p, modal) == Shows([p EXCEPT !.modal = modal])

-----------------------------------------------------------------------------
(* The job and the job description. *)

ChooseJob(p) ==
  Shows([p EXCEPT !.job = TRUE, !.failed = FALSE, !.modal = "none", !.upload = "none"])

\* The dialog reads the stored descriptions whenever it opens. An answer that finds it
\* closed is ignored; one asked for by an earlier opening is taken for the present one's.
OpenJobInfo(p) == Sends([p EXCEPT !.modal = "jd"], "listJobs", {})
JobInfoListed(p, jobs, ok) ==
  Shows(IF ok /\ p.modal = "jd" THEN [p EXCEPT !.saved = jobs # {}] ELSE p)
HandleManualJobInfoSave(p) == Sends(p, "createJob", {})
PickJobInfo(p) == Shows([p EXCEPT !.jd = TRUE, !.modal = "none"])
HandleJobInfoImage(p) == Sends([p EXCEPT !.ocr = TRUE], "ocr", {})

\* The description arrives, and whatever dialog is open by now closes.
JobInfoRead(p, ok) ==
  Shows(IF ok THEN [p EXCEPT !.jd = TRUE, !.ocr = FALSE, !.modal = "none"]
        ELSE [p EXCEPT !.ocr = FALSE])
JobInfoSaved(p, ok) ==
  Shows(IF ok THEN [p EXCEPT !.jd = TRUE, !.saved = TRUE, !.modal = "none"] ELSE p)

-----------------------------------------------------------------------------
(* The resume: a local file, one of the library, or a cloud document. *)

\* The file is parsed, then archived; a refused file changes nothing.
HandleResumeFile(p, f) ==
  Sends([p EXCEPT !.chooser = FALSE, !.parsing = TRUE, !.url = 0], "parse", {f})
\* mutant: a file that cannot be read leaves the page waiting
ParsedOrStuck(p, f, ok) ==
  IF ok THEN Sends([p EXCEPT !.text = f], "upload", {f})
  ELSE Shows([p EXCEPT !.text = 0, !.url = 0])
Parsed(p, f, ok) ==
  IF ok THEN Sends([p EXCEPT !.text = f], "upload", {f})
  ELSE Shows([p EXCEPT !.text = 0, !.url = 0, !.parsing = FALSE])
Uploaded(p, f, ok) == Shows([p EXCEPT !.url = IF ok THEN f ELSE @, !.parsing = FALSE])

OpenResumePick(p) ==
  Sends([p EXCEPT !.modal = "resumePick", !.library = [loading |-> TRUE, items |-> {}]],
        "listResumes", {})
ResumesListed(p, files, ok) ==
  Shows([p EXCEPT !.library = [loading |-> FALSE, items |-> IF ok THEN files ELSE @.items]])
PickResume(p, f) == Shows([p EXCEPT !.text = f, !.url = f, !.modal = "none"])

OpenWpsCloud(p) ==
  Sends([p EXCEPT !.modal = "wpsCloud", !.cloud.loading = TRUE, !.cloud.typed = 0,
                  !.cloud.listed = FALSE], "listCloud", {0})
SearchCloudFiles(p) == Sends([p EXCEPT !.cloud.loading = TRUE], "listCloud", {p.cloud.typed})
\* Typing starts the 300 ms timer over; the search it starts waits for nothing.
TypeKeyword(p, k) == Shows([p EXCEPT !.cloud.typed = k, !.cloud.timer = TRUE])
TimerStopped(p) == [p EXCEPT !.cloud.timer = FALSE]
CloseCloud(p) == Closes(TimerStopped(p))
\* Whichever answer comes last is listed; an error takes the place of the list.
CloudListed(p, ok) == Shows([p EXCEPT !.cloud.loading = FALSE, !.cloud.listed = ok])

PickCloudFile(p, f) == Sends([p EXCEPT !.cloud.importing = TRUE], "importCloud", {f})
ImportOver(p) == [p EXCEPT !.cloud.importing = FALSE, !.parsing = FALSE]
CloudFailed(p) == Shows([ImportOver(p) EXCEPT !.cloud.listed = FALSE])
CloudImported(p, f, ok) ==
  IF ok THEN Sends([p EXCEPT !.parsing = TRUE], "parseCloud", {f}) ELSE CloudFailed(p)
CloudParsed(p, f, ok) ==
  IF ok THEN Sends([p EXCEPT !.text = f], "uploadCloud", {f}) ELSE CloudFailed(p)
\* The original may be missing, and an earlier one stays; the open dialog closes.
CloudUploaded(p, f, ok) ==
  Shows([ImportOver(p) EXCEPT !.url = IF ok THEN f ELSE @, !.modal = "none"])

-----------------------------------------------------------------------------
(* The question bank and the GitHub project. *)

LoadBankQuestions(p) ==
  Sends([p EXCEPT !.bankLoading = TRUE, !.bank = [q \in Questions |-> 0]], "listQuestions", {})
OpenBankPicker(p) == LoadBankQuestions([p EXCEPT !.modal = "bank"])
BankQuestionsLoaded(p, bank, ok) ==
  Shows([p EXCEPT !.bankLoading = FALSE, !.bank = IF ok THEN bank ELSE @])
PickBank(p, b) ==
  Shows([p EXCEPT !.selected = {q \in Questions : p.bank[q] = b}, !.modal = "none"])
\* onImported and onClose: back to the picker, the list read again.
ImportedForPrep(p, ok) ==
  LET q == [p EXCEPT !.import = Confirmed(@, ok)] IN
  IF ok THEN LoadBankQuestions([q EXCEPT !.modal = "bank"]) ELSE Shows(q)
Existing(bank) == {q \in Questions : bank[q] # 0}

AnalyzeProject(p) == Sends([p EXCEPT !.github.loading = TRUE], "analyze", {})
ProjectAnalyzed(p, ok) ==
  IF ok THEN Sends([p EXCEPT !.github.found = TRUE], "storeProject", {})
  ELSE Shows([p EXCEPT !.github.loading = FALSE])
ProjectStored(p) == Shows([p EXCEPT !.github.loading = FALSE])
GithubDone(p) == p.github.choice = "no" \/ (p.github.choice = "yes" /\ p.github.found)

-----------------------------------------------------------------------------
(* Starting. *)

\* handlePrepReset leaves requests under way, and the flags of most of them, alone.
HandlePrepReset(p) ==
  Shows([p EXCEPT !.job = FALSE, !.jd = FALSE, !.text = 0, !.url = 0, !.selected = {},
                  !.upload = "none", !.github = NoGithub, !.failed = FALSE, !.modal = "none"])

MayStartAgain(p) == ~p.parsing  \* mutant: the button stays enabled
MayStart(p) == p.phase = "none" /\ ~p.parsing
StartInterviewFlow(p) ==
  IF ~p.job THEN Shows([p EXCEPT !.failed = TRUE])
  ELSE Sends([p EXCEPT !.failed = FALSE, !.phase = "creating"], "createInterview", p.selected)
StartFailed(p) == Shows([p EXCEPT !.failed = TRUE, !.phase = "none"])
\* mutant: the room is entered while the questions are generated
CreatedEarly(p, id, ok) ==
  IF ok THEN [Sends([p EXCEPT !.phase = "generating"], "startInterview", {id})
              EXCEPT !.go = Route("room", id)]
  ELSE StartFailed(p)
Created(p, id, ok) ==
  IF ok THEN Sends([p EXCEPT !.phase = "generating"], "startInterview", {id}) ELSE StartFailed(p)
Started(p, id, ok) ==
  IF ok THEN Goes([p EXCEPT !.phase = "none"], Route("room", id)) ELSE StartFailed(p)

-----------------------------------------------------------------------------
(* What the candidate may press, dialog by dialog. *)

PrepButtons(p, can) ==
  {Goes(p, Route("hub", 0)), Opens(p, "job")}
  \cup When("reset" \in can, {HandlePrepReset(p)})
  \cup When("start" \in can /\ MayStart(p), {StartInterviewFlow(p)})
  \cup When("github" \in can /\ p.job,
         {Shows([p EXCEPT !.github.choice = c]) : c \in {"yes", "no"}}
         \cup When(p.github.choice = "yes" /\ ~p.github.loading /\ ~p.github.found,
                   {AnalyzeProject(p)}))
  \cup When(p.job /\ ("github" \notin can \/ GithubDone(p)) /\ can \cap {"resume", "jd", "bank"} # {},
         {Shows([p EXCEPT !.upload = c]) : c \in {"yes", "no"}})

MaterialButtons(p, can) ==
  When(p.upload = "yes",
       When("resume" \in can, {OpenResumePick(p)})
       \cup When("jd" \in can, {OpenJobInfo(p)})
       \cup When("bank" \in can, {OpenBankPicker(p)}))

JobDialog(p) == {Closes(p), ChooseJob(p)}

\* "Local upload" closes the dialog and opens the browser's file chooser.
ResumeDialogs(p, can) ==
  IF p.modal = "resumePick"
  THEN {Closes(p)} \cup When(Cardinality(p.library.items) < MaxResumes,
                             {Opens(p, "resumeImportMethod")})
       \cup When(~p.library.loading, {PickResume(p, f) : f \in p.library.items})
  ELSE {Opens(p, "resumePick"), Shows([p EXCEPT !.modal = "none", !.chooser = TRUE])}
       \cup When("cloud" \in can, {OpenWpsCloud(p)})

CloudDialog(p) ==
  {CloseCloud(p)} \cup {TypeKeyword(p, k) : k \in Keywords}
  \cup When(~p.cloud.loading /\ ~p.cloud.importing,
         {SearchCloudFiles(p), SearchCloudFiles(TimerStopped(p))}
         \cup When(p.cloud.listed, {PickCloudFile(p, f) : f \in Files}))

JobInfoDialog(p) ==
  {Closes(p), HandleManualJobInfoSave(p)}
  \cup When(p.saved, {PickJobInfo(p)}) \cup When(~p.ocr, {HandleJobInfoImage(p)})

BankDialog(p, can) ==
  {Closes(p)}
  \cup When("import" \in can, {Shows([p EXCEPT !.modal = "none", !.import.open = TRUE])})
  \cup When(~p.bankLoading, {PickBank(p, b) : b \in {p.bank[q] : q \in Existing(p.bank)}})

\* The import dialog of a page p; closing it is the host's onClose.
InImport(p, e) == Then(e, [p EXCEPT !.import = e.page])
PrepImport(p, can) ==
  {LET h == InImport(p, e) IN
   IF e.page.open THEN h ELSE Then(h, [h.page EXCEPT !.modal = "bank"])
     : e \in ImportPresses(p.import, Existing(p.bank), can)}

PrepPresses(p, can) ==
  When(p.cloud.timer, {SearchCloudFiles(TimerStopped(p))})
  \cup IF p.import.open THEN PrepImport(p, can)
  ELSE IF p.chooser THEN {HandleResumeFile(p, f) : f \in Files}
                         \cup {Shows([p EXCEPT !.chooser = FALSE])}
  ELSE CASE p.modal = "none" -> PrepButtons(p, can) \cup MaterialButtons(p, can)
              [] p.modal = "job" -> JobDialog(p)
              [] p.modal \in {"resumePick", "resumeImportMethod"} -> ResumeDialogs(p, can)
              [] p.modal = "wpsCloud" -> CloudDialog(p)
              [] p.modal = "jd" -> JobInfoDialog(p)
              [] OTHER -> BankDialog(p, can)

PrepAnswer(p, r, ok, val) ==
  CASE r.op = "listJobs" -> JobInfoListed(p, val.ids, ok)
    [] r.op = "createJob" -> JobInfoSaved(p, ok)
    [] r.op = "ocr" -> JobInfoRead(p, ok)
    [] r.op = "parse" -> Parsed(p, The(r.ids), ok)
    [] r.op = "upload" -> Uploaded(p, The(r.ids), ok)
    [] r.op = "listResumes" -> ResumesListed(p, val.ids, ok)
    [] r.op = "listCloud" -> CloudListed(p, ok)
    [] r.op = "importCloud" -> CloudImported(p, The(r.ids), ok)
    [] r.op = "parseCloud" -> CloudParsed(p, The(r.ids), ok)
    [] r.op = "uploadCloud" -> CloudUploaded(p, The(r.ids), ok)
    [] r.op = "listQuestions" -> BankQuestionsLoaded(p, val.bank, ok)
    [] r.op = "confirmImport" -> ImportedForPrep(p, ok)
    [] r.op = "analyze" -> ProjectAnalyzed(p, ok)
    [] r.op = "storeProject" -> ProjectStored(p)
    [] r.op = "createInterview" -> Created(p, IF ok THEN The(val.ids) ELSE 0, ok)
    [] r.op = "startInterview" -> Started(p, The(r.ids), ok)
    [] r.op \in ImportOps -> InImport(p, ImportAnswer(p.import, r, ok))
    [] OTHER -> Nothing(p)

\* The requests one of which ends each wait the page shows.
PrepWaits(p) ==
  When(p.phase # "none", {{"createInterview", "startInterview"}})
  \cup When(p.parsing, {{"parse", "upload", "parseCloud", "uploadCloud"}})
  \cup When(p.library.loading, {{"listResumes"}})
  \cup When(p.cloud.loading, {{"listCloud"}})
  \cup When(p.cloud.importing, {{"importCloud", "parseCloud", "uploadCloud"}})
  \cup When(p.ocr, {{"ocr"}})
  \cup When(p.bankLoading, {{"listQuestions"}})
  \cup When(p.github.loading, {{"analyze", "storeProject"}})
  \cup ImportWaits(p.import)
=============================================================================
