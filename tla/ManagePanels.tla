---------------------------- MODULE ManagePanels ----------------------------
(***************************************************************************)
(* pages/ManagePage.tsx: the panels of the question bank, the resumes and    *)
(* the job descriptions. A panel is mounted when its tab is chosen; it shows  *)
(* its own copy of the list, which the question bank reads again after every  *)
(* change and the other two change in place.                                 *)
(*                                                                         *)
(* A list of questions gives each question its bank, 0 for none; a resume is  *)
(* the number of its file, a job description its id.                         *)
(***************************************************************************)
EXTENDS PrepPage

CONSTANTS Jobs

-----------------------------------------------------------------------------
(* QuestionBankPanel. *)

NoDialog == [at |-> "none", id |-> 0]
BankOpened ==
  [kind |-> "bank", shown |-> [q \in Questions |-> 0], loading |-> TRUE, failed |-> FALSE,
   selected |-> {}, dialog |-> NoDialog, saving |-> FALSE, deleting |-> FALSE,
   renaming |-> 0, import |-> ImportClosed]
BankType ==
  [kind : {"bank"}, shown : [Questions -> 0..Banks], loading : BOOLEAN, failed : BOOLEAN,
   selected : SUBSET Questions,
   dialog : [at : {"none", "edit", "add", "delete", "deleteBank"}, id : Nat],
   saving : BOOLEAN, deleting : BOOLEAN, renaming : 0..Banks, import : ImportType]

\* load; "after" is the flag its caller clears once the list is there.
LoadBank(p, after) ==
  Asks([p EXCEPT !.loading = TRUE, !.failed = FALSE],
       [Req("listQuestions", {}) EXCEPT !.from = after])
BankOver(p, flag) ==
  CASE flag = "saving" -> [p EXCEPT !.saving = FALSE]
    [] flag = "deleting" -> [p EXCEPT !.deleting = FALSE]
    [] OTHER -> p
BankListed(p, after, bank, ok) ==
  Shows(BankOver([p EXCEPT !.loading = FALSE, !.failed = @ \/ ~ok,
                           !.shown = IF ok THEN bank ELSE @], after))

InBank(p, b) == {q \in Questions : p.shown[q] = b}
ToggleSelect(p, q) ==
  Shows([p EXCEPT !.selected = IF q \in @ THEN @ \ {q} ELSE @ \cup {q}])
Opened(p, at, id) == Shows([p EXCEPT !.dialog = [at |-> at, id |-> id]])
Dismiss(p) == Shows([p EXCEPT !.dialog = NoDialog])
\* An answer closes only the kind of dialog it belongs to.
DialogDone(p, ats) == [p EXCEPT !.dialog = IF @.at \in ats THEN NoDialog ELSE @]

\* handleBatchDelete, handleDeleteQuestion and handleDeleteBank.
HandleDelete(p, ids, from) ==
  Asks([p EXCEPT !.deleting = TRUE, !.failed = FALSE],
       [Req("deleteQuestions", ids) EXCEPT !.from = from])
BankDeleted(p, ids, from, ok) ==
  IF ~ok THEN Shows([p EXCEPT !.failed = TRUE, !.deleting = FALSE])
  ELSE LoadBank(CASE from = "batch" -> [p EXCEPT !.selected = {}]
                  [] from = "one" -> [DialogDone(p, {"delete"}) EXCEPT !.selected = @ \ ids]
                  [] OTHER -> [DialogDone(p, {"deleteBank"}) EXCEPT !.selected = {}],
                "deleting")

\* A question is added by patching number -1, which is no question.
HandleSaveEdit(p) ==
  Asks([p EXCEPT !.saving = TRUE, !.failed = FALSE],
       [Req("patch", IF p.dialog.at = "edit" THEN {p.dialog.id} ELSE {}) EXCEPT !.from = "edit"])
Next1(ids) == CHOOSE q \in ids : \A r \in ids : q <= r
\* The questions of a bank are moved one after the other.
HandleRenameBank(p, b) ==
  IF b = p.renaming \/ InBank(p, p.renaming) = {}
  THEN Shows([p EXCEPT !.renaming = 0])
  ELSE Asks([p EXCEPT !.saving = TRUE, !.failed = FALSE],
            [Req("patch", InBank(p, p.renaming)) EXCEPT !.to = b, !.from = "rename"])
\* mutant: the list is read when the first question was moved
BankPatchedEarly(p, r, ok) ==
  LET rest == r.ids \ {Next1(r.ids)} IN
  CASE ~ok -> Shows([p EXCEPT !.failed = TRUE, !.saving = FALSE])
    [] ok /\ r.from = "edit" -> LoadBank(DialogDone(p, {"edit", "add"}), "saving")
    [] ok /\ r.from = "rename" /\ rest # {} ->
         LET load == LoadBank(p, "page") IN
         [load EXCEPT !.send = <<[Req("patch", rest) EXCEPT !.to = r.to, !.from = "rename"]>> \o @]
    [] OTHER -> Shows([p EXCEPT !.renaming = 0, !.saving = FALSE])
BankPatched(p, r, ok) ==
  LET rest == r.ids \ {Next1(r.ids)} IN
  CASE ~ok -> Shows([p EXCEPT !.failed = TRUE, !.saving = FALSE])
    [] ok /\ r.from = "edit" -> LoadBank(DialogDone(p, {"edit", "add"}), "saving")
    [] ok /\ r.from = "rename" /\ rest # {} ->
         Asks(p, [Req("patch", rest) EXCEPT !.to = r.to, !.from = "rename"])
    [] OTHER -> LoadBank([p EXCEPT !.renaming = 0], "saving")

ImportedForBank(p, ok) ==
  LET q == [p EXCEPT !.import = Confirmed(@, ok)] IN IF ok THEN LoadBank(q, "page") ELSE Shows(q)

\* The list and its buttons are gone while it is read.
BankList(p, can) ==
  {Opened(p, at, q) : at \in {"edit", "delete"} \cap can, q \in Existing(p.shown)}
  \cup {Opened(p, at, p.shown[q]) : at \in {"add", "deleteBank"} \cap can, q \in Existing(p.shown)}
  \cup When("rename" \in can,
            {Shows([p EXCEPT !.renaming = p.shown[q]]) : q \in Existing(p.shown)})
  \cup When("batch" \in can, {ToggleSelect(p, q) : q \in Existing(p.shown)})
  \cup When(p.renaming # 0 /\ InBank(p, p.renaming) # {},
            {HandleRenameBank(p, b) : b \in 1..Banks} \cup {Shows([p EXCEPT !.renaming = 0])})
BankTools(p, can) ==
  When("import" \in can, {Shows([p EXCEPT !.import.open = TRUE])})
  \cup When(p.selected # {} /\ ~p.deleting, {HandleDelete(p, p.selected, "batch")})
  \cup When(~p.loading, BankList(p, can))
BankDialogs(p) ==
  {Dismiss(p)}
  \cup When(p.dialog.at \in {"edit", "add"} /\ ~p.saving, {HandleSaveEdit(p)})
  \cup When(p.dialog.at = "delete" /\ ~p.deleting, {HandleDelete(p, {p.dialog.id}, "one")})
  \cup When(p.dialog.at = "deleteBank" /\ ~p.deleting,
            {HandleDelete(p, InBank(p, p.dialog.id), "bank")})
BankPresses(p, can) ==
  IF p.import.open THEN {InImport(p, e) : e \in ImportPresses(p.import, Existing(p.shown), can)}
  ELSE IF p.dialog.at # "none" THEN BankDialogs(p) ELSE BankTools(p, can)

BankAnswer(p, r, ok, val) ==
  CASE r.op = "listQuestions" -> BankListed(p, r.from, val.bank, ok)
    [] r.op = "deleteQuestions" -> BankDeleted(p, r.ids, r.from, ok)
    [] r.op = "patch" -> BankPatched(p, r, ok)
    [] r.op = "confirmImport" -> ImportedForBank(p, ok)
    [] r.op \in ImportOps -> InImport(p, ImportAnswer(p.import, r, ok))
    [] OTHER -> Nothing(p)
BankWaits(p) ==
  When(p.loading, {{"listQuestions"}})
  \cup When(p.saving, {{"patch", "listQuestions"}})
  \cup When(p.deleting, {{"deleteQuestions", "listQuestions"}})
  \cup ImportWaits(p.import)

-----------------------------------------------------------------------------
(* ResumeManagementPanel. *)

ResumesOpened ==
  [kind |-> "resumes", items |-> {}, selected |-> 0, renaming |-> 0, deleting |-> 0,
   uploading |-> FALSE, failed |-> FALSE]
ResumesType ==
  [kind : {"resumes"}, items : SUBSET Files, selected : Files \cup {0},
   renaming : Files \cup {0}, deleting : Files \cup {0}, uploading : BOOLEAN, failed : BOOLEAN]

HandleUpload(p, f) ==
  IF Cardinality(p.items) >= MaxResumes THEN Shows([p EXCEPT !.failed = TRUE])
  ELSE Sends([p EXCEPT !.uploading = TRUE, !.failed = FALSE], "extractResume", {f})
ResumeExtracted(p, f, ok) ==
  IF ok THEN Sends(p, "uploadResume", {f})
  ELSE Shows([p EXCEPT !.failed = TRUE, !.uploading = FALSE])
ResumeUploaded(p, f, ok) ==
  Shows(IF ok THEN [p EXCEPT !.items = @ \cup {f}, !.selected = f, !.uploading = FALSE]
        ELSE [p EXCEPT !.failed = TRUE, !.uploading = FALSE])
ResumeRenamed(p, ok) ==
  Shows(IF ok THEN [p EXCEPT !.renaming = 0] ELSE [p EXCEPT !.failed = TRUE])
\* The dialog closes whatever came of it.
ResumeDeleted(p, f, ok) ==
  Shows(IF ok THEN [p EXCEPT !.items = @ \ {f}, !.deleting = 0,
                             !.selected = IF @ = f THEN 0 ELSE @]
        ELSE [p EXCEPT !.failed = TRUE, !.deleting = 0])

ResumesPresses(p, can) ==
  IF p.deleting # 0
  THEN {Shows([p EXCEPT !.deleting = 0]), Sends(p, "deleteResume", {p.deleting})}
  ELSE When("upload" \in can /\ Cardinality(p.items) < MaxResumes /\ ~p.uploading,
            {HandleUpload(p, f) : f \in Files \ p.items})
       \cup {Shows([p EXCEPT !.selected = f]) : f \in p.items}
       \cup When("delete" \in can, {Shows([p EXCEPT !.deleting = f]) : f \in p.items})
       \cup When("rename" \in can, {Shows([p EXCEPT !.renaming = f]) : f \in p.items})
       \cup When(p.renaming # 0,
                 {Sends(p, "renameResume", {p.renaming}), Shows([p EXCEPT !.renaming = 0])})

ResumesAnswer(p, r, ok, val) ==
  CASE r.op = "listResumes" -> Shows(IF ok THEN [p EXCEPT !.items = val.ids] ELSE p)
    [] r.op = "extractResume" -> ResumeExtracted(p, The(r.ids), ok)
    [] r.op = "uploadResume" -> ResumeUploaded(p, The(r.ids), ok)
    [] r.op = "renameResume" -> ResumeRenamed(p, ok)
    [] r.op = "deleteResume" -> ResumeDeleted(p, The(r.ids), ok)
    [] OTHER -> Nothing(p)
ResumesWaits(p) == When(p.uploading, {{"extractResume", "uploadResume"}})

-----------------------------------------------------------------------------
(* JobInfoManagementPanel. *)

JobsOpened ==
  [kind |-> "jobs", items |-> {}, dialog |-> NoDialog, named |-> FALSE, reading |-> FALSE,
   failed |-> FALSE]
JobsType ==
  [kind : {"jobs"}, items : SUBSET Jobs,
   dialog : [at : {"none", "edit", "upload", "delete"}, id : Nat], named : BOOLEAN,
   reading : BOOLEAN, failed : BOOLEAN]

OpenEdit(p, j) == Shows([p EXCEPT !.dialog = [at |-> "edit", id |-> j], !.named = TRUE])
OpenUpload(p) ==
  Shows([p EXCEPT !.dialog = [at |-> "upload", id |-> 0], !.named = FALSE, !.failed = FALSE])
HandleJobImage(p) == Sends([p EXCEPT !.reading = TRUE, !.failed = FALSE], "ocr", {})
JobImageRead(p, ok) == Shows([p EXCEPT !.reading = FALSE, !.failed = @ \/ ~ok])
\* Nothing keeps a second press from saving a second time.
HandleSave(p) ==
  IF p.dialog.at = "edit" THEN Sends(p, "updateJob", {p.dialog.id})
  ELSE Sends(p, "createJob", {})
JobSaved(p, j, ok) ==
  Shows(IF ok THEN [DialogDone(p, {"edit", "upload"})
                    EXCEPT !.items = @ \cup j, !.failed = FALSE]
        ELSE [p EXCEPT !.failed = TRUE])
JobDeleted(p, j, ok) ==
  Shows([DialogDone(p, {"delete"}) EXCEPT !.items = IF ok THEN @ \ {j} ELSE @, !.failed = ~ok])

JobsPresses(p) ==
  CASE p.dialog.at = "none" ->
         {OpenUpload(p)} \cup {OpenEdit(p, j) : j \in p.items}
         \cup {Opened(p, "delete", j) : j \in p.items}
    [] p.dialog.at = "delete" -> {Dismiss(p), Sends(p, "deleteJob", {p.dialog.id})}
    [] OTHER -> {Dismiss(p)} \cup When(p.named, {HandleSave(p)})
                \cup When(~p.named, {Shows([p EXCEPT !.named = TRUE])})
                \cup When(p.dialog.at = "upload" /\ ~p.reading, {HandleJobImage(p)})

JobsAnswer(p, r, ok, val) ==
  CASE r.op = "listJobs" -> Shows(IF ok THEN [p EXCEPT !.items = val.ids] ELSE p)
    [] r.op = "ocr" -> JobImageRead(p, ok)
    [] r.op = "createJob" -> JobSaved(p, val.ids, ok)
    [] r.op = "updateJob" -> JobSaved(p, {}, ok)
    [] r.op = "deleteJob" -> JobDeleted(p, The(r.ids), ok)
    [] OTHER -> Nothing(p)
JobsWaits(p) == When(p.reading, {{"ocr"}})
=============================================================================
