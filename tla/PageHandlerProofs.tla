-------------------------- MODULE PageHandlerProofs --------------------------
(***************************************************************************)
(* What the handlers of the pages can do, for any page, answer and part of the *)
(* application used: lemmas that the theorems of PagesProofs rest on.          *)
(*                                                                         *)
(* There are some hundred handlers, and the theorems ask the same of nearly   *)
(* all of them: that they are "tame". PressEffects and HandledEffects say       *)
(* which ones are not: those that create, start or enter a session, what they  *)
(* do when that fails, the room's link back, and the answer that shows one.    *)
(*                                                                         *)
(* The second half says, page by page, that a handler keeps the page of its    *)
(* type, and that every wait of the page it leaves is a wait of before that     *)
(* the answer does not end, or one that its request will end (Turned); and      *)
(* what the handlers of the question bank do about the list it shows.          *)
(***************************************************************************)
EXTENDS Pages, TLAPS

\* Most handlers are tame: they keep the fields that say what the page is about and whether
\* it starts an interview, lead to no page of a session nor to the question bank, and send at
\* most one request, which neither creates, starts nor reads a session.
Starts == {"createInterview", "startInterview"}
Key == Starts \cup {"getInterview"}
Core == {"kind", "id", "phase", "status", "starting"}
Same(q, p) == DOMAIN q = DOMAIN p /\ \A f \in Core \cap DOMAIN p : q[f] = p[f]
Calm(e) ==
  /\ e = [page |-> e.page, send |-> e.send, go |-> e.go]
  /\ e.go.at \notin {"room", "detail", "bank"}
  /\ e.send = <<>> \/ \E r : e.send = <<r>> /\ r.op \notin Key
Tame(e, p) == Calm(e) /\ Same(e.page, p)

LEMMA EffectPage ==
  /\ \A q : Shows(q).page = q
  /\ \A q, op, ids : Sends(q, op, ids).page = q
  /\ \A q, r : Asks(q, r).page = q
  /\ \A q, to : Goes(q, to).page = q
  BY DEF Shows, Sends, Asks, Goes
LEMMA CalmForms ==
  /\ \A q : Calm(Shows(q))
  /\ \A q, op, ids : op \notin Key => Calm(Sends(q, op, ids))
  /\ \A q, r : r.op \notin Key => Calm(Asks(q, r))
  /\ \A q, at, id : at \notin {"room", "detail", "bank"} => Calm(Goes(q, Route(at, id)))
  BY DEF Calm, Shows, Sends, Asks, Goes, Stay, Route, Req
LEMMA TameForms ==
  ASSUME NEW p, NEW q, Same(q, p)
  PROVE  /\ Tame(Shows(q), p)
         /\ \A op, ids : op \notin Key => Tame(Sends(q, op, ids), p)
         /\ \A r : r.op \notin Key => Tame(Asks(q, r), p)
         /\ \A at, id : at \notin {"room", "detail", "bank"} => Tame(Goes(q, Route(at, id)), p)
  BY EffectPage, CalmForms DEF Tame
LEMMA SameSelf == \A p : Same(p, p)
  BY DEF Same
LEMMA SameTrans == \A p, q, o : Same(o, q) /\ Same(q, p) => Same(o, p)
  BY DEF Same
\* A request that carries more than what it is about.
LEMMA CalmRequests ==
  ASSUME NEW q, NEW op, op \notin Key, NEW ids
  PROVE  /\ \A x : Calm(Asks(q, [Req(op, ids) EXCEPT !.known = x]))
         /\ \A x : Calm(Asks(q, [Req(op, ids) EXCEPT !.from = x]))
         /\ \A x, y : Calm(Asks(q, [Req(op, ids) EXCEPT !.to = y, !.from = x]))
<1>1. \A x, y : /\ [Req(op, ids) EXCEPT !.known = x].op = op
               /\ [Req(op, ids) EXCEPT !.from = x].op = op
               /\ [Req(op, ids) EXCEPT !.to = y, !.from = x].op = op
  BY DEF Req
<1>2. \A r : r.op = op => Calm(Asks(q, r))
  BY CalmForms
<1> QED BY <1>1, <1>2
LEMMA TameRequests ==
  ASSUME NEW p, NEW q, Same(q, p), NEW op, op \notin Key, NEW ids
  PROVE  /\ \A x : Tame(Asks(q, [Req(op, ids) EXCEPT !.from = x]), p)
         /\ \A x, y : Tame(Asks(q, [Req(op, ids) EXCEPT !.to = y, !.from = x]), p)
  BY CalmRequests, EffectPage DEF Tame

LEMMA LoginTame ==
  ASSUME NEW p, NEW e \in LoginPresses(p) PROVE Tame(e, p)
<1>1. /\ \A m : Same([p EXCEPT !.mode = m, !.failed = FALSE], p)
      /\ Same([p EXCEPT !.failed = TRUE], p)
      /\ Same([p EXCEPT !.loading = TRUE, !.failed = FALSE], p)
  BY DEF Same, Core
<1> QED BY <1>1, SameSelf, TameForms DEF LoginPresses, When, HandleAuthorize, Key, Starts
LEMMA LoginAnswerTame ==
  ASSUME NEW p, NEW r, NEW ok PROVE Tame(LoginAnswer(p, r, ok), p)
<1>1. Same([p EXCEPT !.loading = FALSE, !.failed = TRUE], p)
  BY DEF Same, Core
<1> QED BY <1>1, SameSelf, TameForms
        DEF LoginAnswer, Authorized, Exchanged, LoginFailed, Nothing

LEMMA ListTame ==
  ASSUME NEW p, NEW e \in HubPresses(p) \cup ListPresses(p) PROVE Tame(e, p)
  BY SameSelf, TameForms DEF HubPresses, ListPresses
LEMMA ListedTame ==
  ASSUME NEW p, NEW rows, NEW ok, NEW denied PROVE Tame(Listed(p, rows, ok, denied), p)
<1>1. /\ Same([p EXCEPT !.loading = FALSE, !.rows = rows], p)
      /\ \A x, y : Same([p EXCEPT !.loading = FALSE, !.failed = x, !.demo = y], p)
  BY DEF Same, Core
<1> QED BY <1>1, TameForms DEF Listed

LEMMA ReportTame ==
  ASSUME NEW p, NEW e \in ReportPresses(p) \cup {Poll(p)} PROVE Tame(e, p)
<1>1. /\ Same([p EXCEPT !.retrying = TRUE, !.failed = FALSE], p)
      /\ \A n : Same([p EXCEPT !.polls = n], p)
  BY DEF Same, Core
<1> QED BY <1>1, SameSelf, TameForms DEF ReportPresses, When, HandleRetry, Poll, Key, Starts

LEMMA ReportAnswerTame ==
  ASSUME NEW p, NEW r, NEW ok, NEW denied, NEW val
  PROVE  Tame(ReportAnswer(p, r, ok, denied, val), p)
<1>1. ASSUME NEW available PROVE Tame(ReportLoaded(p, available, ok, denied), p)
  <2> DEFINE done == [p EXCEPT !.loading = FALSE]
             none == [done EXCEPT !.shown = FALSE, !.available = "no"]
  <2>1. /\ Same(HasReport(done), p)
        /\ Same(StartPolling(none), p)
        /\ Same([done EXCEPT !.demo = TRUE, !.available = "yes"], p)
        /\ Same([done EXCEPT !.failed = TRUE], p)
    BY DEF Same, Core, HasReport, StartPolling
  <2> HIDE DEF none
  <2>2. QED BY <2>1, TameForms DEF ReportLoaded, none
<1>2. ASSUME NEW available PROVE Tame(Polled(p, available, ok), p)
  <2>1. /\ Same(StopPolling(HasReport(p)), p)
        /\ Same(StopPolling([p EXCEPT !.gaveUp = TRUE]), p)
        /\ Same(StopPolling([p EXCEPT !.failed = TRUE]), p)
    BY DEF Same, Core, StopPolling, HasReport
  <2>2. QED BY <2>1, SameSelf, TameForms DEF Polled
<1>3. ASSUME NEW available PROVE Tame(Retried(p, available, ok), p)
  <2> DEFINE done == [p EXCEPT !.retrying = FALSE]
             none == [done EXCEPT !.shown = FALSE, !.available = "no", !.failed = FALSE]
  <2>1. /\ Same(StopPolling(HasReport(done)), p)
        /\ Same(StartPolling(none), p)
        /\ Same([done EXCEPT !.failed = TRUE], p)
    BY DEF Same, Core, StopPolling, HasReport, StartPolling
  <2> HIDE DEF none
  <2>2. QED BY <2>1, TameForms DEF Retried, none
<1>4. Tame(Nothing(p), p)
  BY SameSelf, TameForms DEF Nothing
<1> QED BY <1>1, <1>2, <1>3, <1>4 DEF ReportAnswer

-----------------------------------------------------------------------------
(* The handlers of the management panels and of the import dialog. *)

LEMMA ResumesTame ==
  ASSUME NEW p, NEW c, NEW e \in ResumesPresses(p, c) PROVE Tame(e, p)
<1>1. /\ \A x : /\ Same([p EXCEPT !.deleting = x], p)
                /\ Same([p EXCEPT !.selected = x], p)
                /\ Same([p EXCEPT !.renaming = x], p)
      /\ Same([p EXCEPT !.failed = TRUE], p)
      /\ Same([p EXCEPT !.uploading = TRUE, !.failed = FALSE], p)
  BY DEF Same, Core
<1>2. \A f : Tame(HandleUpload(p, f), p)
  BY <1>1, TameForms DEF HandleUpload, Key, Starts
<1> QED BY <1>1, <1>2, SameSelf, TameForms DEF ResumesPresses, When, Key, Starts
LEMMA ResumesAnswerTame ==
  ASSUME NEW p, NEW r, NEW ok, NEW val PROVE Tame(ResumesAnswer(p, r, ok, val), p)
<1>1. /\ \A x : /\ Same([p EXCEPT !.items = x], p) /\ Same([p EXCEPT !.renaming = x], p)
                /\ Same([p EXCEPT !.failed = x], p)
      /\ \A x, y : /\ Same([p EXCEPT !.failed = x, !.uploading = y], p)
                   /\ Same([p EXCEPT !.failed = x, !.deleting = y], p)
      /\ \A f : /\ Same([p EXCEPT !.items = @ \cup {f}, !.selected = f, !.uploading = FALSE], p)
                /\ Same([p EXCEPT !.items = @ \ {f}, !.deleting = 0,
                                  !.selected = IF @ = f THEN 0 ELSE @], p)
  BY DEF Same, Core
<1>2. \A f : /\ Tame(ResumeExtracted(p, f, ok), p) /\ Tame(ResumeUploaded(p, f, ok), p)
             /\ Tame(ResumeDeleted(p, f, ok), p)
  BY <1>1, SameSelf, TameForms DEF ResumeExtracted, ResumeUploaded, ResumeDeleted, Key, Starts
<1>3. Tame(ResumeRenamed(p, ok), p) /\ Tame(Nothing(p), p)
  BY <1>1, SameSelf, TameForms DEF ResumeRenamed, Nothing
<1>4. Tame(Shows(IF ok THEN [p EXCEPT !.items = val.ids] ELSE p), p)
  BY <1>1, SameSelf, TameForms
<1> QED BY <1>2, <1>3, <1>4 DEF ResumesAnswer

LEMMA JobsTame ==
  ASSUME NEW p, NEW e \in JobsPresses(p) PROVE Tame(e, p)
<1>1. /\ \A x : Same([p EXCEPT !.dialog = x], p) /\ Same([p EXCEPT !.named = x], p)
      /\ \A x, y : Same([p EXCEPT !.dialog = x, !.named = y], p)
      /\ \A x, y, z : Same([p EXCEPT !.dialog = x, !.named = y, !.failed = z], p)
      /\ Same([p EXCEPT !.reading = TRUE, !.failed = FALSE], p)
  BY DEF Same, Core
<1>2. /\ \A j : Tame(OpenEdit(p, j), p) /\ \A at : Tame(Opened(p, at, j), p)
      /\ Tame(OpenUpload(p), p) /\ Tame(Dismiss(p), p)
      /\ Tame(HandleJobImage(p), p) /\ Tame(HandleSave(p), p)
  BY <1>1, SameSelf, TameForms
  DEF OpenEdit, Opened, OpenUpload, Dismiss, HandleJobImage, HandleSave, Key, Starts
<1> QED BY <1>1, <1>2, SameSelf, TameForms DEF JobsPresses, When, Key, Starts
LEMMA JobsAnswerTame ==
  ASSUME NEW p, NEW r, NEW ok, NEW val PROVE Tame(JobsAnswer(p, r, ok, val), p)
<1>1. /\ Same([p EXCEPT !.items = val.ids], p) /\ Same([p EXCEPT !.failed = TRUE], p)
      /\ Same([p EXCEPT !.reading = FALSE, !.failed = @ \/ ~ok], p)
      /\ \A ats, j : /\ Same([DialogDone(p, ats) EXCEPT !.items = @ \cup j, !.failed = FALSE], p)
                     /\ Same([DialogDone(p, ats) EXCEPT !.items = IF ok THEN @ \ {j} ELSE @,
                                                        !.failed = ~ok], p)
  BY ZenonT(60) DEF Same, Core, DialogDone
<1>2. \A j : Tame(JobSaved(p, j, ok), p) /\ Tame(JobDeleted(p, j, ok), p)
  BY <1>1, TameForms DEF JobSaved, JobDeleted
<1>3. Tame(JobImageRead(p, ok), p) /\ Tame(Nothing(p), p)
  BY <1>1, SameSelf, TameForms DEF JobImageRead, Nothing
<1>4. Tame(Shows(IF ok THEN [p EXCEPT !.items = val.ids] ELSE p), p)
  BY <1>1, SameSelf, TameForms
<1> QED BY <1>2, <1>3, <1>4 DEF JobsAnswer

LEMMA ImportCalm ==
  ASSUME NEW d, NEW x, NEW c, NEW e \in ImportPresses(d, x, c) PROVE Calm(e)
<1>1. ASSUME NEW q, NEW op, op \notin Key, NEW s, NEW k PROVE Calm(AsksFor(q, op, s, k))
  BY <1>1, CalmRequests DEF AsksFor
<1>2. \A s, image : /\ Calm(HandlePreview(d, s, x)) /\ Calm(HandleFile(d, s, image, x))
                    /\ Calm(PickWpsFile(d, s, x))
  BY <1>1 DEF HandlePreview, HandleFile, PickWpsFile, Key, Starts
<1>3. /\ Calm(OpenWpsPicker(d)) /\ Calm(SearchWps(d)) /\ Calm(HandleConfirm(d))
      /\ \A q : Calm(ToggleSkip(d, q)) /\ Calm(RemovePreviewItem(d, q))
  BY CalmForms
  DEF OpenWpsPicker, SearchWps, HandleConfirm, ToggleSkip, RemovePreviewItem, Key, Starts
<1>4. CASE e \in PreviewDialog(d)
  BY <1>3, <1>4, CalmForms DEF PreviewDialog, When
<1>5. CASE e \in WpsDialog(d, x)
  BY <1>2, <1>3, <1>5, CalmForms DEF WpsDialog, When
<1>6. CASE e \in ImportForm(d, x, c)
  BY <1>2, <1>3, <1>6, CalmForms DEF ImportForm, When
<1> QED BY <1>4, <1>5, <1>6 DEF ImportPresses
LEMMA ImportAnswerCalm ==
  ASSUME NEW d, NEW r, NEW ok PROVE Calm(ImportAnswer(d, r, ok))
<1>1. ASSUME NEW q, NEW op, op \notin Key, NEW s, NEW k PROVE Calm(AsksFor(q, op, s, k))
  BY <1>1, CalmRequests DEF AsksFor
<1>2. \A s, x : /\ Calm(Extracted(d, s, x, ok)) /\ Calm(TextParsed(d, s, x))
                /\ Calm(ImageParsed(d, s, x, ok)) /\ Calm(WpsPicked(d, s, x, ok))
  BY <1>1, CalmForms DEF Extracted, TextParsed, ImageParsed, WpsPicked, Key, Starts
<1>3. Calm(WpsListed(d, ok))
  BY CalmForms DEF WpsListed
<1> QED BY <1>2, <1>3 DEF ImportAnswer

\* What the import dialog does, its host does.
LEMMA InImportTame ==
  ASSUME NEW p, NEW e, Calm(e) PROVE Tame(InImport(p, e), p)
<1> DEFINE q == [p EXCEPT !.import = e.page]
<1>1. Same(q, p)
  BY DEF Same, Core
<1> HIDE DEF q
<1>2. InImport(p, e) = [e EXCEPT !.page = q]
  BY DEF InImport, Then, q
<1>3. Calm([e EXCEPT !.page = q]) /\ [e EXCEPT !.page = q].page = q
  BY DEF Calm
<1> QED BY <1>1, <1>2, <1>3 DEF Tame

LEMMA BankTame ==
  ASSUME NEW p, NEW c, NEW e \in BankPresses(p, c) PROVE Tame(e, p)
<1>1. /\ \A x : /\ Same([p EXCEPT !.dialog = x], p)
                /\ Same([p EXCEPT !.renaming = x], p)
                /\ Same([p EXCEPT !.selected = IF x \in @ THEN @ \ {x} ELSE @ \cup {x}], p)
      /\ Same([p EXCEPT !.saving = TRUE, !.failed = FALSE], p)
      /\ Same([p EXCEPT !.deleting = TRUE, !.failed = FALSE], p)
      /\ Same([p EXCEPT !.import.open = TRUE], p)
  BY DEF Same, Core
<1>2. ASSUME NEW b PROVE Tame(HandleRenameBank(p, b), p)
  BY <1>1, TameForms, TameRequests DEF HandleRenameBank, Key, Starts
<1>3. ASSUME NEW ids, NEW from PROVE Tame(HandleDelete(p, ids, from), p)
  BY <1>1, TameForms, TameRequests DEF HandleDelete, Key, Starts
<1>4. Tame(HandleSaveEdit(p), p)
  BY <1>1, TameForms, TameRequests DEF HandleSaveEdit, Key, Starts
<1>5. /\ Tame(Dismiss(p), p) /\ Tame(Shows([p EXCEPT !.import.open = TRUE]), p)
      /\ \A at, x : Tame(Opened(p, at, x), p)
      /\ \A x : Tame(ToggleSelect(p, x), p) /\ Tame(Shows([p EXCEPT !.renaming = x]), p)
  BY <1>1, TameForms DEF Dismiss, Opened, ToggleSelect
<1>6. ASSUME e \in BankList(p, c) PROVE Tame(e, p)
  <2> DEFINE S == Existing(p.shown)
  <2> HIDE DEF S
  <2>1. \/ e \in {Opened(p, at, q) : at \in {"edit", "delete"} \cap c, q \in S}
        \/ e \in {Opened(p, at, p.shown[q]) : at \in {"add", "deleteBank"} \cap c, q \in S}
        \/ e \in {Shows([p EXCEPT !.renaming = p.shown[q]]) : q \in S}
        \/ e \in {ToggleSelect(p, q) : q \in S}
        \/ e \in {HandleRenameBank(p, b) : b \in 1..Banks}
        \/ e = Shows([p EXCEPT !.renaming = 0])
    BY <1>6 DEF BankList, When, S
  <2>2. ASSUME e \in {Opened(p, at, q) : at \in {"edit", "delete"} \cap c, q \in S}
        PROVE  Tame(e, p)
    BY <2>2, <1>5
  <2>3. ASSUME e \in {Opened(p, at, p.shown[q]) : at \in {"add", "deleteBank"} \cap c, q \in S}
        PROVE  Tame(e, p)
    BY <2>3, <1>5
  <2>4. ASSUME e \in {Shows([p EXCEPT !.renaming = p.shown[q]]) : q \in S} PROVE Tame(e, p)
    BY <2>4, <1>5
  <2>5. ASSUME e \in {ToggleSelect(p, q) : q \in S} PROVE Tame(e, p)
    BY <2>5, <1>5
  <2>6. ASSUME e \in {HandleRenameBank(p, b) : b \in 1..Banks} PROVE Tame(e, p)
    BY <2>6, <1>2
  <2> QED BY <2>1, <2>2, <2>3, <2>4, <2>5, <2>6, <1>5
<1>7. ASSUME e \in BankTools(p, c) PROVE Tame(e, p)
  BY <1>3, <1>5, <1>6, <1>7 DEF BankTools, When
<1>8. ASSUME e \in BankDialogs(p) PROVE Tame(e, p)
  BY <1>3, <1>4, <1>5, <1>8 DEF BankDialogs, When
<1> QED BY <1>7, <1>8, ImportCalm, InImportTame DEF BankPresses

LEMMA BankAnswerTame ==
  ASSUME NEW p, NEW r, NEW ok, NEW val PROVE Tame(BankAnswer(p, r, ok, val), p)
<1>1. ASSUME NEW q, Same(q, p), NEW after PROVE Tame(LoadBank(q, after), p)
  <2>1. Same([q EXCEPT !.loading = TRUE, !.failed = FALSE], p)
    BY <1>1 DEF Same, Core
  <2> QED BY <2>1, TameForms, TameRequests DEF LoadBank, Key, Starts
<1>2. /\ \A ats, x : /\ Same([DialogDone(p, ats) EXCEPT !.selected = @ \ x], p)
                     /\ Same([DialogDone(p, ats) EXCEPT !.selected = x], p)
                     /\ Same(DialogDone(p, ats), p)
      /\ \A x : Same([p EXCEPT !.selected = x], p) /\ Same([p EXCEPT !.renaming = x], p)
                /\ Same([p EXCEPT !.import = x], p)
      /\ Same([p EXCEPT !.failed = TRUE, !.deleting = FALSE], p)
      /\ Same([p EXCEPT !.failed = TRUE, !.saving = FALSE], p)
  BY DEF Same, Core, DialogDone
<1>3. Tame(BankDeleted(p, r.ids, r.from, ok), p)
  BY <1>1, <1>2, TameForms DEF BankDeleted
<1>4. Tame(BankPatched(p, r, ok), p)
  BY <1>1, <1>2, SameSelf, TameForms, TameRequests DEF BankPatched, Key, Starts
<1>5. Tame(ImportedForBank(p, ok), p)
  BY <1>1, <1>2, TameForms DEF ImportedForBank
<1>6. Tame(BankListed(p, r.from, val.bank, ok), p)
  <2> DEFINE q == [p EXCEPT !.loading = FALSE, !.failed = @ \/ ~ok,
                            !.shown = IF ok THEN val.bank ELSE @]
  <2>1. Same(BankOver(q, r.from), p)
    BY DEF Same, Core, BankOver
  <2> QED BY <2>1, TameForms DEF BankListed
<1>7. Tame(InImport(p, ImportAnswer(p.import, r, ok)), p) /\ Tame(Nothing(p), p)
  BY ImportAnswerCalm, InImportTame, SameSelf, TameForms DEF Nothing
<1> QED BY <1>3, <1>4, <1>5, <1>6, <1>7 DEF BankAnswer

-----------------------------------------------------------------------------
(* The handlers of the preparation page and of the page of a session. *)

\* The dialogs of the preparation page and what they send; none but the start button
\* creates a session.
LEMMA FlagSame ==
  ASSUME NEW p
  PROVE  /\ \A x : /\ Same([p EXCEPT !.modal = x], p) /\ Same([p EXCEPT !.chooser = x], p)
                   /\ Same([p EXCEPT !.upload = x], p) /\ Same([p EXCEPT !.ocr = x], p)
                   /\ Same([p EXCEPT !.text = x], p) /\ Same([p EXCEPT !.saved = x], p)
                   /\ Same([p EXCEPT !.library = x], p) /\ Same([p EXCEPT !.failed = x], p)
                   /\ Same([p EXCEPT !.import = x], p) /\ Same([p EXCEPT !.parsing = x], p)
         /\ \A x, y : /\ Same([p EXCEPT !.url = x, !.parsing = y], p)
                      /\ Same([p EXCEPT !.bankLoading = x, !.bank = y], p)
  BY DEF Same, Core
LEMMA NestedSame ==
  ASSUME NEW p
  PROVE  /\ \A x : /\ Same([p EXCEPT !.github.choice = x], p)
                   /\ Same([p EXCEPT !.github.loading = x], p)
                   /\ Same([p EXCEPT !.github.found = x], p)
                   /\ Same([p EXCEPT !.cloud.loading = x], p)
                   /\ Same([p EXCEPT !.cloud.importing = x], p)
                   /\ Same([p EXCEPT !.cloud.listed = x], p)
                   /\ Same([p EXCEPT !.cloud.timer = x], p)
         /\ \A x, y : /\ Same([p EXCEPT !.cloud.loading = x, !.cloud.listed = y], p)
                      /\ Same([p EXCEPT !.cloud.typed = x, !.cloud.timer = y], p)
                      /\ Same([p EXCEPT !.cloud.importing = x, !.parsing = y], p)
  BY DEF Same, Core
LEMMA ModalSame ==
  ASSUME NEW p
  PROVE  \A x, y : /\ Same([p EXCEPT !.jd = x, !.modal = y], p)
                   /\ Same([p EXCEPT !.modal = x, !.chooser = y], p)
                   /\ Same([p EXCEPT !.modal = x, !.library = y], p)
                   /\ Same([p EXCEPT !.selected = x, !.modal = y], p)
                   /\ Same([p EXCEPT !.modal = x, !.import.open = y], p)
                   /\ Same([p EXCEPT !.url = x, !.modal = y], p)
<1>1. \A x, y : /\ Same([p EXCEPT !.jd = x, !.modal = y], p)
                /\ Same([p EXCEPT !.modal = x, !.chooser = y], p)
                /\ Same([p EXCEPT !.modal = x, !.library = y], p)
  BY DEF Same, Core
<1>2. \A x, y : /\ Same([p EXCEPT !.selected = x, !.modal = y], p)
                /\ Same([p EXCEPT !.modal = x, !.import.open = y], p)
                /\ Same([p EXCEPT !.url = x, !.modal = y], p)
  BY DEF Same, Core
<1> QED BY <1>1, <1>2
LEMMA ReadSame ==
  ASSUME NEW p, NEW x, NEW y, NEW z
  PROVE  /\ Same([p EXCEPT !.text = x, !.url = y, !.modal = z], p)
         /\ Same([p EXCEPT !.text = x, !.url = y, !.parsing = z], p)
         /\ Same([p EXCEPT !.chooser = x, !.parsing = y, !.url = z], p)
         /\ Same([p EXCEPT !.jd = x, !.ocr = y, !.modal = z], p)
         /\ Same([p EXCEPT !.jd = x, !.saved = y, !.modal = z], p)
<1>1. Same([p EXCEPT !.text = x, !.url = y, !.modal = z], p)
  BY DEF Same, Core
<1>2. Same([p EXCEPT !.text = x, !.url = y, !.parsing = z], p)
  BY DEF Same, Core
<1>3. Same([p EXCEPT !.chooser = x, !.parsing = y, !.url = z], p)
  BY DEF Same, Core
<1>4. Same([p EXCEPT !.jd = x, !.ocr = y, !.modal = z], p)
  BY DEF Same, Core
<1>5. Same([p EXCEPT !.jd = x, !.saved = y, !.modal = z], p)
  BY DEF Same, Core
<1> QED BY <1>1, <1>2, <1>3, <1>4, <1>5
LEMMA OpenSame ==
  ASSUME NEW p, NEW x, NEW y, NEW z, NEW v
  PROVE  /\ Same([p EXCEPT !.job = x, !.failed = y, !.modal = z, !.upload = v], p)
         /\ Same([p EXCEPT !.modal = x, !.cloud.loading = y, !.cloud.typed = z,
                           !.cloud.listed = v], p)
<1>1. Same([p EXCEPT !.job = x, !.failed = y, !.modal = z, !.upload = v], p)
  BY DEF Same, Core
<1>2. Same([p EXCEPT !.modal = x, !.cloud.loading = y, !.cloud.typed = z,
                     !.cloud.listed = v], p)
  BY DEF Same, Core
<1> QED BY <1>1, <1>2

LEMMA BankQuestionsTame ==
  ASSUME NEW p, NEW q, Same(q, p) PROVE Tame(LoadBankQuestions(q), p)
<1>1. Same([q EXCEPT !.bankLoading = TRUE, !.bank = [x \in Questions |-> 0]], q)
  BY FlagSame
<1> QED BY <1>1, SameTrans, TameForms DEF LoadBankQuestions, Key, Starts

Starting(p) ==
  Sends([p EXCEPT !.failed = FALSE, !.phase = "creating"], "createInterview", p.selected)

LEMMA PrepButtonsTame ==
  ASSUME NEW p, NEW c, NEW e \in PrepButtons(p, c)
  PROVE  Tame(e, p) \/ (p.phase = "none" /\ e = Starting(p))
<1>1. /\ Tame(Goes(p, Route("hub", 0)), p) /\ Tame(Opens(p, "job"), p)
      /\ \A x : /\ Tame(Shows([p EXCEPT !.github.choice = x]), p)
                /\ Tame(Shows([p EXCEPT !.upload = x]), p)
  BY FlagSame, NestedSame, SameSelf, TameForms DEF Opens
<1>2. Tame(HandlePrepReset(p), p)
  <2> DEFINE q == [p EXCEPT !.job = FALSE, !.jd = FALSE, !.text = 0, !.url = 0, !.selected = {},
                            !.upload = "none", !.github = NoGithub, !.failed = FALSE,
                            !.modal = "none"]
  <2>1. Same(q, p)
    BY DEF Same, Core
  <2> HIDE DEF q
  <2> QED BY <2>1, TameForms DEF HandlePrepReset, q
<1>3. Tame(AnalyzeProject(p), p)
  BY NestedSame, TameForms DEF AnalyzeProject, Key, Starts
<1>4. \/ p.phase = "none" /\ StartInterviewFlow(p) = Starting(p)
      \/ Tame(StartInterviewFlow(p), p)
      \/ ~MayStart(p)
  BY FlagSame, TameForms DEF StartInterviewFlow, MayStart, Starting
<1>5. \/ e \in {Goes(p, Route("hub", 0)), Opens(p, "job"), HandlePrepReset(p), AnalyzeProject(p)}
      \/ MayStart(p) /\ e = StartInterviewFlow(p)
      \/ e \in {Shows([p EXCEPT !.github.choice = x]) : x \in {"yes", "no"}}
      \/ e \in {Shows([p EXCEPT !.upload = x]) : x \in {"yes", "no"}}
  BY DEF PrepButtons, When
<1>6. ASSUME e \in {Shows([p EXCEPT !.github.choice = x]) : x \in {"yes", "no"}} PROVE Tame(e, p)
  BY <1>1, <1>6
<1>7. ASSUME e \in {Shows([p EXCEPT !.upload = x]) : x \in {"yes", "no"}} PROVE Tame(e, p)
  BY <1>1, <1>7
<1> QED BY <1>1, <1>2, <1>3, <1>4, <1>5, <1>6, <1>7

LEMMA MaterialTame ==
  ASSUME NEW p, NEW c, NEW e \in MaterialButtons(p, c) PROVE Tame(e, p)
<1>1. /\ Tame(OpenResumePick(p), p) /\ Tame(OpenJobInfo(p), p)
  BY FlagSame, ModalSame, TameForms DEF OpenResumePick, OpenJobInfo, Key, Starts
<1>2. Tame(OpenBankPicker(p), p)
  BY FlagSame, BankQuestionsTame DEF OpenBankPicker
<1> QED BY <1>1, <1>2 DEF MaterialButtons, When

LEMMA ResumeDialogsTame ==
  ASSUME NEW p, NEW c, NEW e \in ResumeDialogs(p, c) PROVE Tame(e, p)
<1>1. /\ Tame(Closes(p), p) /\ \A m : Tame(Opens(p, m), p)
      /\ Tame(Shows([p EXCEPT !.modal = "none", !.chooser = TRUE]), p)
  BY FlagSame, ModalSame, TameForms DEF Closes, Opens
<1>2. \A f : Tame(PickResume(p, f), p)
  BY ReadSame, TameForms DEF PickResume
<1>3. Tame(OpenWpsCloud(p), p)
  BY ReadSame, OpenSame, TameForms DEF OpenWpsCloud, Key, Starts
<1> QED BY <1>1, <1>2, <1>3 DEF ResumeDialogs, When

LEMMA CloudTame ==
  ASSUME NEW p, NEW e \in CloudDialog(p) PROVE Tame(e, p)
<1>1. Same(TimerStopped(p), p)
  BY NestedSame DEF TimerStopped
<1>2. Tame(CloseCloud(p), p)
  BY <1>1, FlagSame, SameTrans, TameForms DEF CloseCloud, Closes
<1>3. ASSUME NEW q, Same(q, p) PROVE Tame(SearchCloudFiles(q), p)
  BY <1>3, NestedSame, SameTrans, TameForms DEF SearchCloudFiles, Key, Starts
<1>4. \A k : Tame(TypeKeyword(p, k), p) /\ Tame(PickCloudFile(p, k), p)
  BY NestedSame, TameForms DEF TypeKeyword, PickCloudFile, Key, Starts
<1> QED BY <1>1, <1>2, <1>3, <1>4, SameSelf DEF CloudDialog, When

LEMMA OtherDialogsTame ==
  ASSUME NEW p, NEW c, NEW e \in JobDialog(p) \cup JobInfoDialog(p) \cup BankDialog(p, c)
  PROVE  Tame(e, p)
<1>1. Tame(Closes(p), p) /\ Tame(ChooseJob(p), p)
  BY FlagSame, OpenSame, TameForms DEF Closes, ChooseJob
<1>2. /\ Tame(HandleManualJobInfoSave(p), p) /\ Tame(PickJobInfo(p), p)
      /\ Tame(HandleJobInfoImage(p), p)
  BY FlagSame, ModalSame, SameSelf, TameForms
  DEF HandleManualJobInfoSave, PickJobInfo, HandleJobInfoImage, Key, Starts
<1>3. \A b : Tame(PickBank(p, b), p)
  BY ModalSame, TameForms DEF PickBank
<1>4. Tame(Shows([p EXCEPT !.modal = "none", !.import.open = TRUE]), p)
  BY ModalSame, TameForms
<1> QED BY <1>1, <1>2, <1>3, <1>4 DEF JobDialog, JobInfoDialog, BankDialog, When

LEMMA PrepTame ==
  ASSUME NEW p, NEW c, NEW e \in PrepPresses(p, c)
  PROVE  Tame(e, p) \/ (p.phase = "none" /\ e = Starting(p))
<1>1. ASSUME e \in PrepImport(p, c) PROVE Tame(e, p)
  <2>1. PICK o \in ImportPresses(p.import, Existing(p.bank), c) :
          e = LET h == InImport(p, o) IN
              IF o.page.open THEN h ELSE Then(h, [h.page EXCEPT !.modal = "bank"])
    BY <1>1 DEF PrepImport
  <2> DEFINE h == InImport(p, o)
  <2>2. Tame(h, p)
    BY ImportCalm, InImportTame
  <2> HIDE DEF h
  <2>3. Same([h.page EXCEPT !.modal = "bank"], p)
    BY <2>2, FlagSame, SameTrans DEF Tame
  <2>4. ASSUME NEW q, Same(q, p) PROVE Tame(Then(h, q), p)
    BY <2>2, <2>4 DEF Tame, Calm, Then
  <2> QED BY <2>1, <2>2, <2>3, <2>4 DEF h
<1>2. Tame(SearchCloudFiles(TimerStopped(p)), p)
  <2>1. /\ Same(TimerStopped(p), p)
        /\ Same([TimerStopped(p) EXCEPT !.cloud.loading = TRUE], TimerStopped(p))
    BY NestedSame DEF TimerStopped
  <2> QED BY <2>1, SameTrans, TameForms DEF SearchCloudFiles, Key, Starts
<1>3. /\ \A f : Tame(HandleResumeFile(p, f), p)
      /\ Tame(Shows([p EXCEPT !.chooser = FALSE]), p)
  BY FlagSame, ReadSame, TameForms DEF HandleResumeFile, Key, Starts
<1> QED BY <1>1, <1>2, <1>3, PrepButtonsTame, MaterialTame, ResumeDialogsTame, CloudTame,
           OtherDialogsTame DEF PrepPresses, When

LEMMA PrepAnswerTame ==
  ASSUME NEW p, NEW r, NEW ok, NEW val, r.op \notin Key
  PROVE  Tame(PrepAnswer(p, r, ok, val), p)
<1>1. ASSUME NEW jobs PROVE Tame(JobInfoListed(p, jobs, ok), p)
  BY FlagSame, SameSelf, TameForms DEF JobInfoListed
<1>2. Tame(JobInfoSaved(p, ok), p) /\ Tame(JobInfoRead(p, ok), p)
  BY FlagSame, ReadSame, SameSelf, TameForms DEF JobInfoSaved, JobInfoRead
<1>3. ASSUME NEW f PROVE Tame(Parsed(p, f, ok), p)
  BY FlagSame, ReadSame, TameForms DEF Parsed, Key, Starts
<1>4. ASSUME NEW f PROVE Tame(Uploaded(p, f, ok), p)
  <2>1. Same([p EXCEPT !.url = IF ok THEN f ELSE @, !.parsing = FALSE], p)
    BY DEF Same, Core
  <2> QED BY <2>1, TameForms DEF Uploaded
<1>5. ASSUME NEW files PROVE Tame(ResumesListed(p, files, ok), p)
  <2>1. Same([p EXCEPT !.library = [loading |-> FALSE, items |-> IF ok THEN files ELSE @.items]], p)
    BY DEF Same, Core
  <2> QED BY <2>1, TameForms DEF ResumesListed
<1>6. Tame(CloudListed(p, ok), p)
  BY NestedSame, TameForms DEF CloudListed
<1>7. Same(ImportOver(p), p)
  BY NestedSame DEF ImportOver
<1>8. Tame(CloudFailed(p), p)
  BY <1>7, NestedSame, SameTrans, TameForms DEF CloudFailed
<1>9. ASSUME NEW f PROVE Tame(CloudImported(p, f, ok), p) /\ Tame(CloudParsed(p, f, ok), p)
  BY <1>8, FlagSame, TameForms DEF CloudImported, CloudParsed, Key, Starts
<1>10. ASSUME NEW f PROVE Tame(CloudUploaded(p, f, ok), p)
  <2> DEFINE q == ImportOver(p)
  <2>1. Same([q EXCEPT !.url = IF ok THEN f ELSE @, !.modal = "none"], q)
    BY DEF Same, Core
  <2> QED BY <1>7, <2>1, SameTrans, TameForms DEF CloudUploaded
<1>11. Tame(BankQuestionsLoaded(p, val.bank, ok), p)
  <2>1. Same([p EXCEPT !.bankLoading = FALSE, !.bank = IF ok THEN val.bank ELSE @], p)
    BY DEF Same, Core
  <2> QED BY <2>1, TameForms DEF BankQuestionsLoaded
<1>12. Tame(ImportedForPrep(p, ok), p)
  <2> DEFINE q == [p EXCEPT !.import = Confirmed(@, ok)]
  <2>1. Same(q, p)
    BY DEF Same, Core
  <2>2. Same([q EXCEPT !.modal = "bank"], q)
    BY FlagSame
  <2> HIDE DEF q
  <2> QED BY <2>1, <2>2, SameTrans, BankQuestionsTame, TameForms DEF ImportedForPrep, q
<1>13. Tame(ProjectAnalyzed(p, ok), p) /\ Tame(ProjectStored(p), p)
  BY NestedSame, TameForms DEF ProjectAnalyzed, ProjectStored, Key, Starts
<1>14. Tame(InImport(p, ImportAnswer(p.import, r, ok)), p) /\ Tame(Nothing(p), p)
  BY ImportAnswerCalm, InImportTame, SameSelf, TameForms DEF Nothing
<1> HIDE DEF Tame
<1> QED BY <1>1, <1>2, <1>3, <1>4, <1>5, <1>6, <1>9, <1>10, <1>11, <1>12, <1>13, <1>14
        DEF PrepAnswer, Key, Starts

Outset(p) == Goes(p, Route("room", p.id))
Asking(p) == Sends([p EXCEPT !.starting = TRUE], "startInterview", {p.id})
Preparing(p, id) == Sends([p EXCEPT !.phase = "generating"], "startInterview", {id})
Entering(p, id) == Goes([p EXCEPT !.phase = "none"], Route("room", id))
GivenUp(p) == Shows([p EXCEPT !.failed = TRUE, !.phase = "none"])
Unstarted(p) == Shows([p EXCEPT !.starting = FALSE])

\* The answers that start an interview.
LEMMA PrepStarts ==
  ASSUME NEW p, NEW r, NEW ok \in BOOLEAN, NEW val
  PROVE  /\ r.op = "createInterview" =>
              PrepAnswer(p, r, ok, val) = IF ok THEN Preparing(p, The(val.ids)) ELSE GivenUp(p)
         /\ r.op = "startInterview" =>
              PrepAnswer(p, r, ok, val) = IF ok THEN Entering(p, The(r.ids)) ELSE GivenUp(p)
<1>1. ASSUME r.op = "createInterview"
      PROVE  PrepAnswer(p, r, ok, val) = Created(p, IF ok THEN The(val.ids) ELSE 0, ok)
  BY <1>1 DEF PrepAnswer, ImportOps
<1>2. ASSUME r.op = "startInterview"
      PROVE  PrepAnswer(p, r, ok, val) = Started(p, The(r.ids), ok)
  BY <1>2 DEF PrepAnswer, ImportOps
<1> QED BY <1>1, <1>2 DEF Created, Started, StartFailed, Preparing, Entering, GivenUp

LEMMA DetailTame ==
  ASSUME NEW p, NEW e \in DetailPresses(p)
  PROVE  \/ Tame(e, p)
         \/ p.status \in {"ready", "in_progress"} /\ e = Goes(p, Route("room", p.id))
         \/ ~p.starting /\ e = Sends([p EXCEPT !.starting = TRUE], "startInterview", {p.id})
<1>1. Same([p EXCEPT !.saving = TRUE], p)
  BY DEF Same, Core
<1>2. /\ Tame(HandleSaveToBank(p), p) /\ Tame(Goes(p, Route("list", 0)), p)
      /\ Tame(Goes(p, Route("report", p.id)), p)
  BY <1>1, SameSelf, TameForms DEF HandleSaveToBank, Key, Starts
<1> QED BY <1>2 DEF DetailPresses, When, HandleStart
LEMMA DetailAnswerTame ==
  ASSUME NEW p, NEW r, NEW ok, NEW val, r.op \notin {"startInterview", "getInterview"}
  PROVE  Tame(DetailAnswer(p, r, ok, val), p)
<1>1. Same([p EXCEPT !.saving = FALSE], p)
  BY DEF Same, Core
<1> QED BY <1>1, SameSelf, TameForms DEF DetailAnswer, SavedToBank, Nothing

-----------------------------------------------------------------------------
(* What is pressed, and what is answered. *)

LEMMA PressEffects ==
  ASSUME NEW e \in Presses
  PROVE  \/ Tame(e, page)
         \/ page.kind = "prep" /\ page.phase = "none" /\ e = Starting(page)
         \/ page.kind = "detail" /\ page.status \in {"ready", "in_progress"} /\ e = Outset(page)
         \/ page.kind = "detail" /\ ~page.starting /\ e = Asking(page)
         \/ page.kind = "room" /\ e = Goes(page, Route("detail", page.id))
<1>1. CASE page.kind = "prep"
  BY <1>1, PrepTame DEF Presses
<1>2. CASE page.kind \in {"hub", "list"}
  BY <1>2, ListTame DEF Presses
<1>3. CASE page.kind \in {"bank", "resumes", "jobs"}
  BY <1>3, BankTame, ResumesTame, JobsTame DEF Presses
<1>4. CASE page.kind \in {"report", "login"}
  BY <1>4, ReportTame, LoginTame DEF Presses
<1>5. CASE page.kind = "detail"
  BY <1>5, DetailTame DEF Presses, Outset, Asking
<1>6. CASE page.kind \in {"welcome", "notfound"}
  BY <1>6, SameSelf, TameForms DEF Presses
<1>7. CASE page.kind = "room"
  BY <1>7, SameSelf, TameForms DEF Presses
<1> QED BY <1>1, <1>2, <1>3, <1>4, <1>5, <1>6, <1>7 DEF Presses

LEMMA AnswerEffects ==
  ASSUME NEW p, NEW r, NEW ok \in BOOLEAN, NEW denied
  PROVE  LET e == Answer(p, r, ok, denied) IN
         \/ Tame(e, p)
         \/ p.kind = "prep" /\ r.op = "createInterview" /\ ok /\ e = Preparing(p, The(r.val.ids))
         \/ p.kind = "prep" /\ r.op = "startInterview" /\ ok /\ e = Entering(p, The(r.ids))
         \/ p.kind = "prep" /\ r.op \in Starts /\ ~ok /\ e = GivenUp(p)
         \/ p.kind = "detail" /\ r.op = "startInterview" /\ ok /\ e = Outset(p)
         \/ p.kind = "detail" /\ r.op = "startInterview" /\ ~ok /\ e = Unstarted(p)
         \/ p.kind = "detail" /\ r.op = "getInterview" /\ e = DetailLoaded(p, r.val.status, ok)
<1> DEFINE e == Answer(p, r, ok, denied)
<1>1. CASE p.kind = "prep"
  <2>1. e = PrepAnswer(p, r, ok, r.val)
    BY <1>1 DEF Answer
  <2>2. CASE r.op \notin Key
    BY <2>1, <2>2, PrepAnswerTame
  <2>3. CASE r.op = "getInterview"
    <3>1. e = Nothing(p)
      BY <2>1, <2>3 DEF PrepAnswer, ImportOps
    <3> QED BY <3>1, SameSelf, TameForms DEF Nothing
  <2>4. CASE r.op \in Starts
    <3>1. /\ r.op = "createInterview" => e = IF ok THEN Preparing(p, The(r.val.ids)) ELSE GivenUp(p)
          /\ r.op = "startInterview" => e = IF ok THEN Entering(p, The(r.ids)) ELSE GivenUp(p)
      BY <2>1, PrepStarts
    <3> QED BY <1>1, <2>4, <3>1 DEF Starts
  <2> QED BY <2>2, <2>3, <2>4 DEF Key, Starts
<1>2. CASE p.kind \in {"hub", "list"}
  BY <1>2, ListedTame DEF Answer
<1>3. CASE p.kind \in {"bank", "resumes", "jobs"}
  BY <1>3, BankAnswerTame, ResumesAnswerTame, JobsAnswerTame DEF Answer
<1>4. CASE p.kind \in {"report", "login"}
  BY <1>4, ReportAnswerTame, LoginAnswerTame DEF Answer
<1>5. CASE p.kind = "detail"
  <2>1. e = DetailAnswer(p, r, ok, r.val)
    BY <1>5 DEF Answer
  <2>2. CASE r.op \notin {"startInterview", "getInterview"}
    BY <2>1, <2>2, DetailAnswerTame
  <2>3. CASE r.op \in {"startInterview", "getInterview"}
    BY <1>5, <2>1, <2>3 DEF DetailAnswer, DetailStarted, Outset, Unstarted
  <2> QED BY <2>2, <2>3
<1>6. CASE p.kind \notin {"prep", "hub", "list", "bank", "resumes", "jobs", "report", "login", "detail"}
  <2>1. e = Nothing(p)
    BY <1>6 DEF Answer
  <2> QED BY <2>1, SameSelf, TameForms DEF Nothing
<1> QED BY <1>1, <1>2, <1>3, <1>4, <1>5, <1>6

\* What is done with an answer, and with none.
LEMMA HandledEffects ==
  ASSUME NEW r, NEW ok \in BOOLEAN, NEW denied
  PROVE  LET p == Asker(r)
             e == Handled(r, ok, denied) IN
         \/ Tame(e, p)
         \/ p.kind = "prep" /\ r.op = "createInterview" /\ ok /\ e = Preparing(p, The(r.val.ids))
         \/ p.kind = "prep" /\ r.op = "startInterview" /\ ok /\ e = Entering(p, The(r.ids))
         \/ p.kind = "prep" /\ r.op \in Starts /\ ~ok /\ e = GivenUp(p)
         \/ p.kind = "detail" /\ r.op = "startInterview" /\ ok /\ e = Outset(p)
         \/ p.kind = "detail" /\ r.op = "startInterview" /\ ~ok /\ e = Unstarted(p)
         \/ p.kind = "detail" /\ r.op = "getInterview" /\ e = DetailLoaded(p, r.val.status, ok)
<1>1. CASE Handled(r, ok, denied) = Nothing(Asker(r))
  BY <1>1, SameSelf, TameForms DEF Nothing
<1>2. CASE Handled(r, ok, denied) = Answer(Asker(r), r, ok, denied)
  BY <1>2, AnswerEffects
<1> QED BY <1>1, <1>2 DEF Handled

-----------------------------------------------------------------------------
(* Types, and what is waited for. *)

\* What a page may be, the one of a route that keeps nothing included.
FieldsOK(p, to) ==
  CASE p.kind = "prep" -> p \in PrepType
    [] p.kind \in {"hub", "list"} -> p \in ListType
    [] p.kind = "bank" -> p \in BankType
    [] p.kind = "resumes" -> p \in ResumesType
    [] p.kind = "jobs" -> p \in JobsType
    [] p.kind = "report" -> p \in ReportType(Sessions)
    [] p.kind = "detail" -> p \in DetailType
    [] p.kind = "login" -> p \in LoginType
    [] OTHER -> p = Plain(to.at, to.id)

\* What a request is about: an operation on a file is about one there is, and the questions of
\* a text are questions.
FileOps == {"extractResume", "uploadResume", "parse", "upload", "importCloud", "parseCloud",
            "uploadCloud"}
TextOps == {"extract", "parseText", "parseImage", "importWps"}
Asked(r) ==
  /\ r.to \in 0..Banks
  /\ r.op \in FileOps => \E f \in Files : r.ids = {f}
  /\ r.op \in TextOps => r.ids \subseteq Questions
  /\ r.op = "listQuestions" => r.from \in {"page", "saving", "deleting"}
  /\ r.op \notin {"saving", "deleting"}
\* Operations that are about nothing of the kind.
Usual(op) == op \notin FileOps \cup TextOps \cup {"saving", "deleting"}
\* What its answer brings.
Brought(r) ==
  /\ r.val.bank \in [Questions -> 0..Banks] /\ r.val.status \in Statuses
  /\ r.op = "listResumes" => r.val.ids \subseteq Files
  /\ r.op \in {"listJobs", "createJob"} => r.val.ids \subseteq Jobs
  /\ r.op = "listInterviews" => r.val.ids \subseteq Sessions
RouteOK(to) == to.at \in Protected \cup Public /\ (to.at = "report" => to.id \in Sessions \cup {0})

\* The question bank reads its list again for different ends, and a flag that a change has
\* set is cleared by the reading for this change alone: its requests are told apart by it.
Tag(r) == IF r.op = "listQuestions" /\ r.from # "page" THEN r.from ELSE r.op
Lists == {"listQuestions", "saving", "deleting"}
Sharp(p) ==
  CASE p.kind = "bank" ->
         When(p.loading, {Lists})
         \cup When(p.saving, {{"patch", "saving"}})
         \cup When(p.deleting, {{"deleteQuestions", "deleting"}})
         \cup ImportWaits(p.import)
    [] p.kind = "prep" ->
         When(p.phase # "none", {{"createInterview", "startInterview"}})
         \cup When(p.parsing, {{"parse", "upload", "parseCloud", "uploadCloud"}})
         \cup When(p.library.loading, {{"listResumes"}})
         \cup When(p.cloud.loading, {{"listCloud"}})
         \cup When(p.cloud.importing, {{"importCloud", "parseCloud", "uploadCloud"}})
         \cup When(p.ocr, {{"ocr"}})
         \cup When(p.bankLoading, {Lists})
         \cup When(p.github.loading, {{"analyze", "storeProject"}})
         \cup ImportWaits(p.import)
    [] OTHER -> Waits(p)

\* When "t" was answered and "op" sent, whatever still waits waits for what was sent, or waited
\* already and for something else than what was answered.
Covers(W, V, t, op) == \A w \in W : op \in w \/ (w \in V /\ t \notin w)
Ends(send, w) == \E i \in DOMAIN send : Tag(send[i]) \in w
Ended(e, W, V, t) == \A w \in W : Ends(e.send, w) \/ (w \in V /\ t \notin w)
Fits(e) ==
  /\ e.go = Stay \/ RouteOK(e.go)
  /\ \A i \in DOMAIN e.send : Asked(e.send[i])
Turned(e, p, t) == Ended(e, Sharp(e.page), Sharp(p), t) /\ Fits(e)

\* The forms of effects, and what is left to show of each. Nothing is asked for as "none".
LEMMA StepForms ==
  ASSUME NEW W, NEW V, NEW t, NEW q
  PROVE  /\ Covers(W, V, t, "none") /\ (\A w \in W : "none" \notin w) =>
              Ended(Shows(q), W, V, t) /\ \A to : Ended(Goes(q, to), W, V, t)
         /\ \A op, ids : Covers(W, V, t, op) => Ended(Sends(q, op, ids), W, V, t)
         /\ \A r : Covers(W, V, t, Tag(r)) => Ended(Asks(q, r), W, V, t)
<1>1. ASSUME NEW e, NEW r, e.send = <<r>>, Covers(W, V, t, Tag(r)) PROVE Ended(e, W, V, t)
  BY <1>1 DEF Ended, Covers, Ends
<1>2. \A r : Covers(W, V, t, Tag(r)) => Ended(Asks(q, r), W, V, t)
  BY <1>1 DEF Asks
<1>3. \A op, ids : Tag(Req(op, ids)) = op
  BY DEF Tag, Req
<1>4. \A op, ids : Covers(W, V, t, op) => Ended(Sends(q, op, ids), W, V, t)
  BY <1>2, <1>3 DEF Sends
<1>5. Covers(W, V, t, "none") /\ (\A w \in W : "none" \notin w) =>
        Ended(Shows(q), W, V, t) /\ \A to : Ended(Goes(q, to), W, V, t)
  BY DEF Covers, Ended
<1> QED BY <1>2, <1>4, <1>5
LEMMA FitForms ==
  ASSUME NEW q
  PROVE  /\ Fits(Shows(q))
         /\ \A to : RouteOK(to) => Fits(Goes(q, to))
         /\ \A op, ids : Usual(op) => Fits(Sends(q, op, ids))
         /\ \A op, f : f \in Files /\ op \in FileOps => Fits(Sends(q, op, {f}))
         /\ \A r : Asked(r) => Fits(Asks(q, r))
<1>1. \A r : Asked(r) => Fits(Asks(q, r))
  BY DEF Fits, Asks
<1>2. 0 \in 0..Banks
  BY PagesAssumption
<1>3. /\ \A op, ids : Usual(op) => Asked(Req(op, ids))
      /\ \A op, f : f \in Files /\ op \in FileOps => Asked(Req(op, {f}))
  BY <1>2 DEF Asked, Req, Usual, FileOps, TextOps
<1> QED BY <1>1, <1>3 DEF Sends, Fits, Shows, Goes

Held(now, was, w, t, op) == now => op \in w \/ (was /\ t \notin w)
LEMMA NoneWaits == \A p : \A w \in Sharp(p) \cup ImportWaits(p) : "none" \notin w
  BY DEF Sharp, Lists, Waits, When, ImportWaits, PrepWaits, BankWaits, ResumesWaits, JobsWaits,
         ReportWaits, DetailWaits, LoginWaits

-----------------------------------------------------------------------------
(* The pages of few flags. *)

\* A step of such a page: its new state q, the tag t of what was answered, and what is sent.
Carries(q, p, t, op) == Covers(Sharp(q), Sharp(p), t, op)
Fit(e, p, t, T) == e.page \in T /\ Turned(e, p, t)
LEMMA Turns ==
  ASSUME NEW T, NEW p, NEW t, NEW q \in T
  PROVE  /\ Carries(q, p, t, "none") =>
              Fit(Shows(q), p, t, T) /\ \A to : RouteOK(to) => Fit(Goes(q, to), p, t, T)
         /\ \A op, ids : Carries(q, p, t, op) /\ Usual(op) =>
                           Fit(Sends(q, op, ids), p, t, T)
         /\ \A op, f : Carries(q, p, t, op) /\ f \in Files /\ op \in FileOps =>
                         Fit(Sends(q, op, {f}), p, t, T)
         /\ \A r : Carries(q, p, t, Tag(r)) /\ Asked(r) => Fit(Asks(q, r), p, t, T)
<1>1. \A w \in Sharp(q) : "none" \notin w
  BY NoneWaits
<1>2. ASSUME NEW e, e.page = q, Ended(e, Sharp(q), Sharp(p), t), Fits(e) PROVE Fit(e, p, t, T)
  BY <1>2 DEF Fit, Turned
<1>3. ASSUME Carries(q, p, t, "none")
      PROVE  Fit(Shows(q), p, t, T) /\ \A to : RouteOK(to) => Fit(Goes(q, to), p, t, T)
  BY <1>1, <1>2, <1>3, StepForms, FitForms, EffectPage DEF Carries
<1>4. ASSUME NEW op, NEW ids, Carries(q, p, t, op),
             Usual(op) \/ (op \in FileOps /\ \E f \in Files : ids = {f})
      PROVE  Fit(Sends(q, op, ids), p, t, T)
  BY <1>2, <1>4, StepForms, FitForms, EffectPage DEF Carries
<1>5. ASSUME NEW r, Carries(q, p, t, Tag(r)), Asked(r) PROVE Fit(Asks(q, r), p, t, T)
  BY <1>2, <1>5, StepForms, FitForms, EffectPage DEF Carries
<1> QED BY <1>3, <1>4, <1>5

LEMMA LoginTurns ==
  ASSUME NEW p \in LoginType, NEW q \in LoginType, NEW t, NEW op,
         Held(q.loading, p.loading, {"authorize", "exchange"}, t, op)
  PROVE  Carries(q, p, t, op)
  BY DEF Carries, Covers, Sharp, Waits, LoginWaits, LoginType, When, Held
LEMMA ListTurns ==
  ASSUME NEW p \in ListType, NEW q \in ListType, NEW t, NEW op,
         Held(q.loading, p.loading, {"listInterviews"}, t, op)
  PROVE  Carries(q, p, t, op)
  BY DEF Carries, Covers, Sharp, Waits, ListType, When, Held
LEMMA ReportTurns ==
  ASSUME NEW p \in ReportType(Sessions), NEW q \in ReportType(Sessions), NEW t, NEW op,
         Held(q.loading, p.loading, {"getReport"}, t, op),
         Held(q.retrying, p.retrying, {"retryReport"}, t, op)
  PROVE  Carries(q, p, t, op)
  BY DEF Carries, Covers, Sharp, Waits, ReportWaits, ReportType, When, Held
LEMMA DetailTurns ==
  ASSUME NEW p \in DetailType, NEW q \in DetailType, NEW t, NEW op,
         Held(q.loading, p.loading, {"getInterview"}, t, op),
         Held(q.starting, p.starting, {"startInterview"}, t, op),
         Held(q.saving, p.saving, {"importSession"}, t, op)
  PROVE  Carries(q, p, t, op)
  BY DEF Carries, Covers, Sharp, Waits, DetailWaits, DetailType, When, Held
LEMMA ResumesTurns ==
  ASSUME NEW p \in ResumesType, NEW q \in ResumesType, NEW t, NEW op,
         Held(q.uploading, p.uploading, {"extractResume", "uploadResume"}, t, op)
  PROVE  Carries(q, p, t, op)
  BY DEF Carries, Covers, Sharp, Waits, ResumesWaits, ResumesType, When, Held
LEMMA JobsTurns ==
  ASSUME NEW p \in JobsType, NEW q \in JobsType, NEW t, NEW op,
         Held(q.reading, p.reading, {"ocr"}, t, op)
  PROVE  Carries(q, p, t, op)
  BY DEF Carries, Covers, Sharp, Waits, JobsWaits, JobsType, When, Held

\* An answer that leads away from the page leaves it waiting for ever, and gone.
Leaves(e, r) ==
  Fits(e) /\ (e.go.at \in {"room", "wps"} \/ (e.go.at = "hub" /\ r.op = "exchange"))
LEMMA TagOf ==
  ASSUME NEW r, Asked(r)
  PROVE  Tag(r) = r.op \/ (r.op = "listQuestions" /\ Tag(r) \in {"saving", "deleting"})
  BY DEF Tag, Asked

LEMMA LoginPressFits ==
  ASSUME NEW p \in LoginType, NEW e \in LoginPresses(p) PROVE Fit(e, p, "none", LoginType)
<1>1. ASSUME NEW m \in LoginModes
      PROVE  Fit(Shows([p EXCEPT !.mode = m, !.failed = FALSE]), p, "none", LoginType)
  <2>1. [p EXCEPT !.mode = m, !.failed = FALSE] \in LoginType
    BY DEF LoginType
  <2> QED BY <2>1, Turns, LoginTurns DEF LoginType, Held
<1>2. Fit(Shows([p EXCEPT !.failed = TRUE]), p, "none", LoginType)
  <2>1. [p EXCEPT !.failed = TRUE] \in LoginType
    BY DEF LoginType
  <2> QED BY <2>1, Turns, LoginTurns DEF LoginType, Held
<1>3. Fit(HandleAuthorize(p), p, "none", LoginType)
  <2> DEFINE q == [p EXCEPT !.loading = TRUE, !.failed = FALSE]
  <2>1. q \in LoginType
    BY DEF LoginType
  <2>2. Carries(q, p, "none", "authorize")
    BY <2>1, LoginTurns DEF LoginType, Held
  <2> QED BY <2>1, <2>2, Turns DEF HandleAuthorize, Usual, FileOps, TextOps
<1>4. Fit(Goes(p, Route("welcome", 0)), p, "none", LoginType)
  BY Turns, LoginTurns DEF RouteOK, Route, Public, Held
<1>5. FormStep(p.mode) \subseteq LoginModes
  BY DEF FormStep, LoginModes, LoginType
<1> QED BY <1>1, <1>2, <1>3, <1>4, <1>5 DEF LoginPresses, When

LEMMA LoginAnswerFits ==
  ASSUME NEW p \in LoginType, NEW r, Asked(r), NEW ok \in BOOLEAN
  PROVE  LET e == LoginAnswer(p, r, ok) IN Fit(e, p, Tag(r), LoginType) \/ (ok /\ Leaves(e, r))
<1>1. ASSUME r.op \in {"authorize", "exchange"}
      PROVE  Fit(LoginFailed(p), p, Tag(r), LoginType)
  <2> DEFINE q == [p EXCEPT !.loading = FALSE, !.failed = TRUE]
  <2>1. q \in LoginType
    BY DEF LoginType
  <2>2. Carries(q, p, Tag(r), "none")
    BY <2>1, LoginTurns DEF LoginType, Held
  <2> QED BY <2>1, <2>2, Turns DEF LoginFailed
<1>2. ASSUME r.op \notin {"authorize", "exchange"} PROVE Fit(Nothing(p), p, Tag(r), LoginType)
  <2>1. Tag(r) \notin {"authorize", "exchange"}
    BY <1>2, TagOf
  <2> QED BY <2>1, Turns, LoginTurns DEF Nothing, Held
<1>3. Leaves(Goes(p, Route("wps", 0)), r) /\ (r.op = "exchange" => Leaves(Goes(p, Route("hub", 0)), r))
  <2>1. RouteOK(Route("wps", 0)) /\ RouteOK(Route("hub", 0))
    BY DEF RouteOK, Route, Public, Protected, WithTopBar
  <2> QED BY <2>1, FitForms DEF Leaves, Goes, Route
<1> QED BY <1>1, <1>2, <1>3 DEF LoginAnswer, Authorized, Exchanged

LEMMA ListPressFits ==
  ASSUME NEW p \in ListType, NEW e \in HubPresses(p) \cup ListPresses(p)
  PROVE  Fit(e, p, "none", ListType)
<1>1. Carries(p, p, "none", "none")
  BY ListTurns DEF Held
<1>2. \A s \in Sessions \cup {0} : RouteOK(Route("report", s))
  BY DEF RouteOK, Route, Protected, WithTopBar
<1>3. RouteOK(Route("prep", 0)) /\ RouteOK(Route("list", 0))
  BY DEF RouteOK, Route, Protected, WithTopBar
<1>4. p.rows \subseteq Sessions
  BY DEF ListType
<1> QED BY <1>1, <1>2, <1>3, <1>4, Turns DEF HubPresses, ListPresses
\* The lists take what is answered, whatever it is: only the records of the sessions are asked for.
LEMMA ListedFits ==
  ASSUME NEW p \in ListType, NEW r, Brought(r), r.op = "listInterviews",
         NEW ok \in BOOLEAN, NEW denied \in BOOLEAN
  PROVE  Fit(Listed(p, r.val.ids, ok, denied), p, Tag(r), ListType)
<1> DEFINE q1 == [p EXCEPT !.loading = FALSE, !.rows = r.val.ids]
           q2 == [p EXCEPT !.loading = FALSE, !.failed = ~denied, !.demo = p.kind = "list"]
<1>1. q1 \in ListType
  BY DEF ListType, Brought
<1>2. q2 \in ListType
  BY DEF ListType
<1>3. Carries(q1, p, Tag(r), "none") /\ Carries(q2, p, Tag(r), "none")
  BY <1>1, <1>2, ListTurns DEF ListType, Held
<1> QED BY <1>1, <1>2, <1>3, Turns DEF Listed

LEMMA DetailPressFits ==
  ASSUME NEW p \in DetailType, NEW e \in DetailPresses(p) PROVE Fit(e, p, "none", DetailType)
<1>1. Carries(p, p, "none", "none") /\ p.id \in Sessions
  BY DetailTurns DEF DetailType, Held
<1>2. /\ RouteOK(Route("room", p.id)) /\ RouteOK(Route("list", 0)) /\ RouteOK(Route("report", p.id))
  BY <1>1 DEF RouteOK, Route, Protected, WithTopBar
<1>3. Fit(Sends([p EXCEPT !.starting = TRUE], "startInterview", {p.id}), p, "none", DetailType)
  <2> DEFINE q == [p EXCEPT !.starting = TRUE]
  <2>1. q \in DetailType
    BY DEF DetailType
  <2>2. Carries(q, p, "none", "startInterview")
    BY <2>1, DetailTurns DEF DetailType, Held
  <2> QED BY <2>1, <2>2, Turns DEF Usual, FileOps, TextOps
<1>4. Fit(HandleSaveToBank(p), p, "none", DetailType)
  <2> DEFINE q == [p EXCEPT !.saving = TRUE]
  <2>1. q \in DetailType
    BY DEF DetailType
  <2>2. Carries(q, p, "none", "importSession")
    BY <2>1, DetailTurns DEF DetailType, Held
  <2> QED BY <2>1, <2>2, Turns DEF Usual, FileOps, TextOps, HandleSaveToBank
<1>5. \A to : RouteOK(to) => Fit(Goes(p, to), p, "none", DetailType)
  BY <1>1, Turns
<1> QED BY <1>2, <1>3, <1>4, <1>5 DEF DetailPresses, HandleStart, When
LEMMA DetailAnswerFits ==
  ASSUME NEW p \in DetailType, NEW r, Asked(r), Brought(r), NEW ok \in BOOLEAN
  PROVE  LET e == DetailAnswer(p, r, ok, r.val) IN
         Fit(e, p, Tag(r), DetailType) \/ (ok /\ Leaves(e, r))
<1>1. ASSUME r.op = "getInterview" PROVE Fit(DetailLoaded(p, r.val.status, ok), p, Tag(r), DetailType)
  <2> DEFINE q == [p EXCEPT !.loading = FALSE, !.failed = ~ok,
                            !.status = IF ok THEN r.val.status ELSE @]
  <2>1. q \in DetailType
    BY DEF DetailType, Brought, Statuses
  <2>2. Carries(q, p, Tag(r), "none")
    BY <1>1, <2>1, TagOf, DetailTurns DEF DetailType, Held
  <2> QED BY <2>1, <2>2, Turns DEF DetailLoaded
<1>2. ASSUME r.op = "startInterview"
      PROVE  Fit(DetailStarted(p, ok), p, Tag(r), DetailType) \/ (ok /\ Leaves(DetailStarted(p, ok), r))
  <2> DEFINE q == [p EXCEPT !.starting = FALSE]
  <2>1. q \in DetailType
    BY DEF DetailType
  <2>2. Carries(q, p, Tag(r), "none")
    BY <1>2, <2>1, TagOf, DetailTurns DEF DetailType, Held
  <2>3. RouteOK(Route("room", p.id))
    BY DEF RouteOK, Route, Protected, WithTopBar
  <2>4. Leaves(Goes(p, Route("room", p.id)), r)
    BY <2>3, FitForms DEF Leaves, Goes, Route
  <2> QED BY <2>1, <2>2, <2>4, Turns DEF DetailStarted
<1>3. ASSUME r.op = "importSession" PROVE Fit(SavedToBank(p), p, Tag(r), DetailType)
  <2> DEFINE q == [p EXCEPT !.saving = FALSE]
  <2>1. q \in DetailType
    BY DEF DetailType
  <2>2. Carries(q, p, Tag(r), "none")
    BY <1>3, <2>1, TagOf, DetailTurns DEF DetailType, Held
  <2> QED BY <2>1, <2>2, Turns DEF SavedToBank
<1>4. ASSUME r.op \notin {"getInterview", "startInterview", "importSession"}
      PROVE  Fit(Nothing(p), p, Tag(r), DetailType)
  <2>1. Tag(r) \notin {"getInterview", "startInterview", "importSession"}
    BY <1>4, TagOf
  <2> QED BY <2>1, Turns, DetailTurns DEF Nothing, Held
<1> QED BY <1>1, <1>2, <1>3, <1>4 DEF DetailAnswer

LEMMA ReportPressFits ==
  ASSUME NEW p \in ReportType(Sessions), NEW e \in ReportPresses(p)
  PROVE  Fit(e, p, "none", ReportType(Sessions))
<1>1. Fit(Goes(p, Route("list", 0)), p, "none", ReportType(Sessions))
  <2>1. RouteOK(Route("list", 0))
    BY DEF RouteOK, Route, Protected, WithTopBar
  <2>2. Carries(p, p, "none", "none")
    BY ReportTurns DEF Held
  <2> QED BY <2>1, <2>2, Turns
<1>2. Fit(HandleRetry(p), p, "none", ReportType(Sessions))
  <2> DEFINE q == [p EXCEPT !.retrying = TRUE, !.failed = FALSE]
  <2>1. q \in ReportType(Sessions)
    BY DEF ReportType
  <2>2. Carries(q, p, "none", "retryReport")
    BY <2>1, ReportTurns DEF ReportType, Held
  <2> QED BY <2>1, <2>2, Turns DEF Usual, FileOps, TextOps, HandleRetry
<1> QED BY <1>1, <1>2 DEF ReportPresses, When
LEMMA PollFits ==
  ASSUME NEW p \in ReportType(Sessions), p.polls < Polls
  PROVE  Fit(Poll(p), p, "none", ReportType(Sessions))
<1> DEFINE q == [p EXCEPT !.polls = @ + 1]
<1>1. q \in ReportType(Sessions)
  BY PagesAssumption DEF ReportType
<1>2. Carries(q, p, "none", "pollReport")
  BY <1>1, ReportTurns DEF ReportType, Held
<1> QED BY <1>1, <1>2, Turns DEF Usual, FileOps, TextOps, Poll

LEMMA ReportAnswerFits ==
  ASSUME NEW p \in ReportType(Sessions), NEW r, Asked(r), NEW ok \in BOOLEAN, NEW denied \in BOOLEAN
  PROVE  Fit(ReportAnswer(p, r, ok, denied, r.val), p, Tag(r), ReportType(Sessions))
<1> DEFINE T == ReportType(Sessions)
           a == r.val.yes
\* The flags of a page that ask for nothing: which answer clears which.
<1>1. ASSUME NEW q \in T,
             q.loading => p.loading /\ r.op # "getReport",
             q.retrying => p.retrying /\ r.op # "retryReport"
      PROVE  Fit(Shows(q), p, Tag(r), T)
  <2>1. Carries(q, p, Tag(r), "none")
    BY <1>1, TagOf, ReportTurns DEF Held
  <2> QED BY <2>1, Turns
<1>2. ASSUME NEW q \in T
      PROVE  /\ LET h == HasReport(q) IN h \in T /\ h.loading = q.loading /\ h.retrying = q.retrying
             /\ LET h == StopPolling(q) IN h \in T /\ h.loading = q.loading /\ h.retrying = q.retrying
             /\ LET h == StartPolling(q) IN h \in T /\ h.loading = q.loading /\ h.retrying = q.retrying
  <2> DEFINE h1 == [q EXCEPT !.shown = TRUE, !.available = "yes"]
             h2 == [q EXCEPT !.timer = FALSE]
             h3 == [q EXCEPT !.timer = TRUE, !.polls = 0, !.gaveUp = FALSE]
  <2>1. h1 \in T /\ h1.loading = q.loading /\ h1.retrying = q.retrying
    BY DEF ReportType
  <2>2. h2 \in T /\ h2.loading = q.loading /\ h2.retrying = q.retrying
    BY DEF ReportType
  <2>3. 0 \in 0..Polls
    BY PagesAssumption
  <2>4. h3 \in T /\ h3.loading = q.loading /\ h3.retrying = q.retrying
    BY <2>3 DEF ReportType
  <2> QED BY <2>1, <2>2, <2>4 DEF HasReport, StopPolling, StartPolling
<1>3. ASSUME r.op = "getReport" PROVE Fit(ReportLoaded(p, a, ok, denied), p, Tag(r), T)
  <2> DEFINE done == [p EXCEPT !.loading = FALSE]
             none == [done EXCEPT !.shown = FALSE, !.available = "no"]
             demo == [done EXCEPT !.demo = TRUE, !.available = "yes"]
             fail == [done EXCEPT !.failed = TRUE]
  <2>1. /\ done \in T /\ ~done.loading /\ done.retrying = p.retrying
        /\ none \in T /\ ~none.loading /\ none.retrying = p.retrying
        /\ demo \in T /\ ~demo.loading /\ demo.retrying = p.retrying
        /\ fail \in T /\ ~fail.loading /\ fail.retrying = p.retrying
    BY DEF ReportType
  <2> HIDE DEF T, done, none, demo, fail
  <2>2. /\ Fit(Shows(HasReport(done)), p, Tag(r), T) /\ Fit(Shows(StartPolling(none)), p, Tag(r), T)
        /\ Fit(Shows(demo), p, Tag(r), T) /\ Fit(Shows(fail), p, Tag(r), T)
    BY <1>1, <1>2, <1>3, <2>1
  <2> QED BY <2>2 DEF ReportLoaded, done, none, demo, fail
<1>4. ASSUME r.op = "pollReport" PROVE Fit(Polled(p, a, ok), p, Tag(r), T)
  <2> DEFINE over == [p EXCEPT !.gaveUp = TRUE]
             fail == [p EXCEPT !.failed = TRUE]
  <2>1. /\ over \in T /\ over.loading = p.loading /\ over.retrying = p.retrying
        /\ fail \in T /\ fail.loading = p.loading /\ fail.retrying = p.retrying
    BY DEF ReportType
  <2> HIDE DEF T, over, fail
  <2>2. p \in T
    BY DEF T
  <2>3. /\ Fit(Shows(StopPolling(HasReport(p))), p, Tag(r), T)
        /\ Fit(Shows(StopPolling(over)), p, Tag(r), T) /\ Fit(Shows(StopPolling(p)), p, Tag(r), T)
        /\ Fit(Shows(StopPolling(fail)), p, Tag(r), T) /\ Fit(Shows(p), p, Tag(r), T)
    BY <1>1, <1>2, <1>4, <2>1, <2>2
  <2> QED BY <2>3 DEF Polled, over, fail
<1>5. ASSUME r.op = "retryReport" PROVE Fit(Retried(p, a, ok), p, Tag(r), T)
  <2> DEFINE done == [p EXCEPT !.retrying = FALSE]
             none == [done EXCEPT !.shown = FALSE, !.available = "no", !.failed = FALSE]
             fail == [done EXCEPT !.failed = TRUE]
  <2>1. /\ done \in T /\ done.loading = p.loading /\ ~done.retrying
        /\ none \in T /\ none.loading = p.loading /\ ~none.retrying
        /\ fail \in T /\ fail.loading = p.loading /\ ~fail.retrying
    BY DEF ReportType
  <2> HIDE DEF T, done, none, fail
  <2>2. /\ Fit(Shows(StopPolling(HasReport(done))), p, Tag(r), T)
        /\ Fit(Shows(StartPolling(none)), p, Tag(r), T) /\ Fit(Shows(fail), p, Tag(r), T)
    BY <1>1, <1>2, <1>5, <2>1
  <2> QED BY <2>2 DEF Retried, done, none, fail
<1>6. ASSUME r.op \notin {"getReport", "pollReport", "retryReport"} PROVE Fit(Nothing(p), p, Tag(r), T)
  BY <1>1, <1>6 DEF Nothing
<1> HIDE DEF T
<1> QED BY <1>3, <1>4, <1>5, <1>6 DEF ReportAnswer, T

LEMMA ResumesPressFits ==
  ASSUME NEW p \in ResumesType, NEW c, NEW e \in ResumesPresses(p, c)
  PROVE  Fit(e, p, "none", ResumesType)
<1>1. ASSUME NEW q \in ResumesType, q.uploading = p.uploading
      PROVE  /\ Fit(Shows(q), p, "none", ResumesType)
             /\ \A op, ids : Usual(op) =>
                               Fit(Sends(q, op, ids), p, "none", ResumesType)
  <2>1. \A op : Carries(q, p, "none", op)
    BY <1>1, ResumesTurns DEF Held
  <2> QED BY <2>1, Turns
<1>2. /\ [p EXCEPT !.deleting = 0] \in ResumesType /\ [p EXCEPT !.renaming = 0] \in ResumesType
      /\ [p EXCEPT !.failed = TRUE] \in ResumesType
      /\ \A f \in p.items : /\ [p EXCEPT !.selected = f] \in ResumesType
                            /\ [p EXCEPT !.deleting = f] \in ResumesType
                            /\ [p EXCEPT !.renaming = f] \in ResumesType
  BY DEF ResumesType
<1>3. /\ \A x : /\ [p EXCEPT !.deleting = x].uploading = p.uploading
                /\ [p EXCEPT !.renaming = x].uploading = p.uploading
                /\ [p EXCEPT !.selected = x].uploading = p.uploading
      /\ [p EXCEPT !.failed = TRUE].uploading = p.uploading
  BY DEF ResumesType
<1>4. ASSUME NEW f \in Files PROVE Fit(HandleUpload(p, f), p, "none", ResumesType)
  <2> DEFINE q == [p EXCEPT !.uploading = TRUE, !.failed = FALSE]
  <2>1. q \in ResumesType
    BY DEF ResumesType
  <2>2. Carries(q, p, "none", "extractResume")
    BY <2>1, ResumesTurns DEF ResumesType, Held
  <2>3. Fit(Sends(q, "extractResume", {f}), p, "none", ResumesType)
    BY <2>1, <2>2, Turns DEF FileOps, TextOps
  <2> QED BY <1>1, <1>2, <1>3, <2>3 DEF HandleUpload
<1>5. /\ Fit(Shows([p EXCEPT !.deleting = 0]), p, "none", ResumesType)
      /\ Fit(Shows([p EXCEPT !.renaming = 0]), p, "none", ResumesType)
      /\ \A f \in p.items : /\ Fit(Shows([p EXCEPT !.selected = f]), p, "none", ResumesType)
                            /\ Fit(Shows([p EXCEPT !.deleting = f]), p, "none", ResumesType)
                            /\ Fit(Shows([p EXCEPT !.renaming = f]), p, "none", ResumesType)
  BY <1>1, <1>2, <1>3
<1>6. \A ids : /\ Fit(Sends(p, "deleteResume", ids), p, "none", ResumesType)
               /\ Fit(Sends(p, "renameResume", ids), p, "none", ResumesType)
  BY <1>1 DEF Usual, FileOps, TextOps
<1> QED BY <1>4, <1>5, <1>6 DEF ResumesPresses, When

LEMMA ResumesAnswerFits ==
  ASSUME NEW p \in ResumesType, NEW r, Asked(r), Brought(r), NEW ok \in BOOLEAN
  PROVE  Fit(ResumesAnswer(p, r, ok, r.val), p, Tag(r), ResumesType)
<1> DEFINE f == The(r.ids)
<1>1. r.op \in FileOps => f \in Files
  BY DEF Asked, The
<1>2. ASSUME NEW q \in ResumesType,
             q.uploading => p.uploading /\ r.op \notin {"extractResume", "uploadResume"}
      PROVE  Fit(Shows(q), p, Tag(r), ResumesType)
  <2>1. Carries(q, p, Tag(r), "none")
    BY <1>2, TagOf, ResumesTurns DEF Held
  <2> QED BY <2>1, Turns
<1> HIDE DEF f
<1>3. ASSUME r.op = "listResumes"
      PROVE  Fit(Shows(IF ok THEN [p EXCEPT !.items = r.val.ids] ELSE p), p, Tag(r), ResumesType)
  <2> DEFINE q == [p EXCEPT !.items = r.val.ids]
  <2>1. q \in ResumesType /\ q.uploading = p.uploading
    BY <1>3 DEF ResumesType, Brought
  <2> QED BY <1>2, <1>3, <2>1
<1>4. ASSUME r.op = "extractResume" PROVE Fit(ResumeExtracted(p, f, ok), p, Tag(r), ResumesType)
  <2> DEFINE q == [p EXCEPT !.failed = TRUE, !.uploading = FALSE]
  <2>1. q \in ResumesType /\ ~q.uploading
    BY DEF ResumesType
  <2>2. Carries(p, p, Tag(r), "uploadResume")
    BY ResumesTurns DEF Held
  <2>3. Fit(Sends(p, "uploadResume", {f}), p, Tag(r), ResumesType)
    BY <1>1, <1>4, <2>2, Turns DEF Usual, FileOps, TextOps
  <2> QED BY <1>2, <2>1, <2>3 DEF ResumeExtracted
<1>5. ASSUME r.op = "uploadResume" PROVE Fit(ResumeUploaded(p, f, ok), p, Tag(r), ResumesType)
  <2> DEFINE q1 == [p EXCEPT !.items = @ \cup {f}, !.selected = f, !.uploading = FALSE]
             q2 == [p EXCEPT !.failed = TRUE, !.uploading = FALSE]
  <2>1. f \in Files
    BY <1>1, <1>5 DEF FileOps
  <2>2. q1 \in ResumesType /\ ~q1.uploading /\ q2 \in ResumesType /\ ~q2.uploading
    BY <2>1 DEF ResumesType
  <2> QED BY <1>2, <2>2 DEF ResumeUploaded
<1>6. ASSUME r.op \in {"renameResume", "deleteResume"}
      PROVE  /\ Fit(ResumeRenamed(p, ok), p, Tag(r), ResumesType)
             /\ Fit(ResumeDeleted(p, f, ok), p, Tag(r), ResumesType)
  <2> DEFINE q1 == [p EXCEPT !.renaming = 0]
             q2 == [p EXCEPT !.failed = TRUE]
             q3 == [p EXCEPT !.items = @ \ {f}, !.deleting = 0, !.selected = IF @ = f THEN 0 ELSE @]
             q4 == [p EXCEPT !.failed = TRUE, !.deleting = 0]
  <2>1. /\ q1 \in ResumesType /\ q1.uploading = p.uploading
        /\ q2 \in ResumesType /\ q2.uploading = p.uploading
        /\ q3 \in ResumesType /\ q3.uploading = p.uploading
        /\ q4 \in ResumesType /\ q4.uploading = p.uploading
    BY DEF ResumesType
  <2> QED BY <1>2, <1>6, <2>1 DEF ResumeRenamed, ResumeDeleted
<1>7. ASSUME r.op \notin {"extractResume", "uploadResume"} PROVE Fit(Nothing(p), p, Tag(r), ResumesType)
  BY <1>2, <1>7 DEF Nothing
<1> QED BY <1>3, <1>4, <1>5, <1>6, <1>7 DEF ResumesAnswer, f

LEMMA JobsPressFits ==
  ASSUME NEW p \in JobsType, NEW e \in JobsPresses(p) PROVE Fit(e, p, "none", JobsType)
<1>1. ASSUME NEW q \in JobsType, q.reading = p.reading
      PROVE  /\ Fit(Shows(q), p, "none", JobsType)
             /\ \A op, ids : Usual(op) => Fit(Sends(q, op, ids), p, "none", JobsType)
  <2>1. \A op : Carries(q, p, "none", op)
    BY <1>1, JobsTurns DEF Held
  <2> QED BY <2>1, Turns
<1>2. ASSUME NEW at \in {"none", "edit", "upload", "delete"}, NEW j \in Nat
      PROVE  /\ Fit(Shows([p EXCEPT !.dialog = [at |-> at, id |-> j]]), p, "none", JobsType)
             /\ Fit(Shows([p EXCEPT !.dialog = [at |-> at, id |-> j], !.named = TRUE]), p, "none", JobsType)
             /\ Fit(Shows([p EXCEPT !.dialog = [at |-> at, id |-> j], !.named = FALSE,
                                    !.failed = FALSE]), p, "none", JobsType)
  <2> DEFINE q1 == [p EXCEPT !.dialog = [at |-> at, id |-> j]]
             q2 == [p EXCEPT !.dialog = [at |-> at, id |-> j], !.named = TRUE]
             q3 == [p EXCEPT !.dialog = [at |-> at, id |-> j], !.named = FALSE, !.failed = FALSE]
  <2>1. /\ q1 \in JobsType /\ q1.reading = p.reading
        /\ q2 \in JobsType /\ q2.reading = p.reading
        /\ q3 \in JobsType /\ q3.reading = p.reading
    BY DEF JobsType
  <2> QED BY <1>1, <2>1
<1>3. /\ Fit(Dismiss(p), p, "none", JobsType) /\ Fit(OpenUpload(p), p, "none", JobsType)
      /\ \A j \in p.items : /\ Fit(OpenEdit(p, j), p, "none", JobsType)
                            /\ Fit(Opened(p, "delete", j), p, "none", JobsType)
  <2>1. p.items \subseteq Nat /\ 0 \in Nat
    BY PagesAssumption DEF JobsType
  <2> QED BY <1>2, <2>1 DEF Dismiss, NoDialog, OpenUpload, OpenEdit, Opened
<1>4. Fit(Shows([p EXCEPT !.named = TRUE]), p, "none", JobsType)
  <2> DEFINE q == [p EXCEPT !.named = TRUE]
  <2>1. q \in JobsType /\ q.reading = p.reading
    BY DEF JobsType
  <2> QED BY <1>1, <2>1
<1>5. Fit(HandleJobImage(p), p, "none", JobsType)
  <2> DEFINE q == [p EXCEPT !.reading = TRUE, !.failed = FALSE]
  <2>1. q \in JobsType
    BY DEF JobsType
  <2>2. Carries(q, p, "none", "ocr")
    BY <2>1, JobsTurns DEF JobsType, Held
  <2> QED BY <2>1, <2>2, Turns DEF Usual, FileOps, TextOps, HandleJobImage
<1>6. /\ Fit(HandleSave(p), p, "none", JobsType)
      /\ Fit(Sends(p, "deleteJob", {p.dialog.id}), p, "none", JobsType)
  BY <1>1 DEF HandleSave, Usual, FileOps, TextOps
<1> QED BY <1>3, <1>4, <1>5, <1>6 DEF JobsPresses, When

LEMMA JobsAnswerFits ==
  ASSUME NEW p \in JobsType, NEW r, Asked(r), Brought(r), NEW ok \in BOOLEAN
  PROVE  Fit(JobsAnswer(p, r, ok, r.val), p, Tag(r), JobsType)
<1>1. ASSUME NEW q \in JobsType, q.reading => p.reading /\ r.op # "ocr"
      PROVE  Fit(Shows(q), p, Tag(r), JobsType)
  <2>1. Carries(q, p, Tag(r), "none")
    BY <1>1, TagOf, JobsTurns DEF Held
  <2> QED BY <2>1, Turns
<1>2. ASSUME r.op = "listJobs"
      PROVE  Fit(Shows(IF ok THEN [p EXCEPT !.items = r.val.ids] ELSE p), p, Tag(r), JobsType)
  <2> DEFINE q == [p EXCEPT !.items = r.val.ids]
  <2>1. q \in JobsType /\ q.reading = p.reading
    BY <1>2 DEF JobsType, Brought
  <2> QED BY <1>1, <1>2, <2>1
<1>3. ASSUME r.op = "ocr" PROVE Fit(JobImageRead(p, ok), p, Tag(r), JobsType)
  <2> DEFINE q == [p EXCEPT !.reading = FALSE, !.failed = @ \/ ~ok]
  <2>1. q \in JobsType /\ ~q.reading
    BY DEF JobsType
  <2> QED BY <1>1, <2>1 DEF JobImageRead
<1>4. ASSUME NEW ats
      PROVE  /\ DialogDone(p, ats) \in JobsType
             /\ DialogDone(p, ats).reading = p.reading /\ DialogDone(p, ats).items = p.items
  <2>1. 0 \in Nat
    OBVIOUS
  <2> QED BY <2>1 DEF DialogDone, NoDialog, JobsType
<1>5. ASSUME r.op # "ocr", NEW ids \in SUBSET Jobs PROVE Fit(JobSaved(p, ids, ok), p, Tag(r), JobsType)
  <2> DEFINE d == DialogDone(p, {"edit", "upload"})
             q1 == [d EXCEPT !.items = @ \cup ids, !.failed = FALSE]
             q2 == [p EXCEPT !.failed = TRUE]
  <2>1. d \in JobsType /\ d.reading = p.reading
    BY <1>4
  <2>2. q2 \in JobsType /\ q2.reading = p.reading
    BY DEF JobsType
  <2> HIDE DEF d
  <2>3. q1 \in JobsType /\ q1.reading = p.reading
    BY <2>1 DEF JobsType
  <2> QED BY <1>1, <1>5, <2>2, <2>3 DEF JobSaved, d
<1>6. ASSUME r.op = "deleteJob", NEW j PROVE Fit(JobDeleted(p, j, ok), p, Tag(r), JobsType)
  <2> DEFINE d == DialogDone(p, {"delete"})
             q == [d EXCEPT !.items = IF ok THEN @ \ {j} ELSE @, !.failed = ~ok]
  <2>1. d \in JobsType /\ d.reading = p.reading
    BY <1>4
  <2> HIDE DEF d
  <2>2. q \in JobsType /\ q.reading = p.reading
    BY <2>1 DEF JobsType
  <2> QED BY <1>1, <1>6, <2>2 DEF JobDeleted, d
<1>7. ASSUME r.op # "ocr" PROVE Fit(Nothing(p), p, Tag(r), JobsType)
  BY <1>1, <1>7 DEF Nothing
<1>8. r.op = "createJob" => r.val.ids \in SUBSET Jobs
  BY DEF Brought
<1>9. {} \in SUBSET Jobs
  OBVIOUS
<1> QED BY <1>2, <1>3, <1>5, <1>6, <1>7, <1>8, <1>9 DEF JobsAnswer

-----------------------------------------------------------------------------
(* The import dialog. *)

ImportTurning(q, d, t, op) ==
  /\ Held(q.parsing, d.parsing, {"extract", "parseText", "parseImage"}, t, op)
  /\ Held(q.importing, d.importing, {"confirmImport"}, t, op)
  /\ Held(q.wps.loading, d.wps.loading, {"importList", "importWps"}, t, op)
LEMMA ImportTurns ==
  ASSUME NEW d \in ImportType, NEW q \in ImportType, NEW t, NEW op, ImportTurning(q, d, t, op)
  PROVE  Covers(ImportWaits(q), ImportWaits(d), t, op)
  BY DEF Covers, ImportWaits, ImportType, When, Held, ImportTurning

\* What the dialog does, for its host to do.
ImportFit(e, d, t) ==
  /\ e.page \in ImportType /\ Ended(e, ImportWaits(e.page), ImportWaits(d), t)
  /\ e.go = Stay /\ Fits(e)
LEMMA ImportForms ==
  ASSUME NEW d \in ImportType, NEW q \in ImportType, NEW t
  PROVE  /\ ImportTurning(q, d, t, "none") => ImportFit(Shows(q), d, t)
         /\ \A op, ids : /\ ImportTurning(q, d, t, op)
                         /\ Usual(op)
                         => ImportFit(Sends(q, op, ids), d, t)
         /\ \A op, x : \A ids \in SUBSET Questions :
              ImportTurning(q, d, t, op) /\ op \in TextOps => ImportFit(AsksFor(q, op, ids, x), d, t)
<1>1. \A op : ImportTurning(q, d, t, op) => Covers(ImportWaits(q), ImportWaits(d), t, op)
  BY ImportTurns
<1>2. \A w \in ImportWaits(q) : "none" \notin w
  BY NoneWaits
<1>3. ASSUME ImportTurning(q, d, t, "none") PROVE ImportFit(Shows(q), d, t)
  <2>1. Ended(Shows(q), ImportWaits(q), ImportWaits(d), t)
    BY <1>1, <1>2, <1>3, StepForms
  <2> QED BY <2>1, EffectPage, FitForms DEF ImportFit, Shows
<1>4. ASSUME NEW op, NEW ids, ImportTurning(q, d, t, op), Usual(op)
      PROVE  ImportFit(Sends(q, op, ids), d, t)
  <2>1. Ended(Sends(q, op, ids), ImportWaits(q), ImportWaits(d), t)
    BY <1>1, <1>4, StepForms
  <2>2. Sends(q, op, ids).go = Stay
    BY DEF Sends, Asks
  <2> QED BY <1>4, <2>1, <2>2, EffectPage, FitForms DEF ImportFit
<1>5. ASSUME NEW op, NEW x, NEW ids \in SUBSET Questions, ImportTurning(q, d, t, op), op \in TextOps
      PROVE  ImportFit(AsksFor(q, op, ids, x), d, t)
  <2> DEFINE r == [Req(op, ids) EXCEPT !.known = x]
  <2>1. r.op = op /\ r.ids = ids /\ r.to = 0 /\ r.from = "page"
    BY DEF Req
  <2> HIDE DEF r
  <2>2. Tag(r) = op /\ Asked(r)
    BY <1>5, <2>1, PagesAssumption DEF Tag, Asked, Usual, FileOps, TextOps
  <2>3. Ended(Asks(q, r), ImportWaits(q), ImportWaits(d), t)
    BY <1>1, <1>5, <2>2, StepForms
  <2>4. Asks(q, r).go = Stay
    BY DEF Asks
  <2> QED BY <2>2, <2>3, <2>4, EffectPage, FitForms DEF ImportFit, AsksFor, r
<1> QED BY <1>3, <1>4, <1>5

LEMMA ImportPressFits ==
  ASSUME NEW d \in ImportType, NEW x \in SUBSET Questions, NEW c, NEW e \in ImportPresses(d, x, c)
  PROVE  ImportFit(e, d, "none")
\* Setting no flag, none is set for longer.
<1>1. ASSUME NEW q \in ImportType, q.parsing => d.parsing, q.importing => d.importing,
             q.wps.loading => d.wps.loading
      PROVE  ImportFit(Shows(q), d, "none")
  <2>1. ImportTurning(q, d, "none", "none")
    BY <1>1 DEF ImportTurning, Held
  <2> QED BY <2>1, ImportForms
<1>2. ImportFit(Shows(Reset), d, "none")
  <2>1. Reset \in ImportType /\ ~Reset.parsing /\ ~Reset.importing /\ ~Reset.wps.loading
    BY DEF Reset, ImportType, NoPreview, WpsClosed
  <2> QED BY <1>1, <2>1
<1>3. ASSUME NEW s \in SUBSET Questions, NEW image \in BOOLEAN
      PROVE  ImportFit(HandlePreview(d, s, x), d, "none") /\ ImportFit(HandleFile(d, s, image, x), d, "none")
  <2> DEFINE q == [d EXCEPT !.parsing = TRUE]
  <2>1. q \in ImportType
    BY DEF ImportType
  <2>2. \A op \in {"parseText", "parseImage", "extract"} : ImportTurning(q, d, "none", op)
    BY DEF ImportTurning, Held, ImportType
  <2> QED BY <2>1, <2>2, ImportForms DEF HandlePreview, HandleFile, TextOps
<1>4. ImportFit(OpenWpsPicker(d), d, "none")
  <2> DEFINE q == [d EXCEPT !.wps = [open |-> TRUE, loading |-> TRUE, listed |-> FALSE]]
  <2>1. q \in ImportType
    BY DEF ImportType
  <2>2. ImportTurning(q, d, "none", "importList")
    BY DEF ImportTurning, Held, ImportType
  <2> QED BY <2>1, <2>2, ImportForms DEF OpenWpsPicker, Usual, FileOps, TextOps
<1>5. /\ ImportFit(SearchWps(d), d, "none")
      /\ \A s \in SUBSET Questions : ImportFit(PickWpsFile(d, s, x), d, "none")
  <2> DEFINE q == [d EXCEPT !.wps.loading = TRUE]
  <2>1. q \in ImportType
    BY DEF ImportType
  <2>2. ImportTurning(q, d, "none", "importList") /\ ImportTurning(q, d, "none", "importWps")
    BY DEF ImportTurning, Held, ImportType
  <2> QED BY <2>1, <2>2, ImportForms DEF SearchWps, PickWpsFile, Usual, FileOps, TextOps
<1>6. \A y \in Questions : ImportFit(ToggleSkip(d, y), d, "none") /\ ImportFit(RemovePreviewItem(d, y), d, "none")
  <2> SUFFICES ASSUME NEW y \in Questions
               PROVE  /\ ImportFit(ToggleSkip(d, y), d, "none")
                      /\ ImportFit(RemovePreviewItem(d, y), d, "none")
    OBVIOUS
  <2> DEFINE q1 == [d EXCEPT !.preview.active = IF y \in @ THEN @ \ {y} ELSE @ \cup {y}]
             q2 == [d EXCEPT !.preview.items = @ \ {y}, !.preview.active = @ \ {y}]
  <2>1. q1 \in ImportType /\ q1.parsing = d.parsing /\ q1.importing = d.importing /\ q1.wps = d.wps
    BY DEF ImportType
  <2>2. q2 \in ImportType /\ q2.parsing = d.parsing /\ q2.importing = d.importing /\ q2.wps = d.wps
    BY DEF ImportType
  <2> QED BY <1>1, <2>1, <2>2 DEF ToggleSkip, RemovePreviewItem
<1>7. ImportFit(HandleConfirm(d), d, "none")
  <2> DEFINE q == [d EXCEPT !.importing = TRUE]
  <2>1. q \in ImportType
    BY DEF ImportType
  <2>2. ImportTurning(q, d, "none", "confirmImport")
    BY DEF ImportTurning, Held, ImportType
  <2> QED BY <2>1, <2>2, ImportForms DEF HandleConfirm, Usual, FileOps, TextOps
<1>8. ImportFit(Shows([d EXCEPT !.filled = TRUE]), d, "none")
  <2> DEFINE q == [d EXCEPT !.filled = TRUE]
  <2>1. q \in ImportType /\ q.parsing = d.parsing /\ q.importing = d.importing /\ q.wps = d.wps
    BY DEF ImportType
  <2> QED BY <1>1, <2>1
<1>9. d.preview.items \subseteq Questions
  BY DEF ImportType
<1>10. CASE e \in PreviewDialog(d)
  BY <1>2, <1>6, <1>7, <1>9, <1>10 DEF PreviewDialog, When
<1>11. CASE e \in WpsDialog(d, x)
  BY <1>2, <1>5, <1>11 DEF WpsDialog, When
<1>12. CASE e \in ImportForm(d, x, c)
  <2>1. \/ e \in {Shows(Reset), OpenWpsPicker(d), Shows([d EXCEPT !.filled = TRUE])}
        \/ \E s \in SUBSET Questions : e = HandlePreview(d, s, x)
        \/ \E s \in SUBSET Questions, image \in BOOLEAN : e = HandleFile(d, s, image, x)
    BY <1>12 DEF ImportForm, When
  <2> QED BY <1>2, <1>3, <1>4, <1>8, <2>1
<1> QED BY <1>10, <1>11, <1>12 DEF ImportPresses

LEMMA ImportAnswerFits ==
  ASSUME NEW d \in ImportType, NEW r, Asked(r), r.op \in ImportOps, NEW ok \in BOOLEAN
  PROVE  ImportFit(ImportAnswer(d, r, ok), d, Tag(r))
<1> DEFINE s == r.ids
           x == r.known
<1>1. Tag(r) = r.op
  BY TagOf DEF ImportOps
<1>2. r.op # "importList" => s \subseteq Questions
  BY DEF Asked, TextOps, ImportOps
<1>3. ASSUME NEW q \in ImportType,
             q.parsing => d.parsing /\ r.op \notin {"extract", "parseText", "parseImage"},
             q.importing => d.importing,
             q.wps.loading => d.wps.loading /\ r.op \notin {"importList", "importWps"}
      PROVE  ImportFit(Shows(q), d, Tag(r))
  <2>1. ImportTurning(q, d, Tag(r), "none")
    BY <1>1, <1>3 DEF ImportTurning, Held, ImportOps
  <2> QED BY <2>1, ImportForms
<1>4. ASSUME NEW q \in ImportType, NEW y \in SUBSET Questions
      PROVE  LET b == BuildPreview(q, y, x) IN
             /\ b \in ImportType /\ b.parsing = q.parsing /\ b.importing = q.importing /\ b.wps = q.wps
  BY DEF BuildPreview, ImportType
<1> DEFINE done == [d EXCEPT !.parsing = FALSE]
<1>5. done \in ImportType /\ ~done.parsing /\ done.importing = d.importing /\ done.wps = d.wps
  BY DEF ImportType
<1> HIDE DEF done
<1>6. ASSUME r.op \in {"extract", "parseText", "parseImage"}, NEW y \in SUBSET Questions
      PROVE  ImportFit(TextParsed(d, y, x), d, Tag(r))
  <2>1. TextParsed(d, y, x) = Shows(IF y = {} THEN done ELSE BuildPreview(done, y, x))
    BY DEF TextParsed, done
  <2>2. ImportFit(Shows(done), d, Tag(r)) /\ ImportFit(Shows(BuildPreview(done, y, x)), d, Tag(r))
    BY <1>3, <1>4, <1>5, <1>6
  <2> QED BY <2>1, <2>2
<1>7. ASSUME r.op = "extract" PROVE ImportFit(Extracted(d, s, x, ok), d, Tag(r))
  <2>1. ImportTurning(d, d, Tag(r), "parseText")
    BY <1>1, <1>7 DEF ImportTurning, Held
  <2>2. ImportFit(AsksFor(d, "parseText", s, x), d, Tag(r))
    BY <1>2, <1>7, <2>1, ImportForms DEF FileOps, TextOps
  <2>3. ImportFit(Shows(done), d, Tag(r))
    BY <1>3, <1>5, <1>7
  <2> QED BY <2>2, <2>3 DEF Extracted, done
<1>8. ASSUME r.op = "parseImage" PROVE ImportFit(ImageParsed(d, s, x, ok), d, Tag(r))
  BY <1>2, <1>6, <1>8 DEF ImageParsed
<1>9. ASSUME r.op = "importList" PROVE ImportFit(WpsListed(d, ok), d, Tag(r))
  <2> DEFINE q == [d EXCEPT !.wps.loading = FALSE, !.wps.listed = ok]
  <2>1. q \in ImportType /\ q.parsing = d.parsing /\ q.importing = d.importing /\ ~q.wps.loading
    BY DEF ImportType
  <2> QED BY <1>3, <1>9, <2>1 DEF WpsListed
<1>10. ASSUME r.op = "importWps" PROVE ImportFit(WpsPicked(d, s, x, ok), d, Tag(r))
  <2> DEFINE q1 == [d EXCEPT !.wps.open = FALSE, !.wps.loading = FALSE]
             q2 == [d EXCEPT !.wps.loading = FALSE, !.wps.listed = FALSE]
  <2>1. /\ q1 \in ImportType /\ q1.parsing = d.parsing /\ q1.importing = d.importing /\ ~q1.wps.loading
        /\ q2 \in ImportType /\ q2.parsing = d.parsing /\ q2.importing = d.importing /\ ~q2.wps.loading
    BY DEF ImportType
  <2> HIDE DEF q1, q2
  <2>2. ImportFit(Shows(BuildPreview(q1, s, x)), d, Tag(r)) /\ ImportFit(Shows(q2), d, Tag(r))
    BY <1>2, <1>3, <1>4, <1>10, <2>1
  <2> QED BY <2>2 DEF WpsPicked, q1, q2
<1> QED BY <1>2, <1>6, <1>7, <1>8, <1>9, <1>10 DEF ImportAnswer, ImportOps

LEMMA ConfirmedFits ==
  ASSUME NEW d \in ImportType, NEW ok \in BOOLEAN
  PROVE  LET q == Confirmed(d, ok) IN q \in ImportType /\ \A op : ImportTurning(q, d, "confirmImport", op)
<1>1. Reset \in ImportType /\ ~Reset.parsing /\ ~Reset.importing /\ ~Reset.wps.loading
  BY DEF Reset, ImportType, NoPreview, WpsClosed
<1> DEFINE q == [d EXCEPT !.importing = FALSE]
<1>2. q \in ImportType /\ q.parsing = d.parsing /\ ~q.importing /\ q.wps = d.wps
  BY DEF ImportType
<1> QED BY <1>1, <1>2 DEF Confirmed, ImportTurning, Held

-----------------------------------------------------------------------------
(* The question bank. *)

BankTurning(q, p, t, op) ==
  /\ Held(q.loading, p.loading, Lists, t, op)
  /\ Held(q.saving, p.saving, {"patch", "saving"}, t, op)
  /\ Held(q.deleting, p.deleting, {"deleteQuestions", "deleting"}, t, op)
  /\ Covers(ImportWaits(q.import), ImportWaits(p.import), t, op)
LEMMA BankTurns ==
  ASSUME NEW p \in BankType, NEW q \in BankType, NEW t, NEW op, BankTurning(q, p, t, op)
  PROVE  Carries(q, p, t, op)
<1>1. p.kind = "bank" /\ q.kind = "bank"
  BY DEF BankType
<1>2. \A w \in ImportWaits(q.import) : op \in w \/ (w \in ImportWaits(p.import) /\ t \notin w)
  BY DEF BankTurning, Covers
<1>3. ASSUME NEW w \in Sharp(q), w \notin ImportWaits(q.import)
      PROVE  op \in w \/ (w \in Sharp(p) /\ t \notin w)
  <2>1. \/ q.loading /\ w = Lists
        \/ q.saving /\ w = {"patch", "saving"}
        \/ q.deleting /\ w = {"deleteQuestions", "deleting"}
    BY <1>1, <1>3 DEF Sharp, When
  <2> QED BY <1>1, <2>1 DEF BankTurning, Held, Sharp, When
<1>4. ImportWaits(p.import) \subseteq Sharp(p)
  BY <1>1 DEF Sharp
<1> QED BY <1>2, <1>3, <1>4 DEF Carries, Covers

\* What has nothing to do with the import leaves what it waits for.
LEMMA ImportRests ==
  ASSUME NEW d, NEW t, t \notin ImportOps \cup {"confirmImport"}
  PROVE  \A op : Covers(ImportWaits(d), ImportWaits(d), t, op)
<1>1. \A w \in ImportWaits(d) : w \subseteq ImportOps \cup {"confirmImport"}
  BY DEF ImportWaits, When, ImportOps
<1> QED BY <1>1 DEF Covers

LEMMA LoadBankFits ==
  ASSUME NEW p \in BankType, NEW q \in BankType, NEW t, NEW after \in {"page", "saving", "deleting"},
         NEW op, op = IF after = "page" THEN "listQuestions" ELSE after,
         Held(q.saving, p.saving, {"patch", "saving"}, t, op),
         Held(q.deleting, p.deleting, {"deleteQuestions", "deleting"}, t, op),
         Covers(ImportWaits(q.import), ImportWaits(p.import), t, op)
  PROVE  Fit(LoadBank(q, after), p, t, BankType)
<1> DEFINE l == [q EXCEPT !.loading = TRUE, !.failed = FALSE]
           r == [Req("listQuestions", {}) EXCEPT !.from = after]
<1>1. /\ l \in BankType /\ l.loading /\ l.saving = q.saving /\ l.deleting = q.deleting
      /\ l.import = q.import
  BY DEF BankType
<1>2. r.op = "listQuestions" /\ r.from = after /\ r.to = 0
  BY DEF Req
<1> HIDE DEF l, r
<1>3. Tag(r) = op /\ Asked(r)
  BY <1>2, PagesAssumption DEF Tag, Asked, Usual, FileOps, TextOps
<1>4. Carries(l, p, t, op)
  BY <1>1, BankTurns DEF BankTurning, Held, Lists
<1> QED BY <1>1, <1>3, <1>4, Turns DEF LoadBank, l, r

\* What the dialog does, the page does.
LEMMA BankImportFits ==
  ASSUME NEW p \in BankType, NEW e, Calm(e), NEW t \in ImportOps \cup {"none"},
         ImportFit(e, p.import, t)
  PROVE  Fit(InImport(p, e), p, t, BankType)
<1> DEFINE q == [p EXCEPT !.import = e.page]
           h == InImport(p, e)
<1>1. q \in BankType
  BY DEF BankType, ImportFit
<1>2. /\ q.kind = "bank" /\ p.kind = "bank" /\ q.loading = p.loading /\ q.saving = p.saving
      /\ q.deleting = p.deleting /\ q.import = e.page
  BY DEF BankType
<1> HIDE DEF q
<1>3. h.page = q /\ h.send = e.send /\ h.go = e.go
  BY DEF InImport, Then, Calm, q
<1> HIDE DEF h
<1>4. ASSUME NEW w \in Sharp(q), w \notin ImportWaits(e.page) PROVE w \in Sharp(p) /\ t \notin w
  BY <1>2, <1>4 DEF Sharp, When, ImportOps, Lists
<1>5. ImportWaits(p.import) \subseteq Sharp(p)
  BY <1>2 DEF Sharp
<1>6. \A w \in Sharp(q) : Ends(e.send, w) \/ (w \in Sharp(p) /\ t \notin w)
  BY <1>4, <1>5 DEF ImportFit, Ended
<1> QED BY <1>1, <1>3, <1>6 DEF Fit, Turned, Ended, Fits, ImportFit, h

LEMMA BankPressFits ==
  ASSUME NEW p \in BankType, NEW c, NEW e \in BankPresses(p, c) PROVE Fit(e, p, "none", BankType)
<1>1. \A op : Covers(ImportWaits(p.import), ImportWaits(p.import), "none", op)
  BY ImportRests DEF ImportOps
<1>2. ASSUME NEW q \in BankType, q.loading = p.loading, q.saving = p.saving,
             q.deleting = p.deleting, ImportWaits(q.import) = ImportWaits(p.import)
      PROVE  Fit(Shows(q), p, "none", BankType)
  <2>1. BankTurning(q, p, "none", "none")
    BY <1>1, <1>2 DEF BankTurning, Held
  <2> QED BY <2>1, BankTurns, Turns
<1>3. ASSUME NEW x \in BankType, x = [p EXCEPT !.saving = TRUE, !.failed = FALSE], NEW r, Asked(r),
             r.op = "patch"
      PROVE  Fit(Asks(x, r), p, "none", BankType)
  <2>1. BankTurning(x, p, "none", "patch")
    BY <1>1, <1>3 DEF BankTurning, Held, BankType, Lists
  <2>2. Tag(r) = "patch"
    BY <1>3 DEF Tag
  <2> QED BY <1>3, <2>1, <2>2, BankTurns, Turns
<1> DEFINE s == [p EXCEPT !.saving = TRUE, !.failed = FALSE]
<1>4. s \in BankType
  BY DEF BankType
<1>5. ASSUME NEW b \in 1..Banks PROVE Fit(HandleRenameBank(p, b), p, "none", BankType)
  <2> DEFINE q == [p EXCEPT !.renaming = 0]
             r == [Req("patch", InBank(p, p.renaming)) EXCEPT !.to = b, !.from = "rename"]
  <2>1. /\ q \in BankType /\ q.loading = p.loading /\ q.saving = p.saving
        /\ q.deleting = p.deleting /\ q.import = p.import
    BY PagesAssumption DEF BankType
  <2>2. r.op = "patch" /\ r.to = b
    BY DEF Req
  <2> HIDE DEF r, q
  <2>3. Asked(r)
    BY <2>2, PagesAssumption DEF Asked, Usual, FileOps, TextOps
  <2>4. Fit(Shows(q), p, "none", BankType)
    BY <1>2, <2>1
  <2>5. Fit(Asks(s, r), p, "none", BankType)
    BY <1>3, <1>4, <2>2, <2>3
  <2> QED BY <2>4, <2>5 DEF HandleRenameBank, q, r
<1>6. ASSUME NEW ids, NEW from PROVE Fit(HandleDelete(p, ids, from), p, "none", BankType)
  <2> DEFINE q == [p EXCEPT !.deleting = TRUE, !.failed = FALSE]
             r == [Req("deleteQuestions", ids) EXCEPT !.from = from]
  <2>1. /\ q \in BankType /\ q.loading = p.loading /\ q.saving = p.saving
        /\ q.deleting /\ q.import = p.import
    BY DEF BankType
  <2>2. r.op = "deleteQuestions" /\ r.to = 0
    BY DEF Req
  <2> HIDE DEF r, q
  <2>3. Asked(r) /\ Tag(r) = "deleteQuestions"
    BY <2>2, PagesAssumption DEF Asked, Usual, FileOps, TextOps, Tag
  <2>4. BankTurning(q, p, "none", "deleteQuestions")
    BY <1>1, <2>1 DEF BankTurning, Held, Lists
  <2> QED BY <2>1, <2>3, <2>4, BankTurns, Turns DEF HandleDelete, q, r
<1>7. Fit(HandleSaveEdit(p), p, "none", BankType)
  <2> DEFINE ids == IF p.dialog.at = "edit" THEN {p.dialog.id} ELSE {}
             r == [Req("patch", ids) EXCEPT !.from = "edit"]
  <2>1. r.op = "patch" /\ r.to = 0
    BY DEF Req
  <2> HIDE DEF r
  <2>2. Asked(r)
    BY <2>1, PagesAssumption DEF Asked, Usual, FileOps, TextOps
  <2>3. HandleSaveEdit(p) = Asks(s, r)
    BY DEF HandleSaveEdit, r
  <2> HIDE DEF s
  <2>4. Fit(Asks(s, r), p, "none", BankType)
    BY <1>3, <1>4, <2>1, <2>2 DEF s
  <2> QED BY <2>3, <2>4
<1>8. ASSUME NEW at \in {"none", "edit", "add", "delete", "deleteBank"}, NEW id \in Nat
      PROVE  Fit(Shows([p EXCEPT !.dialog = [at |-> at, id |-> id]]), p, "none", BankType)
  <2> DEFINE q == [p EXCEPT !.dialog = [at |-> at, id |-> id]]
  <2>1. /\ q \in BankType /\ q.loading = p.loading /\ q.saving = p.saving
        /\ q.deleting = p.deleting /\ q.import = p.import
    BY DEF BankType
  <2> QED BY <1>2, <2>1
<1>9. /\ Fit(Dismiss(p), p, "none", BankType)
      /\ \A at \in {"edit", "add", "delete", "deleteBank"} : \A id \in Nat :
           Fit(Opened(p, at, id), p, "none", BankType)
  <2>1. 0 \in Nat
    OBVIOUS
  <2> QED BY <1>8, <2>1 DEF Dismiss, NoDialog, Opened
<1>10. ASSUME NEW b \in 0..Banks PROVE Fit(Shows([p EXCEPT !.renaming = b]), p, "none", BankType)
  <2> DEFINE q == [p EXCEPT !.renaming = b]
  <2>1. /\ q \in BankType /\ q.loading = p.loading /\ q.saving = p.saving
        /\ q.deleting = p.deleting /\ q.import = p.import
    BY DEF BankType
  <2> QED BY <1>2, <2>1
<1>11. ASSUME NEW x \in Questions PROVE Fit(ToggleSelect(p, x), p, "none", BankType)
  <2> DEFINE q == [p EXCEPT !.selected = IF x \in @ THEN @ \ {x} ELSE @ \cup {x}]
  <2>1. /\ q \in BankType /\ q.loading = p.loading /\ q.saving = p.saving
        /\ q.deleting = p.deleting /\ q.import = p.import
    BY DEF BankType
  <2> QED BY <1>2, <2>1 DEF ToggleSelect
<1>12. Fit(Shows([p EXCEPT !.import.open = TRUE]), p, "none", BankType)
  <2> DEFINE q == [p EXCEPT !.import.open = TRUE]
  <2>1. /\ q \in BankType /\ q.loading = p.loading /\ q.saving = p.saving
        /\ q.deleting = p.deleting
    BY DEF BankType, ImportType
  <2>2. ImportWaits(q.import) = ImportWaits(p.import)
    BY DEF BankType, ImportType, ImportWaits, When
  <2> QED BY <1>2, <2>1, <2>2
<1>13. Existing(p.shown) \subseteq Questions /\ \A x \in Existing(p.shown) : p.shown[x] \in 0..Banks
  BY DEF Existing, BankType
<1>14. Questions \subseteq Nat /\ 0..Banks \subseteq Nat /\ 0 \in 0..Banks
  BY PagesAssumption
<1>15. ASSUME e \in BankList(p, c) PROVE Fit(e, p, "none", BankType)
  <2>1. \/ \E at \in {"edit", "delete"}, x \in Existing(p.shown) : e = Opened(p, at, x)
        \/ \E at \in {"add", "deleteBank"}, x \in Existing(p.shown) : e = Opened(p, at, p.shown[x])
        \/ \E x \in Existing(p.shown) : e = Shows([p EXCEPT !.renaming = p.shown[x]])
        \/ \E x \in Existing(p.shown) : e = ToggleSelect(p, x)
        \/ \E b \in 1..Banks : e = HandleRenameBank(p, b)
        \/ e = Shows([p EXCEPT !.renaming = 0])
    <3> DEFINE S == Existing(p.shown)
    <3> HIDE DEF S
    <3>1. \/ e \in {Opened(p, at, x) : at \in {"edit", "delete"} \cap c, x \in S}
          \/ e \in {Opened(p, at, p.shown[x]) : at \in {"add", "deleteBank"} \cap c, x \in S}
          \/ e \in {Shows([p EXCEPT !.renaming = p.shown[x]]) : x \in S}
          \/ e \in {ToggleSelect(p, x) : x \in S}
          \/ e \in {HandleRenameBank(p, b) : b \in 1..Banks}
          \/ e = Shows([p EXCEPT !.renaming = 0])
      BY <1>15 DEF BankList, When, S
    <3> QED BY <3>1 DEF S
  <2>2. ASSUME NEW at \in {"edit", "delete"}, NEW x \in Existing(p.shown)
        PROVE  Fit(Opened(p, at, x), p, "none", BankType)
    BY <1>9, <1>13, <1>14
  <2>3. ASSUME NEW at \in {"add", "deleteBank"}, NEW x \in Existing(p.shown)
        PROVE  Fit(Opened(p, at, p.shown[x]), p, "none", BankType)
    BY <1>9, <1>13, <1>14
  <2> QED BY <1>5, <1>10, <1>11, <1>13, <1>14, <2>1, <2>2, <2>3
<1>16. ASSUME e \in BankTools(p, c) PROVE Fit(e, p, "none", BankType)
  BY <1>6, <1>12, <1>15, <1>16 DEF BankTools, When
<1>17. ASSUME e \in BankDialogs(p) PROVE Fit(e, p, "none", BankType)
  BY <1>6, <1>7, <1>9, <1>17 DEF BankDialogs, When
<1>18. ASSUME NEW o \in ImportPresses(p.import, Existing(p.shown), c)
       PROVE  Fit(InImport(p, o), p, "none", BankType)
  <2>1. p.import \in ImportType
    BY DEF BankType
  <2>2. ImportFit(o, p.import, "none") /\ Calm(o)
    BY <1>13, <2>1, ImportPressFits, ImportCalm
  <2> QED BY <2>2, BankImportFits
<1> QED BY <1>16, <1>17, <1>18 DEF BankPresses

LEMMA BankAnswerFits ==
  ASSUME NEW p \in BankType, NEW r, Asked(r), Brought(r), NEW ok \in BOOLEAN
  PROVE  Fit(BankAnswer(p, r, ok, r.val), p, Tag(r), BankType)
<1> DEFINE t == Tag(r)
<1>1. r.op # "listQuestions" => t = r.op
  BY DEF Tag
<1>2. r.op \notin ImportOps \cup {"confirmImport"} =>
        \A op : Covers(ImportWaits(p.import), ImportWaits(p.import), t, op)
  BY TagOf, ImportRests DEF ImportOps
<1> HIDE DEF t
\* The flags a page shows, and which answer has cleared which.
<1>3. ASSUME NEW q \in BankType, r.op \notin ImportOps \cup {"confirmImport"}, q.import = p.import,
             q.loading => p.loading /\ r.op # "listQuestions",
             q.saving => p.saving /\ t \notin {"patch", "saving"},
             q.deleting => p.deleting /\ t \notin {"deleteQuestions", "deleting"}
      PROVE  Fit(Shows(q), p, t, BankType)
  <2>1. q.loading => t \notin {"listQuestions", "saving", "deleting"}
    BY <1>1, <1>3 DEF Asked
  <2>2. BankTurning(q, p, t, "none")
    BY <1>2, <1>3, <2>1 DEF BankTurning, Held, Lists
  <2> QED BY <2>2, BankTurns, Turns
<1>4. ASSUME r.op = "listQuestions"
      PROVE  Fit(BankListed(p, r.from, r.val.bank, ok), p, t, BankType)
  <2> DEFINE l == [p EXCEPT !.loading = FALSE, !.failed = @ \/ ~ok,
                            !.shown = IF ok THEN r.val.bank ELSE @]
             q1 == [l EXCEPT !.saving = FALSE]
             q2 == [l EXCEPT !.deleting = FALSE]
  <2>1. /\ l \in BankType /\ ~l.loading /\ l.saving = p.saving /\ l.deleting = p.deleting
        /\ l.import = p.import
    BY DEF BankType, Brought
  <2> HIDE DEF l
  <2>2. /\ q1 \in BankType /\ ~q1.loading /\ ~q1.saving /\ q1.deleting = p.deleting
        /\ q1.import = p.import
    BY <2>1 DEF BankType
  <2>3. /\ q2 \in BankType /\ ~q2.loading /\ q2.saving = p.saving /\ ~q2.deleting
        /\ q2.import = p.import
    BY <2>1 DEF BankType
  <2> HIDE DEF q1, q2
  <2>4. /\ r.from \in {"page", "saving", "deleting"}
        /\ t = IF r.from = "page" THEN "listQuestions" ELSE r.from
    BY <1>4 DEF Asked, t, Tag
  <2>5. CASE r.from = "saving"
    BY <1>3, <1>4, <2>2, <2>4, <2>5 DEF BankListed, BankOver, q1, l, ImportOps
  <2>6. CASE r.from = "deleting"
    BY <1>3, <1>4, <2>3, <2>4, <2>6 DEF BankListed, BankOver, q2, l, ImportOps
  <2>7. CASE r.from = "page"
    BY <1>3, <1>4, <2>1, <2>4, <2>7 DEF BankListed, BankOver, l, ImportOps
  <2> QED BY <2>4, <2>5, <2>6, <2>7
\* What is read back after a change.
<1>5. ASSUME NEW q \in BankType, r.op \notin ImportOps \cup {"confirmImport"}, q.import = p.import,
             q.saving = p.saving, q.deleting = p.deleting
      PROVE  /\ t \in {"patch"} => Fit(LoadBank(q, "saving"), p, t, BankType)
             /\ t \in {"deleteQuestions"} => Fit(LoadBank(q, "deleting"), p, t, BankType)
  BY <1>2, <1>5, LoadBankFits DEF Held
<1>6. ASSUME NEW ats
      PROVE  LET q == DialogDone(p, ats) IN
             /\ q \in BankType /\ q.import = p.import /\ q.saving = p.saving
             /\ q.deleting = p.deleting /\ q.loading = p.loading /\ q.selected = p.selected
  <2>1. NoDialog \in [at : {"none", "edit", "add", "delete", "deleteBank"}, id : Nat]
    BY DEF NoDialog
  <2> QED BY <2>1 DEF DialogDone, BankType
<1>7. ASSUME r.op = "deleteQuestions"
      PROVE  Fit(BankDeleted(p, r.ids, r.from, ok), p, t, BankType)
  <2> DEFINE q0 == [p EXCEPT !.failed = TRUE, !.deleting = FALSE]
             q1 == [p EXCEPT !.selected = {}]
             d2 == DialogDone(p, {"delete"})
             q2 == [d2 EXCEPT !.selected = @ \ r.ids]
             d3 == DialogDone(p, {"deleteBank"})
             q3 == [d3 EXCEPT !.selected = {}]
  <2>1. t = "deleteQuestions" /\ r.op \notin ImportOps \cup {"confirmImport"}
    BY <1>1, <1>7 DEF ImportOps
  <2>2. /\ q0 \in BankType /\ q0.loading = p.loading /\ q0.saving = p.saving /\ ~q0.deleting
        /\ q0.import = p.import
    BY DEF BankType
  <2>3. q1 \in BankType /\ q1.import = p.import /\ q1.saving = p.saving /\ q1.deleting = p.deleting
    BY DEF BankType
  <2> HIDE DEF d2, d3
  <2>4. q2 \in BankType /\ q2.import = p.import /\ q2.saving = p.saving /\ q2.deleting = p.deleting
    <3>1. d2 \in BankType /\ d2.import = p.import /\ d2.saving = p.saving /\ d2.deleting = p.deleting
      BY <1>6 DEF d2
    <3> QED BY <3>1 DEF BankType
  <2>5. q3 \in BankType /\ q3.import = p.import /\ q3.saving = p.saving /\ q3.deleting = p.deleting
    <3>1. d3 \in BankType /\ d3.import = p.import /\ d3.saving = p.saving /\ d3.deleting = p.deleting
      BY <1>6 DEF d3
    <3> QED BY <3>1 DEF BankType
  <2> HIDE DEF q0, q1, q2, q3
  <2>6. /\ Fit(LoadBank(q1, "deleting"), p, t, BankType) /\ Fit(LoadBank(q2, "deleting"), p, t, BankType)
        /\ Fit(LoadBank(q3, "deleting"), p, t, BankType)
    BY <1>5, <2>1, <2>3, <2>4, <2>5
  <2>7. Fit(Shows(q0), p, t, BankType)
    BY <1>3, <1>7, <2>1, <2>2
  <2> QED BY <2>6, <2>7 DEF BankDeleted, q0, q1, q2, q3, d2, d3
<1>8. ASSUME r.op = "patch" PROVE Fit(BankPatched(p, r, ok), p, t, BankType)
  <2> DEFINE rest == r.ids \ {Next1(r.ids)}
             q0 == [p EXCEPT !.failed = TRUE, !.saving = FALSE]
             q1 == DialogDone(p, {"edit", "add"})
             q2 == [p EXCEPT !.renaming = 0]
             m == [Req("patch", rest) EXCEPT !.to = r.to, !.from = "rename"]
  <2>1. t = "patch" /\ r.op \notin ImportOps \cup {"confirmImport"}
    BY <1>1, <1>8 DEF ImportOps
  <2>2. /\ q0 \in BankType /\ q0.loading = p.loading /\ ~q0.saving /\ q0.deleting = p.deleting
        /\ q0.import = p.import
    BY DEF BankType
  <2>3. q1 \in BankType /\ q1.import = p.import /\ q1.saving = p.saving /\ q1.deleting = p.deleting
    BY <1>6
  <2>4. q2 \in BankType /\ q2.import = p.import /\ q2.saving = p.saving /\ q2.deleting = p.deleting
    BY PagesAssumption DEF BankType
  <2>5. m.op = "patch" /\ m.to = r.to
    BY DEF Req
  <2> HIDE DEF q0, q1, q2, m, rest
  <2>6. Asked(m) /\ Tag(m) = "patch"
    BY <2>5 DEF Asked, Tag, FileOps, TextOps
  <2>7. BankTurning(p, p, t, "patch")
    BY <1>2, <2>1 DEF BankTurning, Held, Lists
  <2>8. Fit(Asks(p, m), p, t, BankType)
    BY <2>6, <2>7, BankTurns, Turns
  <2>9. Fit(LoadBank(q1, "saving"), p, t, BankType) /\ Fit(LoadBank(q2, "saving"), p, t, BankType)
    BY <1>5, <2>1, <2>3, <2>4
  <2>10. Fit(Shows(q0), p, t, BankType)
    BY <1>3, <1>8, <2>1, <2>2
  <2> QED BY <2>8, <2>9, <2>10 DEF BankPatched, q0, q1, q2, m, rest
<1>9. ASSUME r.op = "confirmImport" PROVE Fit(ImportedForBank(p, ok), p, t, BankType)
  <2> DEFINE d == Confirmed(p.import, ok)
             q == [p EXCEPT !.import = d]
  <2>1. t = "confirmImport" /\ p.import \in ImportType
    BY <1>1, <1>9 DEF BankType
  <2>2. d \in ImportType /\ \A op : ImportTurning(d, p.import, "confirmImport", op)
    BY <2>1, ConfirmedFits
  <2>3. \A op : Covers(ImportWaits(d), ImportWaits(p.import), t, op)
    BY <2>1, <2>2, ImportTurns
  <2> HIDE DEF d
  <2>4. /\ q \in BankType /\ q.loading = p.loading /\ q.saving = p.saving
        /\ q.deleting = p.deleting /\ q.import = d
    BY <2>2 DEF BankType
  <2> HIDE DEF q
  <2>5. Fit(LoadBank(q, "page"), p, t, BankType)
    BY <2>1, <2>3, <2>4, LoadBankFits DEF Held
  <2>6. BankTurning(q, p, t, "none")
    BY <2>1, <2>3, <2>4 DEF BankTurning, Held, Lists
  <2>7. Fit(Shows(q), p, t, BankType)
    BY <2>4, <2>6, BankTurns, Turns
  <2>8. ImportedForBank(p, ok) = IF ok THEN LoadBank(q, "page") ELSE Shows(q)
    BY DEF ImportedForBank, q, d
  <2> QED BY <2>5, <2>7, <2>8
<1>10. ASSUME r.op \in ImportOps PROVE Fit(InImport(p, ImportAnswer(p.import, r, ok)), p, t, BankType)
  <2>1. p.import \in ImportType /\ t \in ImportOps \cup {"none"}
    BY <1>1, <1>10 DEF BankType, ImportOps
  <2>2. ImportFit(ImportAnswer(p.import, r, ok), p.import, t)
    BY <1>10, <2>1, ImportAnswerFits DEF t
  <2> QED BY <2>1, <2>2, ImportAnswerCalm, BankImportFits
<1>11. ASSUME r.op \notin ImportOps \cup {"confirmImport", "patch", "deleteQuestions", "listQuestions"}
       PROVE  Fit(Nothing(p), p, t, BankType)
  <2>1. t \notin {"patch", "saving", "deleteQuestions", "deleting"}
    BY <1>1, <1>11 DEF Asked
  <2> QED BY <1>3, <1>11, <2>1 DEF Nothing
<1> QED BY <1>4, <1>7, <1>8, <1>9, <1>10, <1>11 DEF BankAnswer, t

-----------------------------------------------------------------------------
(* The preparation page. *)

PrepHolds(q, p, t, op) ==
  /\ Held(q.phase # "none", p.phase # "none", {"createInterview", "startInterview"}, t, op)
  /\ Held(q.parsing, p.parsing, {"parse", "upload", "parseCloud", "uploadCloud"}, t, op)
  /\ Held(q.library.loading, p.library.loading, {"listResumes"}, t, op)
  /\ Held(q.cloud.loading, p.cloud.loading, {"listCloud"}, t, op)
  /\ Held(q.cloud.importing, p.cloud.importing, {"importCloud", "parseCloud", "uploadCloud"}, t, op)
  /\ Held(q.ocr, p.ocr, {"ocr"}, t, op)
  /\ Held(q.bankLoading, p.bankLoading, Lists, t, op)
  /\ Held(q.github.loading, p.github.loading, {"analyze", "storeProject"}, t, op)
PrepTurning(q, p, t, op) ==
  /\ PrepHolds(q, p, t, op)
  /\ Covers(ImportWaits(q.import), ImportWaits(p.import), t, op)
LEMMA PrepTurns ==
  ASSUME NEW p \in PrepType, NEW q \in PrepType, NEW t, NEW op, PrepTurning(q, p, t, op)
  PROVE  Carries(q, p, t, op)
<1>1. p.kind = "prep" /\ q.kind = "prep"
  BY DEF PrepType
<1>2. \A w \in ImportWaits(q.import) : op \in w \/ (w \in ImportWaits(p.import) /\ t \notin w)
  BY DEF PrepTurning, Covers
<1>3. ASSUME NEW w \in Sharp(q), w \notin ImportWaits(q.import)
      PROVE  op \in w \/ (w \in Sharp(p) /\ t \notin w)
  <2>1. \/ q.phase # "none" /\ w = {"createInterview", "startInterview"}
        \/ q.parsing /\ w = {"parse", "upload", "parseCloud", "uploadCloud"}
        \/ q.library.loading /\ w = {"listResumes"}
        \/ q.cloud.loading /\ w = {"listCloud"}
        \/ q.cloud.importing /\ w = {"importCloud", "parseCloud", "uploadCloud"}
        \/ q.ocr /\ w = {"ocr"}
        \/ q.bankLoading /\ w = Lists
        \/ q.github.loading /\ w = {"analyze", "storeProject"}
    BY <1>1, <1>3 DEF Sharp, When
  <2> QED BY <1>1, <2>1 DEF PrepTurning, PrepHolds, Held, Sharp, When
<1>4. ImportWaits(p.import) \subseteq Sharp(p)
  BY <1>1 DEF Sharp
<1> QED BY <1>2, <1>3, <1>4 DEF Carries, Covers

\* Every flag but the one of "w" is as it was, or cleared.
Rests(q, p, w) ==
  /\ w # "phase" => (q.phase # "none" => p.phase # "none")
  /\ w # "parsing" => (q.parsing => p.parsing)
  /\ w # "library" => (q.library.loading => p.library.loading)
  /\ w # "cloud" => (q.cloud.loading => p.cloud.loading)
  /\ w # "importing" => (q.cloud.importing => p.cloud.importing)
  /\ w # "ocr" => (q.ocr => p.ocr)
  /\ w # "bank" => (q.bankLoading => p.bankLoading)
  /\ w # "github" => (q.github.loading => p.github.loading)
  /\ q.import = p.import
Alone == [phase |-> {"createInterview", "startInterview"},
          parsing |-> {"parse", "upload", "parseCloud", "uploadCloud"},
          library |-> {"listResumes"}, cloud |-> {"listCloud"},
          importing |-> {"importCloud", "parseCloud", "uploadCloud"}, ocr |-> {"ocr"},
          bank |-> Lists, github |-> {"analyze", "storeProject"}]
LEMMA PrepSends ==
  ASSUME NEW p \in PrepType, NEW q \in PrepType, NEW w \in DOMAIN Alone, NEW op \in Alone[w],
         Rests(q, p, w)
  PROVE  Carries(q, p, "none", op)
<1>1. \A o : Covers(ImportWaits(p.import), ImportWaits(p.import), "none", o)
  BY ImportRests DEF ImportOps
<1>2. PrepTurning(q, p, "none", op)
  BY <1>1 DEF PrepTurning, PrepHolds, Held, Rests, Alone, Lists
<1> QED BY <1>2, PrepTurns
LEMMA PrepRests ==
  ASSUME NEW p \in PrepType, NEW q \in PrepType, Rests(q, p, "none")
  PROVE  /\ Fit(Shows(q), p, "none", PrepType)
         /\ \A to : RouteOK(to) => Fit(Goes(q, to), p, "none", PrepType)
         /\ \A op, ids : Usual(op) => Fit(Sends(q, op, ids), p, "none", PrepType)
<1>1. \A o : Covers(ImportWaits(p.import), ImportWaits(p.import), "none", o)
  BY ImportRests DEF ImportOps
<1>2. \A op : PrepTurning(q, p, "none", op)
  BY <1>1 DEF PrepTurning, PrepHolds, Held, Rests, Lists
<1>3. \A op : Carries(q, p, "none", op)
  BY <1>2, PrepTurns
<1> QED BY <1>3, Turns

\* The changes of the page that no request waits for.
Changes(p) == {e \in {Shows(q) : q \in PrepType} : Fit(e, p, "none", PrepType)}
LEMMA PrepChanges ==
  ASSUME NEW p \in PrepType
  PROVE  /\ \A m \in Modals : Shows([p EXCEPT !.modal = m]) \in Changes(p)
         /\ \A c \in {"yes", "no"} : /\ Shows([p EXCEPT !.github.choice = c]) \in Changes(p)
                                     /\ Shows([p EXCEPT !.upload = c]) \in Changes(p)
         /\ Shows([p EXCEPT !.failed = TRUE]) \in Changes(p)
         /\ Shows([p EXCEPT !.chooser = FALSE]) \in Changes(p)
         /\ Shows([p EXCEPT !.modal = "none", !.chooser = TRUE]) \in Changes(p)
         /\ HandlePrepReset(p) \in Changes(p) /\ ChooseJob(p) \in Changes(p) /\ PickJobInfo(p) \in Changes(p)
         /\ \A f \in Files : PickResume(p, f) \in Changes(p)
         /\ \A k \in Keywords : TypeKeyword(p, k) \in Changes(p)
         /\ \A b : PickBank(p, b) \in Changes(p)
         /\ CloseCloud(p) \in Changes(p)
<1>1. ASSUME NEW q \in PrepType, Rests(q, p, "none") PROVE Shows(q) \in Changes(p)
  BY <1>1, PrepRests DEF Changes
<1>2. ASSUME NEW m \in Modals PROVE Shows([p EXCEPT !.modal = m]) \in Changes(p)
  <2> DEFINE q == [p EXCEPT !.modal = m]
  <2>1. q \in PrepType /\ Rests(q, p, "none")
    <3>1. q \in PrepType
      BY DEF PrepType
    <3>2. Rests(q, p, "none")
      BY DEF PrepType, Rests
    <3> QED BY <3>1, <3>2
  <2> QED BY <1>1, <2>1
<1>3. ASSUME NEW c \in {"yes", "no"} PROVE Shows([p EXCEPT !.github.choice = c]) \in Changes(p)
  <2> DEFINE q == [p EXCEPT !.github.choice = c]
  <2>1. q \in PrepType /\ Rests(q, p, "none")
    <3>1. q \in PrepType
      BY DEF PrepType
    <3>2. Rests(q, p, "none")
      BY DEF PrepType, Rests
    <3> QED BY <3>1, <3>2
  <2> QED BY <1>1, <2>1
<1>4. ASSUME NEW c \in {"yes", "no"} PROVE Shows([p EXCEPT !.upload = c]) \in Changes(p)
  <2> DEFINE q == [p EXCEPT !.upload = c]
  <2>1. q \in PrepType /\ Rests(q, p, "none")
    <3>1. q \in PrepType
      BY DEF PrepType
    <3>2. Rests(q, p, "none")
      BY DEF PrepType, Rests
    <3> QED BY <3>1, <3>2
  <2> QED BY <1>1, <2>1
<1>5. Shows([p EXCEPT !.failed = TRUE]) \in Changes(p)
  <2> DEFINE q == [p EXCEPT !.failed = TRUE]
  <2>1. q \in PrepType /\ Rests(q, p, "none")
    <3>1. q \in PrepType
      BY DEF PrepType
    <3>2. Rests(q, p, "none")
      BY DEF PrepType, Rests
    <3> QED BY <3>1, <3>2
  <2> QED BY <1>1, <2>1
<1>6. Shows([p EXCEPT !.chooser = FALSE]) \in Changes(p)
  <2> DEFINE q == [p EXCEPT !.chooser = FALSE]
  <2>1. q \in PrepType /\ Rests(q, p, "none")
    <3>1. q \in PrepType
      BY DEF PrepType
    <3>2. Rests(q, p, "none")
      BY DEF PrepType, Rests
    <3> QED BY <3>1, <3>2
  <2> QED BY <1>1, <2>1
<1>7. Shows([p EXCEPT !.modal = "none", !.chooser = TRUE]) \in Changes(p)
  <2> DEFINE q == [p EXCEPT !.modal = "none", !.chooser = TRUE]
  <2>1. q \in PrepType /\ Rests(q, p, "none")
    <3>1. q \in PrepType
      BY DEF PrepType, Modals
    <3>2. Rests(q, p, "none")
      BY DEF PrepType, Rests
    <3> QED BY <3>1, <3>2
  <2> QED BY <1>1, <2>1
<1>8. HandlePrepReset(p) \in Changes(p)
  <2> DEFINE q == [p EXCEPT !.job = FALSE, !.jd = FALSE, !.text = 0, !.url = 0, !.selected = {},
                            !.upload = "none", !.github = NoGithub, !.failed = FALSE, !.modal = "none"]
  <2>1. q \in PrepType
    BY ZenonT(60) DEF PrepType, Modals, NoGithub
  <2>2. Rests(q, p, "none")
    BY DEF PrepType, Rests, NoGithub
  <2> QED BY <1>1, <2>1, <2>2 DEF HandlePrepReset
<1>9. ChooseJob(p) \in Changes(p)
  <2> DEFINE q == [p EXCEPT !.job = TRUE, !.failed = FALSE, !.modal = "none", !.upload = "none"]
  <2>1. q \in PrepType /\ Rests(q, p, "none")
    <3>1. q \in PrepType
      BY DEF PrepType, Modals
    <3>2. Rests(q, p, "none")
      BY DEF PrepType, Rests
    <3> QED BY <3>1, <3>2
  <2> QED BY <1>1, <2>1 DEF ChooseJob
<1>10. PickJobInfo(p) \in Changes(p)
  <2> DEFINE q == [p EXCEPT !.jd = TRUE, !.modal = "none"]
  <2>1. q \in PrepType /\ Rests(q, p, "none")
    <3>1. q \in PrepType
      BY DEF PrepType, Modals
    <3>2. Rests(q, p, "none")
      BY DEF PrepType, Rests
    <3> QED BY <3>1, <3>2
  <2> QED BY <1>1, <2>1 DEF PickJobInfo
<1>11. ASSUME NEW f \in Files PROVE PickResume(p, f) \in Changes(p)
  <2> DEFINE q == [p EXCEPT !.text = f, !.url = f, !.modal = "none"]
  <2>1. q \in PrepType /\ Rests(q, p, "none")
    <3>1. q \in PrepType
      BY DEF PrepType, Modals
    <3>2. Rests(q, p, "none")
      BY DEF PrepType, Rests
    <3> QED BY <3>1, <3>2
  <2> QED BY <1>1, <2>1 DEF PickResume
<1>12. ASSUME NEW k \in Keywords PROVE TypeKeyword(p, k) \in Changes(p)
  <2> DEFINE q == [p EXCEPT !.cloud.typed = k, !.cloud.timer = TRUE]
  <2>1. q \in PrepType /\ Rests(q, p, "none")
    <3>1. q \in PrepType
      BY DEF PrepType
    <3>2. Rests(q, p, "none")
      BY DEF PrepType, Rests
    <3> QED BY <3>1, <3>2
  <2> QED BY <1>1, <2>1 DEF TypeKeyword
<1>13. ASSUME NEW b PROVE PickBank(p, b) \in Changes(p)
  <2> DEFINE s == {q \in Questions : p.bank[q] = b}
             q == [p EXCEPT !.selected = s, !.modal = "none"]
  <2>0. s \in SUBSET Questions
    OBVIOUS
  <2> HIDE DEF s
  <2>1. q \in PrepType /\ Rests(q, p, "none")
    <3>1. q \in PrepType
      BY <2>0 DEF PrepType, Modals
    <3>2. Rests(q, p, "none")
      BY <2>0 DEF PrepType, Rests
    <3> QED BY <3>1, <3>2
  <2> QED BY <1>1, <2>1 DEF PickBank, s
<1>14. CloseCloud(p) \in Changes(p)
  <2> DEFINE q0 == [p EXCEPT !.cloud.timer = FALSE]
             q == [q0 EXCEPT !.modal = "none"]
  <2>1. q0 \in PrepType /\ Rests(q0, p, "none")
    <3>1. q0 \in PrepType
      BY DEF PrepType
    <3>2. Rests(q0, p, "none")
      BY DEF PrepType, Rests
    <3> QED BY <3>1, <3>2
  <2>2. q \in PrepType /\ Rests(q, p, "none")
    <3>1. q \in PrepType
      BY <2>1 DEF PrepType, Modals
    <3>2. Rests(q, p, "none")
      BY <2>1 DEF PrepType, Rests
    <3> QED BY <3>1, <3>2
  <2> QED BY <1>1, <2>2 DEF CloseCloud, Closes, TimerStopped
<1> QED BY <1>2, <1>3, <1>4, <1>5, <1>6, <1>7, <1>8, <1>9, <1>10, <1>11, <1>12, <1>13, <1>14

\* What the page asks for, and waits for.
LEMMA PrepAsks ==
  ASSUME NEW p \in PrepType
  PROVE  /\ Fit(StartInterviewFlow(p), p, "none", PrepType)
         /\ Fit(OpenJobInfo(p), p, "none", PrepType)
         /\ Fit(HandleManualJobInfoSave(p), p, "none", PrepType)
         /\ Fit(HandleJobInfoImage(p), p, "none", PrepType)
         /\ \A f \in Files : /\ Fit(HandleResumeFile(p, f), p, "none", PrepType)
                             /\ Fit(PickCloudFile(p, f), p, "none", PrepType)
         /\ Fit(OpenResumePick(p), p, "none", PrepType)
         /\ Fit(OpenWpsCloud(p), p, "none", PrepType)
         /\ Fit(SearchCloudFiles(p), p, "none", PrepType)
         /\ Fit(SearchCloudFiles(TimerStopped(p)), p, "none", PrepType)
         /\ Fit(OpenBankPicker(p), p, "none", PrepType)
         /\ Fit(AnalyzeProject(p), p, "none", PrepType)
<1>1. ASSUME NEW q \in PrepType, NEW w \in DOMAIN Alone, NEW op \in Alone[w], Rests(q, p, w),
             Usual(op)
      PROVE  \A ids : Fit(Sends(q, op, ids), p, "none", PrepType)
  BY <1>1, PrepSends, Turns
<1>2. ASSUME NEW q \in PrepType, NEW w \in DOMAIN Alone, NEW op \in Alone[w], Rests(q, p, w),
             op \in FileOps
      PROVE  \A f \in Files : Fit(Sends(q, op, {f}), p, "none", PrepType)
  BY <1>2, PrepSends, Turns
<1>3. /\ \A op \in {"createInterview", "listJobs", "createJob", "ocr", "listResumes", "listCloud",
                    "listQuestions", "analyze"} : Usual(op)
      /\ "parse" \in FileOps /\ "importCloud" \in FileOps
  BY DEF Usual, FileOps, TextOps
<1>4. Fit(StartInterviewFlow(p), p, "none", PrepType)
  <2> DEFINE q == [p EXCEPT !.failed = FALSE, !.phase = "creating"]
  <2>1. q \in PrepType /\ Rests(q, p, "phase")
    <3>1. q \in PrepType
      BY DEF PrepType
    <3>2. Rests(q, p, "phase")
      BY DEF PrepType, Rests
    <3> QED BY <3>1, <3>2
  <2>2. Fit(Shows([p EXCEPT !.failed = TRUE]), p, "none", PrepType)
    BY PrepChanges DEF Changes
  <2> QED BY <1>1, <1>3, <2>1, <2>2 DEF StartInterviewFlow, Alone
<1>5. Fit(OpenJobInfo(p), p, "none", PrepType)
  <2> DEFINE q == [p EXCEPT !.modal = "jd"]
  <2>1. q \in PrepType /\ Rests(q, p, "none")
    <3>1. q \in PrepType
      BY DEF PrepType, Modals
    <3>2. Rests(q, p, "none")
      BY DEF PrepType, Rests
    <3> QED BY <3>1, <3>2
  <2> QED BY <1>3, <2>1, PrepRests DEF OpenJobInfo
<1>6. Fit(HandleManualJobInfoSave(p), p, "none", PrepType)
  BY <1>3, PrepRests DEF HandleManualJobInfoSave, Rests
<1>7. Fit(HandleJobInfoImage(p), p, "none", PrepType)
  <2> DEFINE q == [p EXCEPT !.ocr = TRUE]
  <2>1. q \in PrepType /\ Rests(q, p, "ocr")
    <3>1. q \in PrepType
      BY DEF PrepType
    <3>2. Rests(q, p, "ocr")
      BY DEF PrepType, Rests
    <3> QED BY <3>1, <3>2
  <2> QED BY <1>1, <1>3, <2>1 DEF HandleJobInfoImage, Alone
<1>8. \A f \in Files : Fit(HandleResumeFile(p, f), p, "none", PrepType)
  <2> DEFINE q == [p EXCEPT !.chooser = FALSE, !.parsing = TRUE, !.url = 0]
  <2>1. q \in PrepType /\ Rests(q, p, "parsing")
    <3>1. q \in PrepType
      BY DEF PrepType
    <3>2. Rests(q, p, "parsing")
      BY DEF PrepType, Rests
    <3> QED BY <3>1, <3>2
  <2> QED BY <1>2, <1>3, <2>1 DEF HandleResumeFile, Alone
<1>9. \A f \in Files : Fit(PickCloudFile(p, f), p, "none", PrepType)
  <2> DEFINE q == [p EXCEPT !.cloud.importing = TRUE]
  <2>1. q \in PrepType /\ Rests(q, p, "importing")
    <3>1. q \in PrepType
      BY DEF PrepType
    <3>2. Rests(q, p, "importing")
      BY DEF PrepType, Rests
    <3> QED BY <3>1, <3>2
  <2> QED BY <1>2, <1>3, <2>1 DEF PickCloudFile, Alone
<1>10. Fit(OpenResumePick(p), p, "none", PrepType)
  <2> DEFINE q == [p EXCEPT !.modal = "resumePick", !.library = [loading |-> TRUE, items |-> {}]]
  <2>1. q \in PrepType /\ Rests(q, p, "library")
    <3>1. q \in PrepType
      BY DEF PrepType, Modals
    <3>2. Rests(q, p, "library")
      BY DEF PrepType, Rests
    <3> QED BY <3>1, <3>2
  <2> QED BY <1>1, <1>3, <2>1 DEF OpenResumePick, Alone
<1>11. Fit(OpenWpsCloud(p), p, "none", PrepType)
  <2> DEFINE q == [p EXCEPT !.modal = "wpsCloud", !.cloud.loading = TRUE, !.cloud.typed = 0,
                            !.cloud.listed = FALSE]
  <2>1. q \in PrepType
    BY PagesAssumption DEF PrepType, Modals
  <2>2. Rests(q, p, "cloud")
    BY DEF PrepType, Rests
  <2> QED BY <1>1, <1>3, <2>1, <2>2 DEF OpenWpsCloud, Alone
<1>12. ASSUME NEW x \in PrepType, Rests(x, p, "none") PROVE Fit(SearchCloudFiles(x), p, "none", PrepType)
  <2> DEFINE q == [x EXCEPT !.cloud.loading = TRUE]
  <2>1. q \in PrepType /\ Rests(q, p, "cloud")
    <3>1. q \in PrepType
      BY <1>12 DEF PrepType
    <3>2. Rests(q, p, "cloud")
      BY <1>12 DEF PrepType, Rests
    <3> QED BY <3>1, <3>2
  <2> QED BY <1>1, <1>3, <2>1 DEF SearchCloudFiles, Alone
<1>13. TimerStopped(p) \in PrepType /\ Rests(TimerStopped(p), p, "none")
  <2> DEFINE q == [p EXCEPT !.cloud.timer = FALSE]
  <2>1. q \in PrepType
    BY DEF PrepType
  <2>2. Rests(q, p, "none")
    BY DEF PrepType, Rests
  <2> QED BY <2>1, <2>2 DEF TimerStopped
<1>14. Fit(OpenBankPicker(p), p, "none", PrepType)
  <2> DEFINE none == [q \in Questions |-> 0]
             x == [p EXCEPT !.modal = "bank"]
             q == [x EXCEPT !.bankLoading = TRUE, !.bank = none]
  <2>1. none \in [Questions -> 0..Banks]
    BY PagesAssumption
  <2> HIDE DEF none
  <2>2. q \in PrepType /\ Rests(q, p, "bank")
    <3>1. q \in PrepType
      BY <2>1 DEF PrepType, Modals
    <3>2. Rests(q, p, "bank")
      BY <2>1 DEF PrepType, Rests
    <3> QED BY <3>1, <3>2
  <2> HIDE DEF q
  <2>3. Fit(Sends(q, "listQuestions", {}), p, "none", PrepType)
    BY <1>1, <1>3, <2>2 DEF Alone, Lists
  <2> QED BY <2>3 DEF OpenBankPicker, LoadBankQuestions, q, none
<1>15. Fit(AnalyzeProject(p), p, "none", PrepType)
  <2> DEFINE q == [p EXCEPT !.github.loading = TRUE]
  <2>1. q \in PrepType /\ Rests(q, p, "github")
    <3>1. q \in PrepType
      BY DEF PrepType
    <3>2. Rests(q, p, "github")
      BY DEF PrepType, Rests
    <3> QED BY <3>1, <3>2
  <2> QED BY <1>1, <1>3, <2>1 DEF AnalyzeProject, Alone
<1>16. Rests(p, p, "none")
  BY DEF Rests
<1> QED BY <1>4, <1>5, <1>6, <1>7, <1>8, <1>9, <1>10, <1>11, <1>12, <1>13, <1>14, <1>15, <1>16

\* What the dialog does, the page does; closing it opens the dialog of the banks again.
LEMMA PrepImportFits ==
  ASSUME NEW p \in PrepType, NEW e, Calm(e), NEW t \in ImportOps \cup {"none"},
         ImportFit(e, p.import, t)
  PROVE  LET h == InImport(p, e) IN
         /\ Fit(h, p, t, PrepType)
         /\ Fit(Then(h, [h.page EXCEPT !.modal = "bank"]), p, t, PrepType)
<1>1. ASSUME NEW g, NEW q \in PrepType, g.page = q, g.send = e.send, g.go = e.go,
             q.import = e.page,
             Rests([q EXCEPT !.import = p.import], p, "none")
      PROVE  Fit(g, p, t, PrepType)
  <2> DEFINE x == [q EXCEPT !.import = p.import]
  <2>1. /\ x.phase = q.phase /\ x.parsing = q.parsing /\ x.library = q.library /\ x.cloud = q.cloud
        /\ x.ocr = q.ocr /\ x.bankLoading = q.bankLoading /\ x.github = q.github
    BY DEF PrepType
  <2>2. Rests(x, p, "none")
    BY <1>1
  <2> HIDE DEF x
  <2>3. p.kind = "prep" /\ q.kind = "prep"
    BY DEF PrepType
  <2>4. ASSUME NEW w \in Sharp(q), w \notin ImportWaits(e.page) PROVE w \in Sharp(p) /\ t \notin w
    <3>1. \/ q.phase # "none" /\ w = {"createInterview", "startInterview"}
          \/ q.parsing /\ w = {"parse", "upload", "parseCloud", "uploadCloud"}
          \/ q.library.loading /\ w = {"listResumes"}
          \/ q.cloud.loading /\ w = {"listCloud"}
          \/ q.cloud.importing /\ w = {"importCloud", "parseCloud", "uploadCloud"}
          \/ q.ocr /\ w = {"ocr"}
          \/ q.bankLoading /\ w = Lists
          \/ q.github.loading /\ w = {"analyze", "storeProject"}
      BY <1>1, <2>3, <2>4 DEF Sharp, When
    <3>2. t \notin w
      BY <3>1 DEF ImportOps, Lists
    <3>3. w \in Sharp(p)
      BY <2>1, <2>2, <2>3, <3>1 DEF Sharp, When, Rests
    <3> QED BY <3>2, <3>3
  <2>5. ImportWaits(p.import) \subseteq Sharp(p)
    BY <2>3 DEF Sharp
  <2>6. \A w \in Sharp(q) : Ends(e.send, w) \/ (w \in Sharp(p) /\ t \notin w)
    BY <2>4, <2>5 DEF ImportFit, Ended
  <2> QED BY <1>1, <2>6 DEF Fit, Turned, Ended, Fits, ImportFit
<1> DEFINE q1 == [p EXCEPT !.import = e.page]
           q2 == [q1 EXCEPT !.modal = "bank"]
           h == InImport(p, e)
<1>2. q1 \in PrepType /\ q1.import = e.page
  BY DEF PrepType, ImportFit
<1>3. q2 \in PrepType /\ q2.import = e.page
  BY <1>2, ZenonT(60) DEF PrepType, Modals
<1>4. Rests([q1 EXCEPT !.import = p.import], p, "none")
  BY DEF Rests, PrepType
<1>5. Rests([q2 EXCEPT !.import = p.import], p, "none")
  BY DEF Rests, PrepType
<1> HIDE DEF q1
<1>6. h.page = q1 /\ h.send = e.send /\ h.go = e.go
  BY DEF InImport, Then, Calm, q1
<1> DEFINE g == Then(h, q2)
<1> HIDE DEF q2
<1>7. g.page = q2 /\ g.send = e.send /\ g.go = e.go
  BY DEF InImport, Then, Calm
<1>8. g = Then(h, [h.page EXCEPT !.modal = "bank"])
  BY <1>6 DEF q2
<1> HIDE DEF g, h
<1>9. Fit(h, p, t, PrepType)
  BY <1>1, <1>2, <1>4, <1>6
<1>10. Fit(g, p, t, PrepType)
  BY <1>1, <1>3, <1>5, <1>7
<1> QED BY <1>8, <1>9, <1>10 DEF h

LEMMA PrepPressFits ==
  ASSUME NEW p \in PrepType, NEW c, NEW e \in PrepPresses(p, c) PROVE Fit(e, p, "none", PrepType)
<1> DEFINE F(x) == Fit(x, p, "none", PrepType)
<1>1. /\ \A m \in Modals : F(Shows([p EXCEPT !.modal = m]))
      /\ \A x \in {"yes", "no"} : /\ F(Shows([p EXCEPT !.github.choice = x]))
                                  /\ F(Shows([p EXCEPT !.upload = x]))
      /\ F(Shows([p EXCEPT !.chooser = FALSE]))
      /\ F(Shows([p EXCEPT !.modal = "none", !.chooser = TRUE]))
      /\ F(HandlePrepReset(p)) /\ F(ChooseJob(p)) /\ F(PickJobInfo(p))
      /\ \A f \in Files : F(PickResume(p, f))
      /\ \A k \in Keywords : F(TypeKeyword(p, k))
      /\ \A b : F(PickBank(p, b))
      /\ F(CloseCloud(p))
  BY PrepChanges DEF Changes
<1>2. \A m \in Modals : F(Opens(p, m)) /\ F(Closes(p))
  BY <1>1 DEF Opens, Closes, Modals
<1>3. {"none", "job", "resumePick", "resumeImportMethod"} \subseteq Modals
  BY DEF Modals
<1>4. F(Goes(p, Route("hub", 0)))
  <2>1. RouteOK(Route("hub", 0))
    BY DEF RouteOK, Route, Protected, WithTopBar
  <2> QED BY <2>1, PrepRests DEF Rests
<1>5. /\ F(StartInterviewFlow(p)) /\ F(OpenJobInfo(p)) /\ F(HandleManualJobInfoSave(p))
      /\ F(HandleJobInfoImage(p))
      /\ \A f \in Files : F(HandleResumeFile(p, f)) /\ F(PickCloudFile(p, f))
      /\ F(OpenResumePick(p)) /\ F(OpenWpsCloud(p)) /\ F(SearchCloudFiles(p))
      /\ F(SearchCloudFiles(TimerStopped(p))) /\ F(OpenBankPicker(p)) /\ F(AnalyzeProject(p))
  BY PrepAsks
<1>6. ASSUME e \in PrepImport(p, c) PROVE F(e)
  <2>1. PICK o \in ImportPresses(p.import, Existing(p.bank), c) :
          e = LET h == InImport(p, o) IN
              IF o.page.open THEN h ELSE Then(h, [h.page EXCEPT !.modal = "bank"])
    BY <1>6 DEF PrepImport
  <2>2. p.import \in ImportType /\ Existing(p.bank) \in SUBSET Questions
    BY DEF PrepType, Existing
  <2>3. ImportFit(o, p.import, "none") /\ Calm(o)
    BY <2>2, ImportPressFits, ImportCalm
  <2> QED BY <2>1, <2>3, PrepImportFits
<1>7. F(Shows([p EXCEPT !.modal = "none", !.import.open = TRUE]))
  <2> DEFINE q == [p EXCEPT !.modal = "none", !.import.open = TRUE]
  <2>1. q \in PrepType
    BY DEF PrepType, ImportType, Modals
  <2>2. Rests([q EXCEPT !.import = p.import], p, "none")
    BY DEF Rests, PrepType
  <2>3. ImportWaits(q.import) = ImportWaits(p.import)
    BY DEF PrepType, ImportType, ImportWaits, When
  <2>4. /\ q.phase = p.phase /\ q.parsing = p.parsing /\ q.library = p.library /\ q.cloud = p.cloud
        /\ q.ocr = p.ocr /\ q.bankLoading = p.bankLoading /\ q.github = p.github
    BY DEF PrepType
  <2>5. PrepTurning(q, p, "none", "none")
    <3>1. Covers(ImportWaits(p.import), ImportWaits(p.import), "none", "none")
      BY ImportRests DEF ImportOps
    <3> HIDE DEF q
    <3> QED BY <2>3, <2>4, <3>1 DEF PrepTurning, PrepHolds, Held, Lists
  <2> QED BY <2>1, <2>5, PrepTurns, Turns
<1> HIDE DEF F
<1>8. ASSUME e \in PrepButtons(p, c) PROVE F(e)
  <2>1. \/ e \in {Goes(p, Route("hub", 0)), Opens(p, "job"), HandlePrepReset(p), AnalyzeProject(p),
                  StartInterviewFlow(p)}
        \/ e \in {Shows([p EXCEPT !.github.choice = x]) : x \in {"yes", "no"}}
        \/ e \in {Shows([p EXCEPT !.upload = x]) : x \in {"yes", "no"}}
    BY <1>8 DEF PrepButtons, When
  <2>2. ASSUME e \in {Shows([p EXCEPT !.github.choice = x]) : x \in {"yes", "no"}} PROVE F(e)
    BY <1>1, <2>2
  <2>3. ASSUME e \in {Shows([p EXCEPT !.upload = x]) : x \in {"yes", "no"}} PROVE F(e)
    BY <1>1, <2>3
  <2> QED BY <1>1, <1>2, <1>3, <1>4, <1>5, <2>1, <2>2, <2>3
<1>9. ASSUME e \in MaterialButtons(p, c) PROVE F(e)
  BY <1>5, <1>9 DEF MaterialButtons, When
<1>10. p.library.items \subseteq Files
  BY DEF PrepType
<1>11. ASSUME e \in ResumeDialogs(p, c) PROVE F(e)
  BY <1>1, <1>2, <1>3, <1>5, <1>10, <1>11 DEF ResumeDialogs, When
<1>12. ASSUME e \in CloudDialog(p) PROVE F(e)
  BY <1>1, <1>5, <1>12 DEF CloudDialog, When
<1>13. ASSUME e \in JobDialog(p) \cup JobInfoDialog(p) \cup BankDialog(p, c) PROVE F(e)
  BY <1>1, <1>2, <1>3, <1>5, <1>7, <1>13 DEF JobDialog, JobInfoDialog, BankDialog, When
<1>14. F(e)
  BY <1>1, <1>5, <1>6, <1>8, <1>9, <1>11, <1>12, <1>13 DEF PrepPresses, When
<1> QED BY <1>14 DEF F

LEMMA PrepAnswerFits ==
  ASSUME NEW p \in PrepType, NEW r, Asked(r), Brought(r), NEW ok \in BOOLEAN
  PROVE  LET e == PrepAnswer(p, r, ok, r.val) IN Fit(e, p, Tag(r), PrepType)
<1> DEFINE t == Tag(r)
           f == The(r.ids)
<1>1. /\ r.op # "listQuestions" => t = r.op
      /\ r.op = "listQuestions" => t \in Lists
  BY DEF Tag, Asked, Lists
<1>2. r.op \notin ImportOps \cup {"confirmImport"} =>
        \A op : Covers(ImportWaits(p.import), ImportWaits(p.import), t, op)
  BY <1>1, ImportRests DEF ImportOps, Lists
<1>3. r.op \in FileOps => f \in Files
  BY DEF Asked, The
<1> HIDE DEF t, f
<1>4. ASSUME NEW q, NEW s, PrepHolds(q, p, r.op, s) PROVE PrepHolds(q, p, t, s)
  <2>1. CASE r.op # "listQuestions"
    BY <1>1, <1>4, <2>1
  <2>2. CASE r.op = "listQuestions"
    BY <1>1, <1>4, <2>2 DEF PrepHolds, Held, Lists
  <2> QED BY <2>1, <2>2
<1>5. ASSUME NEW q \in PrepType, q.import = p.import, NEW s, PrepHolds(q, p, r.op, s),
             r.op \notin ImportOps \cup {"confirmImport"}
      PROVE  /\ s = "none" => /\ Fit(Shows(q), p, t, PrepType)
                              /\ \A to : RouteOK(to) => Fit(Goes(q, to), p, t, PrepType)
             /\ Usual(s) => \A ids : Fit(Sends(q, s, ids), p, t, PrepType)
             /\ s \in FileOps => \A x \in Files : Fit(Sends(q, s, {x}), p, t, PrepType)
  <2>1. Carries(q, p, t, s)
    BY <1>2, <1>4, <1>5, PrepTurns DEF PrepTurning
  <2> QED BY <2>1, Turns
\* The forms of the answers: what is set, and which flags that clears.
<1>6. ASSUME r.op \in {"listJobs", "createJob"}
      PROVE  Fit(JobInfoListed(p, r.val.ids, ok), p, t, PrepType) /\ Fit(JobInfoSaved(p, ok), p, t, PrepType)
  <2> DEFINE q1 == [p EXCEPT !.saved = r.val.ids # {}]
             q2 == [p EXCEPT !.jd = TRUE, !.saved = TRUE, !.modal = "none"]
  <2>1. q1 \in PrepType /\ q1.import = p.import
    BY ZenonT(60) DEF PrepType
  <2>2. q2 \in PrepType /\ q2.import = p.import
    BY DEF PrepType, Modals
  <2>3. PrepHolds(q1, p, r.op, "none")
    BY <1>6 DEF PrepType, PrepHolds, Held, Lists
  <2>4. PrepHolds(q2, p, r.op, "none")
    BY <1>6 DEF PrepType, PrepHolds, Held, Lists
  <2>5. PrepHolds(p, p, r.op, "none")
    BY <1>6 DEF PrepHolds, Held, Lists
  <2> HIDE DEF q1, q2
  <2>6. Fit(Shows(q1), p, t, PrepType) /\ Fit(Shows(q2), p, t, PrepType) /\ Fit(Shows(p), p, t, PrepType)
    BY <1>5, <1>6, <2>1, <2>2, <2>3, <2>4, <2>5 DEF ImportOps
  <2> QED BY <2>6 DEF JobInfoListed, JobInfoSaved, q1, q2
<1>7. ASSUME r.op = "ocr" PROVE Fit(JobInfoRead(p, ok), p, t, PrepType)
  <2> DEFINE q1 == [p EXCEPT !.jd = TRUE, !.ocr = FALSE, !.modal = "none"]
             q2 == [p EXCEPT !.ocr = FALSE]
  <2>1. q1 \in PrepType /\ q1.import = p.import
    BY ZenonT(60) DEF PrepType, Modals
  <2>2. q2 \in PrepType /\ q2.import = p.import
    BY ZenonT(60) DEF PrepType
  <2>3. PrepHolds(q1, p, r.op, "none")
    BY <1>7 DEF PrepType, PrepHolds, Held, Lists
  <2>4. PrepHolds(q2, p, r.op, "none")
    BY <1>7 DEF PrepType, PrepHolds, Held, Lists
  <2> HIDE DEF q1, q2
  <2>5. Fit(Shows(q1), p, t, PrepType) /\ Fit(Shows(q2), p, t, PrepType)
    BY <1>5, <1>7, <2>1, <2>2, <2>3, <2>4 DEF ImportOps
  <2> QED BY <2>5 DEF JobInfoRead, q1, q2
<1>8. ASSUME r.op = "parse" PROVE Fit(Parsed(p, f, ok), p, t, PrepType)
  <2> DEFINE q1 == [p EXCEPT !.text = f]
             q2 == [p EXCEPT !.text = 0, !.url = 0, !.parsing = FALSE]
  <2>1. f \in Files
    BY <1>3, <1>8 DEF FileOps
  <2>2. q1 \in PrepType /\ q1.import = p.import
    BY <2>1 DEF PrepType
  <2>3. q2 \in PrepType /\ q2.import = p.import
    BY ZenonT(60) DEF PrepType
  <2>4. PrepHolds(q1, p, r.op, "upload")
    BY <1>8 DEF PrepType, PrepHolds, Held, Lists
  <2>5. PrepHolds(q2, p, r.op, "none")
    BY <1>8 DEF PrepType, PrepHolds, Held, Lists
  <2> HIDE DEF q1, q2
  <2>6. Fit(Sends(q1, "upload", {f}), p, t, PrepType) /\ Fit(Shows(q2), p, t, PrepType)
    BY <1>5, <1>8, <2>1, <2>2, <2>3, <2>4, <2>5 DEF ImportOps, FileOps
  <2> QED BY <2>6 DEF Parsed, q1, q2
<1>9. ASSUME r.op = "upload" PROVE Fit(Uploaded(p, f, ok), p, t, PrepType)
  <2> DEFINE u == IF ok THEN f ELSE p.url
             q == [p EXCEPT !.url = u, !.parsing = FALSE]
  <2>1. u \in Files \cup {0}
    BY <1>3, <1>9 DEF FileOps, PrepType
  <2>5. Uploaded(p, f, ok) = Shows(q)
    BY DEF Uploaded
  <2> HIDE DEF u
  <2>2. q \in PrepType
    BY <2>1 DEF PrepType
  <2>4. q.import = p.import
    BY DEF PrepType
  <2>3. PrepHolds(q, p, r.op, "none")
    BY <1>9 DEF PrepType, PrepHolds, Held, Lists
  <2> QED BY <1>5, <1>9, <2>2, <2>3, <2>4, <2>5 DEF ImportOps
<1>10. ASSUME r.op = "listResumes" PROVE Fit(ResumesListed(p, r.val.ids, ok), p, t, PrepType)
  <2> DEFINE l == [loading |-> FALSE, items |-> IF ok THEN r.val.ids ELSE p.library.items]
             q == [p EXCEPT !.library = l]
  <2>1. l \in [loading : BOOLEAN, items : SUBSET Files] /\ ~l.loading
    BY <1>10 DEF PrepType, Brought
  <2>2. l = [loading |-> FALSE, items |-> IF ok THEN r.val.ids ELSE p.library.items]
    OBVIOUS
  <2> HIDE DEF l
  <2>3. q \in PrepType /\ q.import = p.import
    BY <2>1 DEF PrepType
  <2>4. PrepHolds(q, p, r.op, "none")
    BY <1>10, <2>1 DEF PrepType, PrepHolds, Held, Lists
  <2>5. Fit(Shows(q), p, t, PrepType)
    BY <1>5, <1>10, <2>3, <2>4 DEF ImportOps
  <2>6. ResumesListed(p, r.val.ids, ok) = Shows(q)
    BY <2>2 DEF ResumesListed, PrepType
  <2> QED BY <2>5, <2>6
<1>11. ASSUME r.op = "listCloud" PROVE Fit(CloudListed(p, ok), p, t, PrepType)
  <2> DEFINE q == [p EXCEPT !.cloud.loading = FALSE, !.cloud.listed = ok]
  <2>1. q \in PrepType /\ q.import = p.import
    BY DEF PrepType
  <2>2. PrepHolds(q, p, r.op, "none")
    BY <1>11 DEF PrepType, PrepHolds, Held, Lists
  <2> QED BY <1>5, <1>11, <2>1, <2>2 DEF ImportOps, CloudListed
\* A cloud document on its way: the import is over, or goes on.
<1> DEFINE over == [p EXCEPT !.cloud.importing = FALSE, !.parsing = FALSE]
<1>12. over \in PrepType
  BY DEF PrepType
<1>13. /\ over.import = p.import /\ over.phase = p.phase /\ ~over.parsing /\ over.library = p.library
       /\ over.cloud.loading = p.cloud.loading /\ ~over.cloud.importing /\ over.ocr = p.ocr
       /\ over.bankLoading = p.bankLoading /\ over.github = p.github
  BY DEF PrepType
<1>14. over = ImportOver(p)
  BY DEF ImportOver
<1> HIDE DEF over
<1>15. ASSUME r.op \in {"importCloud", "parseCloud"} PROVE Fit(CloudFailed(p), p, t, PrepType)
  <2> DEFINE q == [over EXCEPT !.cloud.listed = FALSE]
  <2>1. q \in PrepType
    BY <1>12, ZenonT(60) DEF PrepType
  <2>2. /\ q.import = p.import /\ q.phase = p.phase /\ ~q.parsing /\ q.library = p.library
        /\ q.cloud.loading = p.cloud.loading /\ ~q.cloud.importing /\ q.ocr = p.ocr
        /\ q.bankLoading = p.bankLoading /\ q.github = p.github
    BY <1>12, <1>13 DEF PrepType
  <2>3. CloudFailed(p) = Shows(q)
    BY <1>14 DEF CloudFailed
  <2> HIDE DEF q
  <2>4. PrepHolds(q, p, r.op, "none")
    BY <1>15, <2>2 DEF PrepHolds, Held, Lists
  <2> QED BY <1>5, <1>15, <2>1, <2>2, <2>3, <2>4 DEF ImportOps
<1>16. ASSUME r.op = "importCloud" PROVE Fit(CloudImported(p, f, ok), p, t, PrepType)
  <2> DEFINE q == [p EXCEPT !.parsing = TRUE]
  <2>1. q \in PrepType /\ q.import = p.import /\ f \in Files
    BY <1>3, <1>16 DEF PrepType, FileOps
  <2>2. PrepHolds(q, p, r.op, "parseCloud")
    BY <1>16 DEF PrepType, PrepHolds, Held, Lists
  <2>3. Fit(Sends(q, "parseCloud", {f}), p, t, PrepType)
    BY <1>5, <1>16, <2>1, <2>2 DEF ImportOps, FileOps
  <2> QED BY <1>15, <1>16, <2>3 DEF CloudImported
<1>17. ASSUME r.op = "parseCloud" PROVE Fit(CloudParsed(p, f, ok), p, t, PrepType)
  <2> DEFINE q == [p EXCEPT !.text = f]
  <2>1. f \in Files
    BY <1>3, <1>17 DEF FileOps
  <2>2. q \in PrepType /\ q.import = p.import
    BY <2>1 DEF PrepType
  <2>3. PrepHolds(q, p, r.op, "uploadCloud")
    BY <1>17 DEF PrepType, PrepHolds, Held, Lists
  <2>4. Fit(Sends(q, "uploadCloud", {f}), p, t, PrepType)
    BY <1>5, <1>17, <2>1, <2>2, <2>3 DEF ImportOps, FileOps
  <2> QED BY <1>15, <1>17, <2>4 DEF CloudParsed
<1>18. ASSUME r.op = "uploadCloud" PROVE Fit(CloudUploaded(p, f, ok), p, t, PrepType)
  <2> DEFINE q == [over EXCEPT !.url = IF ok THEN f ELSE @, !.modal = "none"]
  <2>1. f \in Files
    BY <1>3, <1>18 DEF FileOps
  <2>2. q \in PrepType
    BY <1>12, <2>1, ZenonT(60) DEF PrepType, Modals
  <2>3. /\ q.import = p.import /\ q.phase = p.phase /\ ~q.parsing /\ q.library = p.library
        /\ q.cloud.loading = p.cloud.loading /\ ~q.cloud.importing /\ q.ocr = p.ocr
        /\ q.bankLoading = p.bankLoading /\ q.github = p.github
    BY <1>12, <1>13 DEF PrepType
  <2>4. CloudUploaded(p, f, ok) = Shows(q)
    BY <1>14 DEF CloudUploaded
  <2> HIDE DEF q
  <2>5. PrepHolds(q, p, r.op, "none")
    BY <1>18, <2>3 DEF PrepHolds, Held, Lists
  <2> QED BY <1>5, <1>18, <2>2, <2>3, <2>4, <2>5 DEF ImportOps
<1>19. ASSUME r.op = "listQuestions"
       PROVE  Fit(BankQuestionsLoaded(p, r.val.bank, ok), p, t, PrepType)
  <2> DEFINE q == [p EXCEPT !.bankLoading = FALSE, !.bank = IF ok THEN r.val.bank ELSE @]
  <2>1. q \in PrepType /\ q.import = p.import
    BY ZenonT(60) DEF PrepType, Brought
  <2>2. PrepHolds(q, p, r.op, "none")
    BY <1>19 DEF PrepType, PrepHolds, Held, Lists
  <2> QED BY <1>5, <1>19, <2>1, <2>2 DEF ImportOps, BankQuestionsLoaded
<1>20. ASSUME r.op = "confirmImport" PROVE Fit(ImportedForPrep(p, ok), p, t, PrepType)
  <2> DEFINE d == Confirmed(p.import, ok)
             q == [p EXCEPT !.import = d]
             none == [x \in Questions |-> 0]
             m == [q EXCEPT !.modal = "bank"]
             l == [m EXCEPT !.bankLoading = TRUE, !.bank = none]
  <2>1. t = "confirmImport" /\ p.import \in ImportType
    BY <1>1, <1>20 DEF PrepType
  <2>2. d \in ImportType /\ \A op : ImportTurning(d, p.import, "confirmImport", op)
    BY <2>1, ConfirmedFits
  <2>3. \A op : Covers(ImportWaits(d), ImportWaits(p.import), t, op)
    BY <2>1, <2>2, ImportTurns
  <2>4. none \in [Questions -> 0..Banks]
    BY PagesAssumption
  <2>5. ImportedForPrep(p, ok) = IF ok THEN Sends(l, "listQuestions", {}) ELSE Shows(q)
    BY DEF ImportedForPrep, LoadBankQuestions
  <2> HIDE DEF d, none
  <2>6. q \in PrepType /\ q.import = d
    BY <2>2 DEF PrepType
  <2>7. PrepHolds(q, p, "confirmImport", "none")
    BY DEF PrepType, PrepHolds, Held, Lists
  <2>8. l \in PrepType /\ l.import = d
    <3>1. m \in PrepType /\ m.import = d
      BY <2>6, ZenonT(60) DEF PrepType, Modals
    <3> HIDE DEF m
    <3> QED BY <2>4, <3>1 DEF PrepType
  <2>9. PrepHolds(l, p, "confirmImport", "listQuestions")
    BY DEF PrepType, PrepHolds, Held, Lists
  <2> HIDE DEF q, l
  <2>10. Carries(q, p, t, "none") /\ Carries(l, p, t, "listQuestions")
    BY <2>1, <2>3, <2>6, <2>7, <2>8, <2>9, PrepTurns DEF PrepTurning
  <2>11. Fit(Shows(q), p, t, PrepType) /\ Fit(Sends(l, "listQuestions", {}), p, t, PrepType)
    BY <2>6, <2>8, <2>10, Turns DEF Usual, FileOps, TextOps
  <2> QED BY <2>5, <2>11
<1>21. ASSUME r.op \in {"analyze", "storeProject"}
       PROVE  /\ r.op = "analyze" => Fit(ProjectAnalyzed(p, ok), p, t, PrepType)
              /\ Fit(ProjectStored(p), p, t, PrepType)
  <2> DEFINE q1 == [p EXCEPT !.github.found = TRUE]
             q2 == [p EXCEPT !.github.loading = FALSE]
  <2>1. q1 \in PrepType /\ q1.import = p.import
    BY DEF PrepType
  <2>2. q2 \in PrepType /\ q2.import = p.import
    BY ZenonT(60) DEF PrepType
  <2>3. PrepHolds(q1, p, r.op, "storeProject")
    BY <1>21 DEF PrepType, PrepHolds, Held, Lists
  <2>4. PrepHolds(q2, p, r.op, "none")
    BY <1>21 DEF PrepType, PrepHolds, Held, Lists
  <2> HIDE DEF q1, q2
  <2>5. Fit(Sends(q1, "storeProject", {}), p, t, PrepType) /\ Fit(Shows(q2), p, t, PrepType)
    BY <1>5, <1>21, <2>1, <2>2, <2>3, <2>4 DEF ImportOps, Usual, FileOps, TextOps
  <2> QED BY <2>5 DEF ProjectAnalyzed, ProjectStored, q1, q2
<1>22. ASSUME r.op \in {"createInterview", "startInterview"}
       PROVE  /\ \A id : Fit(StartFailed(p), p, t, PrepType) /\ Fit(Created(p, id, ok), p, t, PrepType)
              /\ \A id : Fit(Started(p, id, ok), p, t, PrepType)
  <2> DEFINE q1 == [p EXCEPT !.failed = TRUE, !.phase = "none"]
             q2 == [p EXCEPT !.phase = "generating"]
             q3 == [p EXCEPT !.phase = "none"]
  <2>1. q1 \in PrepType /\ q1.import = p.import
    BY DEF PrepType
  <2>2. q2 \in PrepType /\ q2.import = p.import
    BY DEF PrepType
  <2>3. q3 \in PrepType /\ q3.import = p.import
    BY DEF PrepType
  <2>4. PrepHolds(q1, p, r.op, "none")
    BY <1>22 DEF PrepType, PrepHolds, Held, Lists
  <2>5. PrepHolds(q2, p, r.op, "startInterview")
    BY <1>22 DEF PrepType, PrepHolds, Held, Lists
  <2>6. PrepHolds(q3, p, r.op, "none")
    BY <1>22 DEF PrepType, PrepHolds, Held, Lists
  <2> HIDE DEF q1, q2, q3
  <2>7. \A id : RouteOK(Route("room", id))
    BY DEF RouteOK, Route, Protected, WithTopBar
  <2>8. /\ \A id : Fit(Sends(q2, "startInterview", {id}), p, t, PrepType)
        /\ \A id : Fit(Goes(q3, Route("room", id)), p, t, PrepType)
        /\ Fit(Shows(q1), p, t, PrepType)
    BY <1>5, <1>22, <2>1, <2>2, <2>3, <2>4, <2>5, <2>6, <2>7 DEF ImportOps, Usual, FileOps, TextOps
  <2> QED BY <2>8 DEF StartFailed, Created, Started, q1, q2, q3
<1>23. ASSUME r.op \in ImportOps PROVE Fit(InImport(p, ImportAnswer(p.import, r, ok)), p, t, PrepType)
  <2>1. p.import \in ImportType /\ t \in ImportOps \cup {"none"}
    BY <1>1, <1>23 DEF PrepType, ImportOps
  <2>2. ImportFit(ImportAnswer(p.import, r, ok), p.import, t)
    BY <1>23, <2>1, ImportAnswerFits DEF t
  <2> QED BY <2>1, <2>2, ImportAnswerCalm, PrepImportFits
<1> DEFINE Known == {"listJobs", "createJob", "ocr", "parse", "upload", "listResumes", "listCloud",
                     "importCloud", "parseCloud", "uploadCloud", "listQuestions", "confirmImport",
                     "analyze", "storeProject", "createInterview", "startInterview"} \cup ImportOps
<1>24. ASSUME r.op \notin Known PROVE Fit(Nothing(p), p, t, PrepType)
  <2>1. PrepHolds(p, p, r.op, "none")
    BY <1>24 DEF PrepHolds, Held, Lists, Asked
  <2> QED BY <1>5, <1>24, <2>1 DEF Nothing
<1>25. ASSUME r.op \in {"listJobs", "createJob", "ocr", "parse", "upload", "listResumes", "listCloud"}
       PROVE  Fit(PrepAnswer(p, r, ok, r.val), p, t, PrepType)
  BY <1>6, <1>7, <1>8, <1>9, <1>10, <1>11, <1>25 DEF PrepAnswer, ImportOps, f
<1>26. ASSUME r.op \in {"importCloud", "parseCloud", "uploadCloud", "listQuestions", "confirmImport"}
       PROVE  Fit(PrepAnswer(p, r, ok, r.val), p, t, PrepType)
  BY <1>16, <1>17, <1>18, <1>19, <1>20, <1>26 DEF PrepAnswer, ImportOps, f
<1>27. ASSUME r.op \in {"analyze", "storeProject", "createInterview", "startInterview"}
       PROVE  Fit(PrepAnswer(p, r, ok, r.val), p, t, PrepType)
  BY <1>21, <1>22, <1>27 DEF PrepAnswer, ImportOps, f
<1>28. ASSUME r.op \in ImportOps PROVE Fit(PrepAnswer(p, r, ok, r.val), p, t, PrepType)
  BY <1>23, <1>28 DEF PrepAnswer, ImportOps
<1>29. ASSUME r.op \notin Known PROVE Fit(PrepAnswer(p, r, ok, r.val), p, t, PrepType)
  BY <1>24, <1>29 DEF PrepAnswer, ImportOps
<1> QED BY <1>25, <1>26, <1>27, <1>28, <1>29 DEF t

-----------------------------------------------------------------------------
(* Whatever the page. *)

\* The kinds of pages, and what each is made of.
Stateful == {"prep", "hub", "list", "bank", "resumes", "jobs", "report", "detail", "login"}
LEMMA FieldsOf ==
  ASSUME NEW p, NEW to, NEW q
  PROVE  /\ FieldsOK(p, to) /\ p.kind = "prep" => p \in PrepType
         /\ FieldsOK(p, to) /\ p.kind \in {"hub", "list"} => p \in ListType
         /\ FieldsOK(p, to) /\ p.kind = "bank" => p \in BankType
         /\ FieldsOK(p, to) /\ p.kind = "resumes" => p \in ResumesType
         /\ FieldsOK(p, to) /\ p.kind = "jobs" => p \in JobsType
         /\ FieldsOK(p, to) /\ p.kind = "report" => p \in ReportType(Sessions)
         /\ FieldsOK(p, to) /\ p.kind = "detail" => p \in DetailType
         /\ FieldsOK(p, to) /\ p.kind = "login" => p \in LoginType
         /\ q \in PrepType \/ q \in ListType \/ q \in BankType \/ q \in ResumesType
              \/ q \in JobsType \/ q \in ReportType(Sessions) \/ q \in DetailType
              \/ q \in LoginType => FieldsOK(q, to)
<1>1. q \in PrepType => q.kind = "prep"
  BY DEF PrepType
<1>2. q \in ListType => q.kind \in {"hub", "list"}
  BY DEF ListType
<1>3. q \in BankType => q.kind = "bank"
  BY DEF BankType
<1>4. q \in ResumesType => q.kind = "resumes"
  BY DEF ResumesType
<1>5. q \in JobsType => q.kind = "jobs"
  BY DEF JobsType
<1>6. q \in ReportType(Sessions) => q.kind = "report"
  BY DEF ReportType
<1>7. q \in DetailType => q.kind = "detail"
  BY DEF DetailType
<1>8. q \in LoginType => q.kind = "login"
  BY DEF LoginType
<1> QED BY <1>1, <1>2, <1>3, <1>4, <1>5, <1>6, <1>7, <1>8 DEF FieldsOK

\* A handler leaves a page of its kind, and what that page waits for was sent or is under way.
Onward(e, p, to, t) == FieldsOK(e.page, to) /\ Turned(e, p, t)
LEMMA FitOnward ==
  ASSUME NEW e, NEW p, NEW to, NEW t
  PROVE  Fit(e, p, t, PrepType) \/ Fit(e, p, t, ListType) \/ Fit(e, p, t, BankType)
           \/ Fit(e, p, t, ResumesType) \/ Fit(e, p, t, JobsType)
           \/ Fit(e, p, t, ReportType(Sessions)) \/ Fit(e, p, t, DetailType)
           \/ Fit(e, p, t, LoginType)
         => Onward(e, p, to, t)
  BY FieldsOf DEF Fit, Onward

\* A page that keeps nothing waits for nothing.
LEMMA PlainWaits ==
  ASSUME NEW p, p.kind \notin Stateful
  PROVE  Sharp(p) = {}
  BY DEF Sharp, Waits, Stateful
LEMMA PlainGoes ==
  ASSUME NEW p, NEW to, FieldsOK(p, to), p.kind \notin Stateful, NEW t
  PROVE  /\ Onward(Nothing(p), p, to, t)
         /\ \A x : RouteOK(x) => Onward(Goes(p, x), p, to, t)
<1>1. Sharp(p) = {}
  BY PlainWaits
<1>2. ASSUME NEW e, e.page = p, Fits(e) PROVE Onward(e, p, to, t)
  BY <1>1, <1>2 DEF Onward, Turned, Ended
<1> QED BY <1>2, FitForms, EffectPage DEF Nothing

LEMMA PressFits ==
  ASSUME FieldsOK(page, path), page.kind = path.at, NEW e \in Presses
  PROVE  /\ Onward(e, page, path, "none")
         /\ page.kind \in {"hub", "list"} => e.send = <<>>
<1>1. CASE page.kind = "prep"
  BY <1>1, FieldsOf, PrepPressFits, FitOnward DEF Presses
<1>2. CASE page.kind \in {"hub", "list"}
  <2>1. e \in HubPresses(page) \cup ListPresses(page)
    BY <1>2 DEF Presses
  <2>2. e.send = <<>>
    BY <2>1 DEF HubPresses, ListPresses, Goes
  <2> QED BY <1>2, <2>1, <2>2, FieldsOf, ListPressFits, FitOnward
<1>3. CASE page.kind = "bank"
  BY <1>3, FieldsOf, BankPressFits, FitOnward DEF Presses
<1>4. CASE page.kind = "resumes"
  BY <1>4, FieldsOf, ResumesPressFits, FitOnward DEF Presses
<1>5. CASE page.kind = "jobs"
  BY <1>5, FieldsOf, JobsPressFits, FitOnward DEF Presses
<1>6. CASE page.kind = "report"
  BY <1>6, FieldsOf, ReportPressFits, FitOnward DEF Presses
<1>7. CASE page.kind = "detail"
  BY <1>7, FieldsOf, DetailPressFits, FitOnward DEF Presses
<1>8. CASE page.kind = "login"
  BY <1>8, FieldsOf, LoginPressFits, FitOnward DEF Presses
<1>9. CASE page.kind \notin Stateful
  <2>1. \E at \in {"login", "welcome", "list", "detail"} : \E id : e = Goes(page, Route(at, id))
    BY <1>9 DEF Presses, Stateful
  <2>2. \A at \in {"login", "welcome", "list", "detail"} : \A id : RouteOK(Route(at, id))
    BY DEF RouteOK, Route, Protected, WithTopBar, Public
  <2>3. page.kind \notin {"hub", "list"}
    BY <1>9 DEF Stateful
  <2> QED BY <1>9, <2>1, <2>2, <2>3, PlainGoes
<1> QED BY <1>1, <1>2, <1>3, <1>4, <1>5, <1>6, <1>7, <1>8, <1>9 DEF Stateful

\* Two answers lead away and leave the flag of what was asked set: that of the login page to
\* the application, that of a session's page to its room.
Gone(e, p, r) ==
  Leaves(e, r) /\ p.kind \in {"detail", "login"} /\ (p.kind = "login" => e.go.at # "room")
LEMMA AnswerFits ==
  ASSUME NEW p, NEW to, FieldsOK(p, to), NEW r, Asked(r), Brought(r),
         p.kind \in {"hub", "list"} => r.op = "listInterviews",
         NEW ok \in BOOLEAN, NEW denied \in BOOLEAN
  PROVE  LET e == Answer(p, r, ok, denied) IN Onward(e, p, to, Tag(r)) \/ (ok /\ Gone(e, p, r))
<1>1. CASE p.kind = "prep"
  BY <1>1, FieldsOf, PrepAnswerFits, FitOnward DEF Answer
<1>2. CASE p.kind \in {"hub", "list"}
  BY <1>2, FieldsOf, ListedFits, FitOnward DEF Answer
<1>3. CASE p.kind = "bank"
  BY <1>3, FieldsOf, BankAnswerFits, FitOnward DEF Answer
<1>4. CASE p.kind = "resumes"
  BY <1>4, FieldsOf, ResumesAnswerFits, FitOnward DEF Answer
<1>5. CASE p.kind = "jobs"
  BY <1>5, FieldsOf, JobsAnswerFits, FitOnward DEF Answer
<1>6. CASE p.kind = "report"
  BY <1>6, FieldsOf, ReportAnswerFits, FitOnward DEF Answer
<1>7. CASE p.kind = "detail"
  BY <1>7, FieldsOf, DetailAnswerFits, FitOnward DEF Answer, Gone
<1>8. CASE p.kind = "login"
  <2>1. Answer(p, r, ok, denied) = LoginAnswer(p, r, ok)
    BY <1>8 DEF Answer
  <2>2. LoginAnswer(p, r, ok).go.at # "room"
    BY DEF LoginAnswer, Authorized, Exchanged, LoginFailed, Nothing, Shows, Goes, Stay, Route
  <2> QED BY <1>8, <2>1, <2>2, FieldsOf, LoginAnswerFits, FitOnward DEF Gone
<1>9. CASE p.kind \notin Stateful
  <2>1. Answer(p, r, ok, denied) = Nothing(p)
    BY <1>9 DEF Answer, Stateful
  <2> QED BY <1>9, <2>1, PlainGoes
<1> QED BY <1>1, <1>2, <1>3, <1>4, <1>5, <1>6, <1>7, <1>8, <1>9 DEF Stateful

\* Nobody waits for what is read beside a page.
LEMMA BesideFits ==
  ASSUME NEW p, NEW to, FieldsOK(p, to), NEW t \in {"me", "parts"}
  PROVE  Onward(Nothing(p), p, to, t)
<1>1. \A w \in Sharp(p) : t \notin w
  BY DEF Sharp, Lists, Waits, When, ImportWaits, PrepWaits, BankWaits, ResumesWaits, JobsWaits,
         ReportWaits, DetailWaits, LoginWaits
<1>2. Nothing(p).page = p /\ Fits(Nothing(p))
  BY FitForms, EffectPage DEF Nothing
<1> QED BY <1>1, <1>2 DEF Onward, Turned, Ended

LEMMA HandledFits ==
  ASSUME NEW r, NEW to, FieldsOK(Asker(r), to), Asked(r), Brought(r),
         r.mine /\ Asker(r).kind \in {"hub", "list"} => r.op \in {"listInterviews", "me"},
         NEW ok \in BOOLEAN, NEW denied \in BOOLEAN
  PROVE  LET p == Asker(r)
             e == Handled(r, ok, denied) IN
         /\ Fits(e)
         /\ r.mine => Onward(e, p, to, Tag(r)) \/ (ok /\ Gone(e, p, r))
         /\ p.kind \in {"hub", "list"} => e.send = <<>>
<1> DEFINE p == Asker(r)
           e == Handled(r, ok, denied)
<1>1. CASE r.op \in {"me", "parts"}
  <2>1. e = Nothing(p) /\ Tag(r) = r.op
    BY <1>1 DEF Handled, Tag
  <2>2. Onward(Nothing(p), p, to, r.op)
    BY <1>1, BesideFits
  <2> QED BY <2>1, <2>2 DEF Onward, Turned, Nothing, Shows
<1>2. CASE r.op = "exchange" /\ ~r.mine
  <2>1. e = Nothing(p)
    BY <1>2 DEF Handled
  <2> QED BY <1>2, <2>1, FitForms DEF Nothing, Shows
<1>3. CASE r.op \notin {"me", "parts"} /\ ~(r.op = "exchange" /\ ~r.mine)
  <2>1. e = Answer(p, r, ok, denied)
    BY <1>3 DEF Handled
  <2> HIDE DEF p, e
  <2>2. p.kind \in {"hub", "list"} => e = Listed(p, r.val.ids, ok, denied)
    BY <2>1 DEF Answer
  <2>3. p.kind \in {"hub", "list"} => Fits(e) /\ e.send = <<>>
    BY <2>2, FitForms DEF Listed, Shows
  <2>4. r.mine \/ p.kind \notin {"hub", "list"} =>
          Onward(e, p, to, Tag(r)) \/ (ok /\ Gone(e, p, r))
    BY <1>3, <2>1, AnswerFits DEF p
  <2> QED BY <2>3, <2>4 DEF Onward, Turned, Gone, Leaves, p, e
<1> QED BY <1>1, <1>2, <1>3

-----------------------------------------------------------------------------
(* What the question bank does about the list it shows. *)

\* A request that changes questions whether or not it is told to have failed.
ChangeOps == {"deleteQuestions", "patch"}
AsksOne(e, ops) == \E r : e.send = <<r>> /\ r.op \in ops
\* Nothing that a page of a session alone asks for, and not the list, which is for load to ask.
Ordinary(e) == e.send = <<>> \/ \E r : e.send = <<r>> /\ r.op \notin {"importSession", "listQuestions"}
\* What leaves the reading of the list alone: an error is forgotten only for a new change.
Steady(e, p) ==
  /\ Ordinary(e) /\ e.page.loading = p.loading
  /\ (p.failed => e.page.failed) \/ AsksOne(e, ChangeOps)
\* What has the list read again.
Rereads(e) == e.page.loading /\ AsksOne(e, {"listQuestions"})

LEMMA OrdinaryForms ==
  /\ \A q : Ordinary(Shows(q))
  /\ \A q, op, ids : op \notin {"importSession", "listQuestions"} => Ordinary(Sends(q, op, ids))
  /\ \A q, r : r.op \notin {"importSession", "listQuestions"} => Ordinary(Asks(q, r))
  /\ \A q, op, s, k : op \notin {"importSession", "listQuestions"} => Ordinary(AsksFor(q, op, s, k))
<1>1. \A q, r : r.op \notin {"importSession", "listQuestions"} => Ordinary(Asks(q, r))
  BY DEF Ordinary, Asks
<1>2. \A op, s, k : Req(op, s).op = op /\ [Req(op, s) EXCEPT !.known = k].op = op
  BY DEF Req
<1>3. \A q : Ordinary(Shows(q))
  BY DEF Ordinary, Shows
<1> QED BY <1>1, <1>2, <1>3 DEF Sends, AsksFor

LEMMA ImportOrdinary ==
  ASSUME NEW d, NEW x, NEW c, NEW e \in ImportPresses(d, x, c) PROVE Ordinary(e)
<1>1. \A s, image : /\ Ordinary(HandlePreview(d, s, x)) /\ Ordinary(HandleFile(d, s, image, x))
                    /\ Ordinary(PickWpsFile(d, s, x))
  BY OrdinaryForms DEF HandlePreview, HandleFile, PickWpsFile
<1>2. /\ Ordinary(OpenWpsPicker(d)) /\ Ordinary(SearchWps(d)) /\ Ordinary(HandleConfirm(d))
      /\ \A q : Ordinary(ToggleSkip(d, q)) /\ Ordinary(RemovePreviewItem(d, q))
  BY OrdinaryForms DEF OpenWpsPicker, SearchWps, HandleConfirm, ToggleSkip, RemovePreviewItem
<1>3. CASE e \in PreviewDialog(d)
  BY <1>2, <1>3, OrdinaryForms DEF PreviewDialog, When
<1>4. CASE e \in WpsDialog(d, x)
  BY <1>1, <1>2, <1>4, OrdinaryForms DEF WpsDialog, When
<1>5. CASE e \in ImportForm(d, x, c)
  BY <1>1, <1>2, <1>5, OrdinaryForms DEF ImportForm, When
<1> QED BY <1>3, <1>4, <1>5 DEF ImportPresses
LEMMA ImportAnswerOrdinary ==
  ASSUME NEW d, NEW r, NEW ok PROVE Ordinary(ImportAnswer(d, r, ok))
<1>1. \A s, x : /\ Ordinary(Extracted(d, s, x, ok)) /\ Ordinary(TextParsed(d, s, x))
                /\ Ordinary(ImageParsed(d, s, x, ok)) /\ Ordinary(WpsPicked(d, s, x, ok))
  BY OrdinaryForms DEF Extracted, TextParsed, ImageParsed, WpsPicked
<1>2. Ordinary(WpsListed(d, ok))
  BY OrdinaryForms DEF WpsListed
<1> QED BY <1>1, <1>2 DEF ImportAnswer
LEMMA InImportSteady ==
  ASSUME NEW p \in BankType, NEW e, Calm(e), Ordinary(e) PROVE Steady(InImport(p, e), p)
<1> DEFINE q == [p EXCEPT !.import = e.page]
           h == InImport(p, e)
<1>1. q.loading = p.loading /\ q.failed = p.failed
  BY DEF BankType
<1> HIDE DEF q
<1>2. h.page = q /\ h.send = e.send
  BY DEF InImport, Then, Calm, q
<1> HIDE DEF h
<1> QED BY <1>1, <1>2 DEF Steady, Ordinary, h

LEMMA SteadyForms ==
  ASSUME NEW p, NEW q, q.loading = p.loading
  PROVE  /\ q.failed = p.failed => Steady(Shows(q), p)
         /\ \A r : r.op \in ChangeOps => Steady(Asks(q, r), p)
<1>1. q.failed = p.failed => Steady(Shows(q), p)
  BY OrdinaryForms, EffectPage DEF Steady
<1>2. ASSUME NEW r, r.op \in ChangeOps PROVE Steady(Asks(q, r), p)
  <2>1. AsksOne(Asks(q, r), ChangeOps)
    BY <1>2 DEF AsksOne, Asks
  <2> QED BY <1>2, <2>1, OrdinaryForms, EffectPage DEF Steady, ChangeOps
<1> QED BY <1>1, <1>2

LEMMA BankSteady ==
  ASSUME NEW p \in BankType, NEW c, NEW e \in BankPresses(p, c) PROVE Steady(e, p)
<1>1. /\ \A x : Steady(Shows([p EXCEPT !.dialog = x]), p)
      /\ \A x : Steady(Shows([p EXCEPT !.renaming = x]), p)
      /\ \A x : Steady(Shows([p EXCEPT !.selected = x]), p)
      /\ Steady(Shows([p EXCEPT !.import.open = TRUE]), p)
  <2>1. ASSUME NEW x
        PROVE  /\ [p EXCEPT !.dialog = x].loading = p.loading
               /\ [p EXCEPT !.dialog = x].failed = p.failed
               /\ [p EXCEPT !.renaming = x].loading = p.loading
               /\ [p EXCEPT !.renaming = x].failed = p.failed
               /\ [p EXCEPT !.selected = x].loading = p.loading
               /\ [p EXCEPT !.selected = x].failed = p.failed
    BY DEF BankType
  <2>2. /\ [p EXCEPT !.import.open = TRUE].loading = p.loading
        /\ [p EXCEPT !.import.open = TRUE].failed = p.failed
    BY DEF BankType
  <2> QED BY <2>1, <2>2, SteadyForms
<1>2. /\ \A r : r.op = "patch" => Steady(Asks([p EXCEPT !.saving = TRUE, !.failed = FALSE], r), p)
      /\ \A r : r.op = "deleteQuestions" =>
                  Steady(Asks([p EXCEPT !.deleting = TRUE, !.failed = FALSE], r), p)
  <2> DEFINE q1 == [p EXCEPT !.saving = TRUE, !.failed = FALSE]
             q2 == [p EXCEPT !.deleting = TRUE, !.failed = FALSE]
  <2>1. q1.loading = p.loading /\ q2.loading = p.loading
    BY DEF BankType
  <2> HIDE DEF q1, q2
  <2>2. \A r : r.op \in ChangeOps => Steady(Asks(q1, r), p) /\ Steady(Asks(q2, r), p)
    BY <2>1, SteadyForms
  <2> QED BY <2>2 DEF ChangeOps, q1, q2
<1>3. /\ \A b : Steady(HandleRenameBank(p, b), p)
      /\ \A ids, from : Steady(HandleDelete(p, ids, from), p)
      /\ Steady(HandleSaveEdit(p), p)
  <2> DEFINE q1 == [p EXCEPT !.saving = TRUE, !.failed = FALSE]
             q2 == [p EXCEPT !.deleting = TRUE, !.failed = FALSE]
             q3 == [p EXCEPT !.renaming = 0]
  <2>1. Steady(Shows(q3), p)
    BY <1>1
  <2>2. /\ \A r : r.op = "patch" => Steady(Asks(q1, r), p)
        /\ \A r : r.op = "deleteQuestions" => Steady(Asks(q2, r), p)
    BY <1>2
  <2>3. ASSUME NEW b PROVE Steady(HandleRenameBank(p, b), p)
    <3> DEFINE r == [Req("patch", InBank(p, p.renaming)) EXCEPT !.to = b, !.from = "rename"]
    <3>1. r.op = "patch"
      BY DEF Req
    <3>2. HandleRenameBank(p, b) \in {Shows(q3), Asks(q1, r)}
      BY DEF HandleRenameBank
    <3> HIDE DEF r, q1, q3
    <3> QED BY <2>1, <2>2, <3>1, <3>2
  <2>4. ASSUME NEW ids, NEW from PROVE Steady(HandleDelete(p, ids, from), p)
    <3> DEFINE r == [Req("deleteQuestions", ids) EXCEPT !.from = from]
    <3>1. r.op = "deleteQuestions" /\ HandleDelete(p, ids, from) = Asks(q2, r)
      BY DEF Req, HandleDelete
    <3> HIDE DEF r, q2
    <3> QED BY <2>2, <3>1
  <2>5. Steady(HandleSaveEdit(p), p)
    <3> DEFINE r == [Req("patch", IF p.dialog.at = "edit" THEN {p.dialog.id} ELSE {})
                     EXCEPT !.from = "edit"]
    <3>1. r.op = "patch" /\ HandleSaveEdit(p) = Asks(q1, r)
      BY DEF Req, HandleSaveEdit
    <3> HIDE DEF r, q1
    <3> QED BY <2>2, <3>1
  <2> QED BY <2>3, <2>4, <2>5
<1>4. /\ Steady(Dismiss(p), p)
      /\ \A at, x : Steady(Opened(p, at, x), p)
      /\ \A x : Steady(ToggleSelect(p, x), p)
  BY <1>1 DEF Dismiss, Opened, ToggleSelect
<1>5. ASSUME e \in BankList(p, c) PROVE Steady(e, p)
  <2> DEFINE S == Existing(p.shown)
  <2> HIDE DEF S
  <2>1. \/ e \in {Opened(p, at, q) : at \in {"edit", "delete"} \cap c, q \in S}
        \/ e \in {Opened(p, at, p.shown[q]) : at \in {"add", "deleteBank"} \cap c, q \in S}
        \/ e \in {Shows([p EXCEPT !.renaming = p.shown[q]]) : q \in S}
        \/ e \in {ToggleSelect(p, q) : q \in S}
        \/ e \in {HandleRenameBank(p, b) : b \in 1..Banks}
        \/ e = Shows([p EXCEPT !.renaming = 0])
    BY <1>5 DEF BankList, When, S
  <2>2. ASSUME e \in {Opened(p, at, q) : at \in {"edit", "delete"} \cap c, q \in S}
        PROVE  Steady(e, p)
    BY <2>2, <1>4
  <2>3. ASSUME e \in {Opened(p, at, p.shown[q]) : at \in {"add", "deleteBank"} \cap c, q \in S}
        PROVE  Steady(e, p)
    BY <2>3, <1>4
  <2>4. ASSUME e \in {Shows([p EXCEPT !.renaming = p.shown[q]]) : q \in S} PROVE Steady(e, p)
    BY <2>4, <1>1
  <2>5. ASSUME e \in {ToggleSelect(p, q) : q \in S} PROVE Steady(e, p)
    BY <2>5, <1>4
  <2>6. ASSUME e \in {HandleRenameBank(p, b) : b \in 1..Banks} PROVE Steady(e, p)
    BY <2>6, <1>3
  <2> QED BY <2>1, <2>2, <2>3, <2>4, <2>5, <2>6, <1>1
<1>6. ASSUME e \in BankTools(p, c) PROVE Steady(e, p)
  BY <1>1, <1>3, <1>5, <1>6 DEF BankTools, When
<1>7. ASSUME e \in BankDialogs(p) PROVE Steady(e, p)
  BY <1>3, <1>4, <1>7 DEF BankDialogs, When
<1> QED BY <1>6, <1>7, ImportCalm, ImportOrdinary, InImportSteady DEF BankPresses

\* What the page makes of an answer.
ListTaken(e, p, r, ok) ==
  /\ e.send = <<>> /\ ~e.page.loading /\ (~ok => e.page.failed)
  /\ (p.failed => e.page.failed) /\ (ok => e.page.shown = r.val.bank)
Followed(e, p, r, ok) ==
  /\ Steady(e, p) /\ r.op # "listQuestions" /\ ~(r.op = "confirmImport" /\ ok)
  /\ r.op \in ChangeOps => e.page.failed \/ AsksOne(e, ChangeOps)
LEMMA BankFollows ==
  ASSUME NEW p \in BankType, NEW r, NEW ok \in BOOLEAN
  PROVE  LET e == BankAnswer(p, r, ok, r.val) IN
         \/ Rereads(e)
         \/ r.op = "listQuestions" /\ ListTaken(e, p, r, ok)
         \/ Followed(e, p, r, ok)
<1>1. ASSUME NEW q, {"loading", "failed"} \subseteq DOMAIN q, NEW after
      PROVE  Rereads(LoadBank(q, after))
  <2> DEFINE l == [q EXCEPT !.loading = TRUE, !.failed = FALSE]
             a == [Req("listQuestions", {}) EXCEPT !.from = after]
  <2>1. l.loading /\ a.op = "listQuestions"
    BY <1>1 DEF Req
  <2> HIDE DEF l, a
  <2>2. Asks(l, a).page = l /\ Asks(l, a).send = <<a>>
    BY DEF Asks
  <2> QED BY <2>1, <2>2 DEF LoadBank, Rereads, AsksOne, l, a
<1>2. /\ \A ats, x : {"loading", "failed"} \subseteq DOMAIN [DialogDone(p, ats) EXCEPT !.selected = x]
      /\ \A ats, x : {"loading", "failed"} \subseteq DOMAIN [DialogDone(p, ats) EXCEPT !.selected = @ \ x]
      /\ \A ats : {"loading", "failed"} \subseteq DOMAIN DialogDone(p, ats)
      /\ \A x : /\ {"loading", "failed"} \subseteq DOMAIN [p EXCEPT !.selected = x]
                /\ {"loading", "failed"} \subseteq DOMAIN [p EXCEPT !.renaming = x]
                /\ {"loading", "failed"} \subseteq DOMAIN [p EXCEPT !.import = x]
  BY DEF BankType, DialogDone
<1>3. CASE r.op = "listQuestions"
  <2> DEFINE l == [p EXCEPT !.loading = FALSE, !.failed = @ \/ ~ok,
                            !.shown = IF ok THEN r.val.bank ELSE @]
             q == BankOver(l, r.from)
  <2>1. BankAnswer(p, r, ok, r.val) = Shows(q)
    BY <1>3 DEF BankAnswer, BankListed, ImportOps
  <2>2. /\ ~l.loading /\ (~ok => l.failed) /\ (p.failed => l.failed)
        /\ ok => l.shown = r.val.bank
        /\ {"loading", "failed", "shown"} \subseteq DOMAIN l
    BY DEF BankType
  <2> HIDE DEF l
  <2>3. q.loading = l.loading /\ q.failed = l.failed /\ q.shown = l.shown
    BY <2>2 DEF BankOver
  <2> HIDE DEF q
  <2>4. Shows(q).send = <<>> /\ Shows(q).page = q
    BY DEF Shows
  <2> QED BY <1>3, <2>1, <2>2, <2>3, <2>4 DEF ListTaken
<1>4. CASE r.op = "deleteQuestions"
  <2> DEFINE q == [p EXCEPT !.failed = TRUE, !.deleting = FALSE]
  <2>1. BankAnswer(p, r, ok, r.val) = BankDeleted(p, r.ids, r.from, ok)
    BY <1>4 DEF BankAnswer, ImportOps
  <2>2. ok => Rereads(BankDeleted(p, r.ids, r.from, ok))
    BY <1>1, <1>2 DEF BankDeleted
  <2>3. ~ok => BankDeleted(p, r.ids, r.from, ok) = Shows(q)
    BY DEF BankDeleted
  <2>4. q.loading = p.loading /\ q.failed
    BY DEF BankType
  <2> HIDE DEF q
  <2>5. Steady(Shows(q), p) /\ Shows(q).page.failed
    BY <2>4, OrdinaryForms, EffectPage DEF Steady
  <2> QED BY <1>4, <2>1, <2>2, <2>3, <2>5 DEF Followed
<1>5. CASE r.op = "patch"
  <2> DEFINE q == [p EXCEPT !.failed = TRUE, !.saving = FALSE]
             a == [Req("patch", r.ids \ {Next1(r.ids)}) EXCEPT !.to = r.to, !.from = "rename"]
  <2>1. \/ BankAnswer(p, r, ok, r.val) = Shows(q)
        \/ BankAnswer(p, r, ok, r.val) = Asks(p, a)
        \/ Rereads(BankAnswer(p, r, ok, r.val))
    <3>1. BankAnswer(p, r, ok, r.val) = BankPatched(p, r, ok)
      BY <1>5 DEF BankAnswer, ImportOps
    <3> QED BY <1>1, <1>2, <3>1 DEF BankPatched
  <2>2. q.loading = p.loading /\ q.failed /\ a.op = "patch"
    BY DEF BankType, Req
  <2> HIDE DEF q, a
  <2>3. Steady(Shows(q), p) /\ Shows(q).page.failed
    BY <2>2, OrdinaryForms, EffectPage DEF Steady
  <2>4. Steady(Asks(p, a), p) /\ AsksOne(Asks(p, a), ChangeOps)
    BY <2>2, SteadyForms DEF ChangeOps, AsksOne, Asks
  <2> QED BY <1>5, <2>1, <2>3, <2>4 DEF Followed
<1>6. CASE r.op = "confirmImport"
  <2> DEFINE q == [p EXCEPT !.import = Confirmed(@, ok)]
  <2>1. BankAnswer(p, r, ok, r.val) = IF ok THEN LoadBank(q, "page") ELSE Shows(q)
    BY <1>6 DEF BankAnswer, ImportedForBank, ImportOps
  <2>2. q.loading = p.loading /\ q.failed = p.failed /\ {"loading", "failed"} \subseteq DOMAIN q
    BY DEF BankType
  <2> HIDE DEF q
  <2>3. Rereads(LoadBank(q, "page")) /\ Steady(Shows(q), p)
    BY <1>1, <2>2, SteadyForms
  <2> QED BY <1>6, <2>1, <2>3 DEF Followed, ChangeOps
<1>7. CASE r.op \notin {"listQuestions", "deleteQuestions", "patch", "confirmImport"}
  <2>1. \/ BankAnswer(p, r, ok, r.val) = InImport(p, ImportAnswer(p.import, r, ok))
        \/ BankAnswer(p, r, ok, r.val) = Nothing(p)
    BY <1>7 DEF BankAnswer
  <2>2. Steady(InImport(p, ImportAnswer(p.import, r, ok)), p)
    BY ImportAnswerCalm, ImportAnswerOrdinary, InImportSteady
  <2>3. Steady(Nothing(p), p)
    BY SteadyForms DEF Nothing
  <2> QED BY <1>7, <2>1, <2>2, <2>3 DEF Followed, ChangeOps
<1> QED BY <1>3, <1>4, <1>5, <1>6, <1>7
=============================================================================
