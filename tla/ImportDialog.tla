---------------------------- MODULE ImportDialog ----------------------------
(***************************************************************************)
(* components/QuestionImportModal.tsx, the dialog with which the question   *)
(* bank and the preparation page import questions: a text, a file or a cloud *)
(* document becomes a preview, and confirming it stores the items that are   *)
(* not skipped.                                                             *)
(*                                                                         *)
(* A text is the set of the questions it holds. The dialog's state is kept   *)
(* while it is closed, and what arrives then is still put into it. Its       *)
(* handlers are effects (PageEffects) on the dialog's record d; "can" names   *)
(* the ways in which the candidate imports.                                 *)
(***************************************************************************)
EXTENDS PageEffects, FiniteSets

CONSTANTS Questions

\* "skip" of a preview item is its membership in "active".
NoPreview == [on |-> FALSE, items |-> {}, active |-> {}]
WpsClosed == [open |-> FALSE, loading |-> FALSE, listed |-> FALSE]
Reset == [open |-> FALSE, filled |-> FALSE, parsing |-> FALSE, importing |-> FALSE,
          preview |-> NoPreview, wps |-> WpsClosed]
ImportClosed == Reset
ImportType ==
  [open : BOOLEAN, filled : BOOLEAN, parsing : BOOLEAN, importing : BOOLEAN,
   preview : [on : BOOLEAN, items : SUBSET Questions, active : SUBSET Questions],
   wps : [open : BOOLEAN, loading : BOOLEAN, listed : BOOLEAN]]

\* Questions the bank is known to hold are skipped at first.
BuildPreview(d, questions, existing) ==
  [d EXCEPT !.preview = [on |-> TRUE, items |-> questions, active |-> questions \ existing]]

-----------------------------------------------------------------------------
\* A text on its way into a preview, with the questions known when it was given.
AsksFor(d, op, questions, existing) ==
  Asks(d, [Req(op, questions) EXCEPT !.known = existing])

HandlePreview(d, questions, existing) ==
  AsksFor([d EXCEPT !.parsing = TRUE], "parseText", questions, existing)
HandleFile(d, questions, image, existing) ==
  AsksFor([d EXCEPT !.parsing = TRUE], IF image THEN "parseImage" ELSE "extract",
          questions, existing)
\* The words of a document go to the server like pasted ones.
Extracted(d, questions, existing, ok) ==
  IF ok /\ questions # {} THEN AsksFor(d, "parseText", questions, existing)
  ELSE Shows([d EXCEPT !.parsing = FALSE])
\* A parse that fails falls back to splitting the lines: the questions are the same.
TextParsed(d, questions, existing) ==
  Shows(LET done == [d EXCEPT !.parsing = FALSE] IN
        IF questions = {} THEN done ELSE BuildPreview(done, questions, existing))
ImageParsed(d, questions, existing, ok) ==
  TextParsed(d, IF ok THEN questions ELSE {}, existing)

OpenWpsPicker(d) ==
  Sends([d EXCEPT !.wps = [open |-> TRUE, loading |-> TRUE, listed |-> FALSE]], "importList", {})
SearchWps(d) == Sends([d EXCEPT !.wps.loading = TRUE], "importList", {})
WpsListed(d, ok) == Shows([d EXCEPT !.wps.loading = FALSE, !.wps.listed = ok])
PickWpsFile(d, questions, existing) ==
  AsksFor([d EXCEPT !.wps.loading = TRUE], "importWps", questions, existing)
\* An error takes the place of the list.
WpsPicked(d, questions, existing, ok) ==
  Shows(IF ok /\ questions # {}
        THEN BuildPreview([d EXCEPT !.wps.open = FALSE, !.wps.loading = FALSE],
                          questions, existing)
        ELSE [d EXCEPT !.wps.loading = FALSE, !.wps.listed = FALSE])

ToggleSkip(d, q) ==
  Shows([d EXCEPT !.preview.active = IF q \in @ THEN @ \ {q} ELSE @ \cup {q}])
RemovePreviewItem(d, q) ==
  Shows([d EXCEPT !.preview.items = @ \ {q}, !.preview.active = @ \ {q}])

MayConfirm(d) == d.preview.active # {} /\ ~d.importing
HandleConfirm(d) == Sends([d EXCEPT !.importing = TRUE], "confirmImport", d.preview.active)
\* The form is emptied only when the questions are stored.
Confirmed(d, ok) == IF ok THEN Reset ELSE [d EXCEPT !.importing = FALSE]

-----------------------------------------------------------------------------
\* One of three dialogs is shown: the preview, the cloud picker, or the form.
PreviewDialog(d) ==
  {Shows(Reset)} \cup When(MayConfirm(d), {HandleConfirm(d)})
  \cup {ToggleSkip(d, q) : q \in d.preview.items}
  \cup {RemovePreviewItem(d, q) : q \in d.preview.items}
WpsDialog(d, existing) ==
  {Shows(Reset)}
  \cup When(~d.wps.loading,
         {SearchWps(d)}
         \cup When(d.wps.listed, {PickWpsFile(d, s, existing) : s \in SUBSET Questions}))
ImportForm(d, existing, can) ==
  {Shows(Reset)}
  \cup When("wps" \in can, {OpenWpsPicker(d)})
  \cup When("text" \in can /\ ~d.filled, {Shows([d EXCEPT !.filled = TRUE])})
  \cup When(d.filled /\ ~d.parsing,
         {HandlePreview(d, s, existing) : s \in SUBSET Questions})
  \cup When("file" \in can,
         {HandleFile(d, s, image, existing) : s \in SUBSET Questions, image \in BOOLEAN})

ImportPresses(d, existing, can) ==
  IF d.preview.on THEN PreviewDialog(d)
  ELSE IF d.wps.open THEN WpsDialog(d, existing) ELSE ImportForm(d, existing, can)

ImportOps == {"extract", "parseText", "parseImage", "importList", "importWps"}
ImportAnswer(d, r, ok) ==
  CASE r.op = "extract" -> Extracted(d, r.ids, r.known, ok)
    [] r.op = "parseText" -> TextParsed(d, r.ids, r.known)
    [] r.op = "parseImage" -> ImageParsed(d, r.ids, r.known, ok)
    [] r.op = "importList" -> WpsListed(d, ok)
    [] OTHER -> WpsPicked(d, r.ids, r.known, ok)

\* The requests one of which ends each wait the dialog shows.
ImportWaits(d) ==
  When(d.parsing, {{"extract", "parseText", "parseImage"}})
  \cup When(d.importing, {{"confirmImport"}})
  \cup When(d.wps.loading, {{"importList", "importWps"}})
=============================================================================
