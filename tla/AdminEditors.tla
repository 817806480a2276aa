---------------------------- MODULE AdminEditors ----------------------------
(* The admin pages that list rows and edit one of them in a dialog. Every     *)
(* page is the same machine with policies of its own: what its handlers mark, *)
(* reset and close, and which of its controls are switched off meanwhile. The *)
(* requests of one page overlap, and their answers come in any order.         *)
EXTENDS Naturals, FiniteSets

CONSTANTS
    None,         \* no row, no request, no page
    Rows,         \* what the page edits: articles, packages, ...
    Slots         \* how many requests may be under way at once

VARIABLES
    edPage,       \* the page that is open
    edRows,       \* the rows the backend has
    edList,       \* the rows the page lists
    edForm,       \* the form: the row it saves to, the row it shows, its text
    edDialog,     \* the dialog is open
    edSubmitting, \* isSubmittingForm
    edLoading,    \* isLoadingDetail
    edBusy,       \* the row whose controls are switched off
    edBlocked,    \* authBlocked: the backend has refused the administrator
    edCalls       \* the requests under way

editorVars == <<edPage, edRows, edList, edForm, edDialog, edSubmitting, edLoading, edBusy,
                edBlocked, edCalls>>

-----------------------------------------------------------------------------
(* Policies. A load: who is shut out by 401 and 403, whose list is emptied by *)
(* any error, and is there a button. A save: is the form locked meanwhile, and *)
(* does a saved change empty it as a creation does. An edit: is the row marked, *)
(* does the dialog open even when the detail did not come. A deletion: is the *)
(* row marked, the form emptied, the dialog closed when it showed that row. A *)
(* reset of the form: does it also call off the waiting for a detail.         *)
ArticlesLoad   == [blocks |-> TRUE, empties |-> FALSE]
ArticlesSave   == [locks |-> TRUE, resetsChange |-> TRUE]
ArticlesEdit   == [marks |-> FALSE, opens |-> "always"]
ArticlesToggle == [offered |-> TRUE, marks |-> TRUE]
ArticlesDelete == [marks |-> TRUE, resets |-> TRUE, closes |-> FALSE]
ArticlesReset  == [stopsLoading |-> FALSE]
ArticlesList   == [refresh |-> TRUE, new |-> "unlocked", edit |-> "idle", delete |-> "idle"]
ArticlesDialog == [crossResets |-> FALSE, cancel |-> "unlocked", hides |-> "form"]

CategoriesLoad   == [blocks |-> TRUE, empties |-> FALSE]
CategoriesSave   == [locks |-> TRUE, resetsChange |-> TRUE]
CategoriesEdit   == [marks |-> FALSE, opens |-> "always"]
CategoriesToggle == [offered |-> TRUE, marks |-> TRUE]
CategoriesDelete == [marks |-> TRUE, resets |-> TRUE, closes |-> FALSE]
CategoriesReset  == [stopsLoading |-> FALSE]
CategoriesList   == [refresh |-> TRUE, new |-> "unlocked", edit |-> "idle", delete |-> "idle"]
CategoriesDialog == [crossResets |-> FALSE, cancel |-> "unlocked", hides |-> "form"]

PagesLoad   == [blocks |-> TRUE, empties |-> FALSE]
PagesSave   == [locks |-> TRUE, resetsChange |-> TRUE]
PagesEdit   == [marks |-> FALSE, opens |-> "always"]
PagesToggle == [offered |-> TRUE, marks |-> TRUE]
PagesDelete == [marks |-> TRUE, resets |-> TRUE, closes |-> FALSE]
PagesReset  == [stopsLoading |-> FALSE]
PagesList   == [refresh |-> TRUE, new |-> "unlocked", edit |-> "idle", delete |-> "idle"]
PagesDialog == [crossResets |-> FALSE, cancel |-> "unlocked", hides |-> "form"]

PackagesLoad   == [blocks |-> TRUE, empties |-> FALSE]
PackagesSave   == [locks |-> TRUE, resetsChange |-> TRUE]
PackagesEdit   == [marks |-> TRUE, opens |-> "always"]
PackagesDelete == [marks |-> TRUE, resets |-> TRUE, closes |-> TRUE]
PackagesReset  == [stopsLoading |-> TRUE]
PackagesList   == [refresh |-> TRUE, new |-> "unlocked", edit |-> "idle and unlocked",
                   delete |-> "idle and unlocked"]
PackagesDialog == [crossResets |-> FALSE, cancel |-> "unlocked", hides |-> "form"]

SoftwareLoad   == [blocks |-> TRUE, empties |-> FALSE]
SoftwareSave   == [locks |-> TRUE, resetsChange |-> FALSE]
SoftwareEdit   == [marks |-> TRUE, opens |-> "always"]
SoftwareDelete == [marks |-> TRUE, resets |-> TRUE, closes |-> FALSE]
SoftwareReset  == [stopsLoading |-> TRUE]
SoftwareList   == [refresh |-> TRUE, new |-> "unlocked", edit |-> "idle",
                   delete |-> "idle and unlocked"]
SoftwareDialog == [crossResets |-> FALSE, cancel |-> "unlocked", hides |-> "fields"]

ServicesLoad   == [blocks |-> FALSE, empties |-> TRUE]
ServicesSave   == [locks |-> FALSE, resetsChange |-> TRUE]
ServicesEdit   == [marks |-> FALSE, opens |-> "success"]
ServicesDelete == [marks |-> FALSE, resets |-> FALSE, closes |-> FALSE]
ServicesReset  == [stopsLoading |-> FALSE]
ServicesList   == [refresh |-> FALSE, new |-> "always", edit |-> "always", delete |-> "always"]
ServicesDialog == [crossResets |-> TRUE, cancel |-> "always", hides |-> "form"]

DownloadsLoad   == [blocks |-> FALSE, empties |-> TRUE]
DownloadsSave   == [locks |-> FALSE, resetsChange |-> TRUE]
DownloadsEdit   == [marks |-> FALSE, opens |-> "success"]
DownloadsDelete == [marks |-> FALSE, resets |-> FALSE, closes |-> FALSE]
DownloadsReset  == [stopsLoading |-> FALSE]
DownloadsList   == [refresh |-> FALSE, new |-> "always", edit |-> "always", delete |-> "always"]
DownloadsDialog == [crossResets |-> TRUE, cancel |-> "always", hides |-> "form"]

\* Packages, software, services and downloads are published in their forms.
NoToggle == [offered |-> FALSE, marks |-> FALSE]
Editor(load, save, edit, toggle, delete, reset, list, dialog) ==
    [load |-> load, save |-> save, edit |-> edit, toggle |-> toggle, delete |-> delete,
     reset |-> reset, list |-> list, dialog |-> dialog]

Articles   == Editor(ArticlesLoad, ArticlesSave, ArticlesEdit, ArticlesToggle, ArticlesDelete,
                     ArticlesReset, ArticlesList, ArticlesDialog)
Categories == Editor(CategoriesLoad, CategoriesSave, CategoriesEdit, CategoriesToggle,
                     CategoriesDelete, CategoriesReset, CategoriesList, CategoriesDialog)
DocPages   == Editor(PagesLoad, PagesSave, PagesEdit, PagesToggle, PagesDelete, PagesReset,
                     PagesList, PagesDialog)
Packages   == Editor(PackagesLoad, PackagesSave, PackagesEdit, NoToggle, PackagesDelete,
                     PackagesReset, PackagesList, PackagesDialog)
Software   == Editor(SoftwareLoad, SoftwareSave, SoftwareEdit, NoToggle, SoftwareDelete,
                     SoftwareReset, SoftwareList, SoftwareDialog)
Services   == Editor(ServicesLoad, ServicesSave, ServicesEdit, NoToggle, ServicesDelete,
                     ServicesReset, ServicesList, ServicesDialog)
Downloads  == Editor(DownloadsLoad, DownloadsSave, DownloadsEdit, NoToggle, DownloadsDelete,
                     DownloadsReset, DownloadsList, DownloadsDialog)
Editors == {Articles, Categories, DocPages, Packages, Software, Services, Downloads}

-----------------------------------------------------------------------------
(* The form: `to` is the row a save goes to, None for a creation; `text` says  *)
(* whether the administrator has typed.                                        *)
Blank == [to |-> None, text |-> "blank"]
Forms == [to : Rows \cup {None}, text : {"blank", "loaded", "typed"}]

(* A request: the handler, its row, what the handler remembers of the form,   *)
(* how far it is, and the backend's answer. "again" is the list that a handler *)
(* reads once more before it lets go of its controls.                         *)
Calls == [op : {"load", "save", "edit", "toggle", "delete"}, row : Rows \cup {None}, form : Forms,
          at : {"sent", "answered", "sent again", "answered again"},
          answer : {"none", "ok", "denied", "failed"}, rows : SUBSET Rows]

EditorAssumption ==
    None \notin Rows /\ None \notin Editors /\ None \notin Calls /\ IsFiniteSet(Slots)

Init ==
    /\ edPage = None /\ edRows = {} /\ edList = {}
    /\ edForm = Blank /\ edDialog = FALSE /\ edSubmitting = FALSE /\ edLoading = FALSE
    /\ edBusy = None /\ edBlocked = FALSE
    /\ edCalls = [s \in Slots |-> None]

Remembers(op) == CASE op = "save" -> edForm
                   [] op = "delete" -> [Blank EXCEPT !.to = edForm.to]
                   [] OTHER -> Blank
Send(op, row) ==
    /\ \E s \in Slots : edCalls[s] = None
    /\ edCalls' = [edCalls EXCEPT ![CHOOSE s \in Slots : edCalls[s] = None] =
                      [op |-> op, row |-> row, form |-> Remembers(op), at |-> "sent",
                       answer |-> "none", rows |-> {}]]

\* The page mounts and asks for its list.
Open(page, rows) ==
    /\ edPage = None
    /\ edPage' = page /\ edRows' = rows
    /\ Send("load", None)
    /\ UNCHANGED <<edList, edForm, edDialog, edSubmitting, edLoading, edBusy, edBlocked>>

Refresh ==
    /\ edPage # None /\ edPage.list.refresh
    /\ Send("load", None)
    /\ UNCHANGED <<edPage, edRows, edList, edForm, edDialog, edSubmitting, edLoading, edBusy, edBlocked>>

\* What switches a control off: nothing; the lock and the refusal; the row's mark.
Enabled(rule, row) ==
    /\ rule # "always" => ~edBlocked
    /\ rule \in {"unlocked", "idle and unlocked"} => ~edSubmitting
    /\ rule \in {"idle", "idle and unlocked"} => edBusy # row

ResetForm ==
    /\ edForm' = Blank
    /\ edLoading' = (edLoading /\ ~edPage.reset.stopsLoading)

New ==
    /\ edPage # None /\ Enabled(edPage.list.new, None)
    /\ ResetForm /\ edDialog' = TRUE
    /\ UNCHANGED <<edPage, edRows, edList, edSubmitting, edBusy, edBlocked, edCalls>>

\* The cross is never switched off. The overlay keeps the pointer from the rows
\* behind the dialog, not the keyboard.
Cross ==
    /\ edDialog
    /\ IF edPage.dialog.crossResets THEN ResetForm ELSE UNCHANGED <<edForm, edLoading>>
    /\ edDialog' = FALSE
    /\ UNCHANGED <<edPage, edRows, edList, edSubmitting, edBusy, edBlocked, edCalls>>

Shown == edDialog /\ ~edLoading

Cancel ==
    /\ edDialog /\ (edPage.dialog.hides = "form" => Shown)
    /\ edPage.dialog.cancel = "unlocked" => ~edSubmitting
    /\ ResetForm /\ edDialog' = FALSE
    /\ UNCHANGED <<edPage, edRows, edList, edSubmitting, edBusy, edBlocked, edCalls>>

(* Variant for checking: the fields stay open while the form is saved.        *)
Open4Typing_Unlocked == edPage.save.locks => ~edBlocked

Open4Typing == edPage.save.locks => ~edSubmitting /\ ~edBlocked

Type ==
    /\ Shown /\ Open4Typing
    /\ edForm' = [edForm EXCEPT !.text = "typed"]
    /\ UNCHANGED <<edPage, edRows, edList, edDialog, edSubmitting, edLoading, edBusy, edBlocked,
                   edCalls>>

Mark(policy, row) == edBusy' = IF policy.marks THEN row ELSE edBusy

\* handleEdit asks for the detail; the form stays what it is until it comes.
Edit(r) ==
    /\ r \in edList /\ Enabled(edPage.list.edit, r)
    /\ Mark(edPage.edit, r) /\ edLoading' = TRUE
    /\ Send("edit", r)
    /\ UNCHANGED <<edPage, edRows, edList, edForm, edDialog, edSubmitting, edBlocked>>

\* handleCreateOrUpdate: nothing is sent from an empty form.
Submit ==
    /\ edDialog /\ (edPage.dialog.hides = "form" => Shown)
    /\ Open4Typing /\ edForm.text # "blank"
    /\ edSubmitting' = edPage.save.locks
    /\ Send("save", edForm.to)
    /\ UNCHANGED <<edPage, edRows, edList, edForm, edDialog, edLoading, edBusy, edBlocked>>

\* The publishing of a row and its withdrawal, after a confirmation.
Toggle(r) ==
    /\ r \in edList /\ edPage.toggle.offered /\ Enabled("idle", r)
    /\ Mark(edPage.toggle, r)
    /\ Send("toggle", r)
    /\ UNCHANGED <<edPage, edRows, edList, edForm, edDialog, edSubmitting, edLoading, edBlocked>>

Delete(r) ==
    /\ r \in edList /\ Enabled(edPage.list.delete, r)
    /\ Mark(edPage.delete, r)
    /\ Send("delete", r)
    /\ UNCHANGED <<edPage, edRows, edList, edForm, edDialog, edSubmitting, edLoading, edBlocked>>

-----------------------------------------------------------------------------
(* The backend. A request may be done and its answer lost.                    *)
Lists(s) == edCalls[s].op = "load" \/ edCalls[s].at = "sent again"
Answered(s, answer) ==
    edCalls' = [edCalls EXCEPT ![s].at = IF @ = "sent" THEN "answered" ELSE "answered again",
                               ![s].answer = answer,
                               ![s].rows = IF Lists(s) /\ answer = "ok" THEN edRows ELSE {}]
Pending(s) == edCalls[s] # None /\ edCalls[s].at \in {"sent", "sent again"}

\* What a request does when the backend carries it out.
Done(call) ==
    CASE call.op = "delete" -> {edRows \ {call.row}}
      [] call.op = "save" /\ call.row = None -> {edRows \cup {r} : r \in Rows \ edRows}
      [] OTHER -> {edRows}
Known(call) == call.row = None \/ call.row \in edRows

Serve(s) ==
    /\ Pending(s)
    /\ IF Lists(s) THEN edRows' = edRows
                   ELSE Known(edCalls[s]) /\ edRows' \in Done(edCalls[s])
    /\ \E answer \in {"ok", "failed"} : Answered(s, answer)
    /\ UNCHANGED <<edPage, edList, edForm, edDialog, edSubmitting, edLoading, edBusy, edBlocked>>

Refuse(s) ==
    /\ Pending(s)
    /\ UNCHANGED <<edPage, edRows, edList, edForm, edDialog, edSubmitting, edLoading, edBusy, edBlocked>>
    /\ \E answer \in {"denied", "failed"} : Answered(s, answer)

-----------------------------------------------------------------------------
(* The answers arrive.                                                        *)
Arrived(s, op, at) == edCalls[s] # None /\ edCalls[s].op = op /\ edCalls[s].at = at
Finish(s) == edCalls' = [edCalls EXCEPT ![s] = None]
ReadAgain(s) == edCalls' = [edCalls EXCEPT ![s] = [@ EXCEPT !.at = "sent again", !.answer = "none",
                                                            !.form = Blank]]
Unmark(policy) == edBusy' = IF policy.marks THEN None ELSE edBusy

\* handleAuthFailure.
Denied(s) == edCalls[s].answer = "denied" /\ edPage.load.blocks
Block(s) == edBlocked' = (edBlocked \/ Denied(s))

\* The tail of loadX.
TakeList(s) ==
    LET ok == edCalls[s].answer = "ok"
    IN  /\ edList' = IF ok THEN edCalls[s].rows
                     ELSE IF Denied(s) \/ edPage.load.empties THEN {} ELSE edList
        /\ edBlocked' = IF ok THEN FALSE ELSE edBlocked \/ Denied(s)

LoadArrives(s) ==
    /\ Arrived(s, "load", "answered")
    /\ TakeList(s) /\ Finish(s)
    /\ UNCHANGED <<edPage, edRows, edForm, edDialog, edSubmitting, edLoading, edBusy>>

EditArrives(s) ==
    /\ Arrived(s, "edit", "answered")
    /\ LET ok == edCalls[s].answer = "ok" IN
         /\ edForm' = IF ok THEN [to |-> edCalls[s].row, text |-> "loaded"]
                            ELSE edForm
         /\ edBlocked' = IF ok THEN FALSE ELSE edBlocked \/ Denied(s)
         /\ edDialog' = (edDialog \/ ok \/ edPage.edit.opens = "always")
    /\ edLoading' = FALSE /\ Unmark(edPage.edit) /\ Finish(s)
    /\ UNCHANGED <<edPage, edRows, edList, edSubmitting>>

(* Variant for checking: the form is unlocked before the list is read again.  *)
Saved_Unlocks(s) ==
    /\ Arrived(s, "save", "answered") /\ edCalls[s].answer = "ok"
    /\ IF edCalls[s].row = None \/ edPage.save.resetsChange
         THEN ResetForm ELSE UNCHANGED <<edForm, edLoading>>
    /\ edDialog' = FALSE /\ edSubmitting' = FALSE /\ ReadAgain(s)
    /\ UNCHANGED <<edPage, edRows, edList, edBusy, edBlocked>>

Saved(s) ==
    /\ Arrived(s, "save", "answered") /\ edCalls[s].answer = "ok"
    /\ IF edCalls[s].row = None \/ edPage.save.resetsChange
         THEN ResetForm ELSE UNCHANGED <<edForm, edLoading>>
    /\ edDialog' = FALSE /\ ReadAgain(s)
    /\ UNCHANGED <<edPage, edRows, edList, edSubmitting, edBusy, edBlocked>>

\* finally: the form is unlocked whatever came.
NotSaved(s) ==
    /\ Arrived(s, "save", "answered") /\ edCalls[s].answer # "ok"
    /\ Block(s) /\ edSubmitting' = FALSE /\ Finish(s)
    /\ UNCHANGED <<edPage, edRows, edList, edForm, edDialog, edLoading, edBusy>>

SaveEnds(s) ==
    /\ Arrived(s, "save", "answered again")
    /\ TakeList(s) /\ edSubmitting' = FALSE /\ Finish(s)
    /\ UNCHANGED <<edPage, edRows, edForm, edDialog, edLoading, edBusy>>

Toggled(s) ==
    /\ Arrived(s, "toggle", "answered") /\ edCalls[s].answer = "ok"
    /\ ReadAgain(s)
    /\ UNCHANGED <<edPage, edRows, edList, edForm, edDialog, edSubmitting, edLoading, edBusy, edBlocked>>

\* The deletion compares with the form as it was when the button was pressed.
Deleted(s) ==
    /\ Arrived(s, "delete", "answered") /\ edCalls[s].answer = "ok"
    /\ LET mine == edCalls[s].form.to = edCalls[s].row IN
         /\ IF mine /\ edPage.delete.resets THEN ResetForm ELSE UNCHANGED <<edForm, edLoading>>
         /\ edDialog' = (edDialog /\ ~(mine /\ edPage.delete.closes))
    /\ ReadAgain(s)
    /\ UNCHANGED <<edPage, edRows, edList, edSubmitting, edBusy, edBlocked>>

Policy(op) == IF op = "toggle" THEN edPage.toggle ELSE edPage.delete
RowFails(s, op) ==
    /\ Arrived(s, op, "answered") /\ edCalls[s].answer # "ok"
    /\ Block(s) /\ Unmark(Policy(op)) /\ Finish(s)
    /\ UNCHANGED <<edPage, edRows, edList, edForm, edDialog, edSubmitting, edLoading>>
RowEnds(s, op) ==
    /\ Arrived(s, op, "answered again")
    /\ TakeList(s) /\ Unmark(Policy(op)) /\ Finish(s)
    /\ UNCHANGED <<edPage, edRows, edForm, edDialog, edSubmitting, edLoading>>

Arrives(s) ==
    \/ LoadArrives(s) \/ EditArrives(s) \/ Saved(s) \/ NotSaved(s) \/ SaveEnds(s)
    \/ Toggled(s) \/ Deleted(s)
    \/ \E op \in {"toggle", "delete"} : RowFails(s, op) \/ RowEnds(s, op)

Administrator ==
    \/ \E page \in Editors, rows \in SUBSET Rows : Open(page, rows)
    \/ Refresh \/ New \/ Cross \/ Cancel \/ Type \/ Submit
    \/ \E r \in Rows : Edit(r) \/ Toggle(r) \/ Delete(r)

Next ==
    \/ Administrator
    \/ \E s \in Slots : Serve(s) \/ Refuse(s) \/ Arrives(s)

Spec == Init /\ [][Next]_editorVars

-----------------------------------------------------------------------------
TypeOK ==
    /\ edPage \in Editors \cup {None}
    /\ edRows \in SUBSET Rows /\ edList \in SUBSET Rows
    /\ edForm \in Forms
    /\ edDialog \in BOOLEAN /\ edSubmitting \in BOOLEAN
    /\ edLoading \in BOOLEAN /\ edBlocked \in BOOLEAN
    /\ edBusy \in Rows \cup {None}
    /\ edCalls \in [Slots -> Calls \cup {None}]

\* Where the form is locked while it is saved, two saves are never under way: the
\* other buttons that reach the form do not unlock it.
OneSaveAtATime ==
    edPage # None /\ edPage.save.locks
        => Cardinality({s \in Slots : edCalls[s] # None /\ edCalls[s].op = "save"}) <= 1

\* Where the form is locked while it is saved, the end of a save takes away no draft but
\* the one it has saved. (The end of a deletion may: the articles page goes by the row
\* that was being edited when the deletion was asked for, and resets the form of another.)
KeepsDraft ==
    edPage # None /\ edPage.save.locks /\ edForm.text = "typed"
        => \A s \in Slots : Saved(s) => edCalls[s].form = edForm
DraftKept == [][KeepsDraft]_editorVars
=============================================================================
