----------------------------- MODULE RecordsPage ----------------------------
(***************************************************************************)
(* The records page (frontend/src/routes/records/+page.svelte) with its    *)
(* table, the create/edit form, the renewal form and the archive dialog.   *)
(*                                                                         *)
(* Its loads are not numbered: every answer is shown when it comes, so     *)
(* which rows are on screen says little, and the model keeps only whether  *)
(* a list came: not the filter, nor the page.  A form can be closed        *)
(* while its request is under way, so an answer may find another form      *)
(* open, or none; the dialog cannot.  A form or a dialog covers the page,  *)
(* so only one of the three is ever open.                                  *)
(***************************************************************************)
EXTENDS ApiClient

CONSTANT Rows   \* ids of the records that can be in the table

NoRow == 0

ASSUME RecordsConstantsOK == NoRow \notin Rows

VARIABLE recs   \* the page's $state, and the form's

(* origin: the record the fields of the form were filled from.             *)
RecsInit ==
  [rows |-> FALSE, loading |-> TRUE, listError |-> FALSE,
   formOpen |-> FALSE, formMode |-> "create", editing |-> NoRow,
   origin |-> NoRow, formSubmitting |-> FALSE,
   renewing |-> NoRow, renewSubmitting |-> FALSE,
   archiveTarget |-> NoRow, archiveBusy |-> FALSE]

RecsTypeOK ==
  recs \in [rows : BOOLEAN, loading : BOOLEAN, listError : BOOLEAN,
            formOpen : BOOLEAN, formMode : {"create", "edit"},
            editing : Rows \union {NoRow}, origin : Rows \union {NoRow},
            formSubmitting : BOOLEAN,
            renewing : Rows \union {NoRow}, renewSubmitting : BOOLEAN,
            archiveTarget : Rows \union {NoRow}, archiveBusy : BOOLEAN]

(* The calls of api.ts.  busy names the button that waits for a list, if   *)
(* one does; the other fields are what the properties look at.             *)
listEmployees                      == [op |-> "employees"]
listComplianceRecords(busy)        == [op |-> "list", busy |-> busy]
getComplianceRecord(id)            == [op |-> "get", id |-> id]
createComplianceRecord(origin)     == [op |-> "create", origin |-> origin]
updateComplianceRecord(id, origin) ==
  [op |-> "update", id |-> id, origin |-> origin]
renewComplianceRecord(id)          == [op |-> "renew", id |-> id]
archiveComplianceRecord(id)        == [op |-> "archive", id |-> id]

RecsCalls == <<listEmployees>>   \* onMount

Become(state) == recs' = state /\ UNCHANGED sessionVars
Keep(state)   == Become(state) /\ UNCHANGED requests
Finish(i, state) == Done(i) /\ Become(state)

-----------------------------------------------------------------------------
(* The list.                                                               *)

Loading(state) == [state EXCEPT !.loading = TRUE, !.listError = FALSE]

(* loadRecords, on its own and at the end of a handler.                    *)
LoadRecords(state) ==
  /\ page = "records"
  /\ Send(listComplianceRecords("none"))
  /\ Become(Loading(state))

Reload(i, state, busy) ==
  /\ DoneSend(i, listComplianceRecords(busy))
  /\ Become(Loading(state))

(* The finally clause of the handler that waits for this load.             *)
Released(state, busy) ==
  CASE busy = "form"    -> [state EXCEPT !.formSubmitting = FALSE]
    [] busy = "renew"   -> [state EXCEPT !.renewSubmitting = FALSE]
    [] busy = "archive" -> [state EXCEPT !.archiveBusy = FALSE]
    [] busy = "none"    -> state

employeesLoaded(i) ==
  /\ Answered(i, "employees")
  /\ Reload(i, recs, "none")

employeesFailed(i) ==
  /\ Failed(i, "employees")
  /\ Finish(i, [recs EXCEPT !.listError = TRUE, !.loading = FALSE])

listLoaded(i) ==
  /\ Answered(i, "list")
  /\ Finish(i, Released([recs EXCEPT !.rows = TRUE, !.loading = FALSE],
                        requests[i].call.busy))

(* Mutant: a load that fails leaves the button that waits for it busy.     *)
listFailedBusy(i) ==
  /\ Failed(i, "list")
  /\ Finish(i, [recs EXCEPT !.listError = TRUE, !.loading = FALSE])

listFailed(i) ==
  /\ Failed(i, "list")
  /\ Finish(i, Released([recs EXCEPT !.listError = TRUE, !.loading = FALSE],
                        requests[i].call.busy))

(* No form and no dialog is open: the table can be reached.                *)
Uncovered ==
  /\ page = "records"
  /\ ~recs.formOpen /\ recs.renewing = NoRow /\ recs.archiveTarget = NoRow

(* Apply and Reset, also while a list is loading.                          *)
applyFilters == Uncovered
handleListFilterChange == applyFilters /\ LoadRecords(recs)

(* Previous and Next.                                                      *)
CanTurnList == Uncovered /\ ~recs.loading
handleListPageChange == CanTurnList /\ LoadRecords(recs)

(* The buttons of a row.                                                   *)
RowAction == Uncovered /\ recs.rows

retryList == Uncovered /\ recs.listError /\ LoadRecords(recs)

-----------------------------------------------------------------------------
(* The create and edit form.                                               *)

(* The form fills its fields from its record when it opens, and again when *)
(* its record changes while it is open.                                    *)
Filled(state) ==
  [state EXCEPT !.origin = IF state.formOpen THEN state.editing ELSE NoRow]

Closed(state) == Filled([state EXCEPT !.formOpen = FALSE, !.editing = NoRow])

openCreateForm ==
  /\ Uncovered
  /\ Keep(Filled([recs EXCEPT !.formMode = "create", !.editing = NoRow,
                              !.formOpen = TRUE]))

openEditForm(id) ==
  /\ RowAction
  /\ Send(getComplianceRecord(id))
  /\ Become(Filled([recs EXCEPT !.formMode = "edit", !.formOpen = TRUE,
                                !.formSubmitting = TRUE]))

(* Mutant: the fields are filled when the form opens, and never again.     *)
editLoadedOnce(i) ==
  /\ Answered(i, "get")
  /\ Finish(i, [recs EXCEPT !.editing = requests[i].call.id,
                            !.formSubmitting = FALSE])

editLoaded(i) ==
  /\ Answered(i, "get")
  /\ Finish(i, Filled([recs EXCEPT !.editing = requests[i].call.id,
                                   !.formSubmitting = FALSE]))

editFailed(i) ==
  /\ Failed(i, "get")
  /\ Finish(i, Filled([recs EXCEPT !.formOpen = FALSE, !.listError = TRUE,
                                   !.formSubmitting = FALSE]))

(* The X, the backdrop and Escape work while a request is under way.       *)
closeForm == recs.formOpen /\ page = "records" /\ Keep(Closed(recs))

FormSubmits == page = "records" /\ recs.formOpen /\ ~recs.formSubmitting

(* An edit form without a record has nothing to send and just closes.      *)
submitForm ==
  LET busy == [recs EXCEPT !.formSubmitting = TRUE]
  IN /\ FormSubmits
     /\ \/ /\ recs.formMode = "create"
           /\ Send(createComplianceRecord(recs.origin))
           /\ Become(busy)
        \/ /\ recs.formMode = "edit" /\ recs.editing # NoRow
           /\ Send(updateComplianceRecord(recs.editing, recs.origin))
           /\ Become(busy)
        \/ /\ recs.formMode = "edit" /\ recs.editing = NoRow
           /\ Send(listComplianceRecords("form"))
           /\ Become(Loading(Closed(busy)))

created(i) == Answered(i, "create") /\ Reload(i, Closed(recs), "form")

(* The toast names the record's type: without a record the handler fails   *)
(* here, after the update, and the list is not loaded again.               *)
updated(i) ==
  /\ Answered(i, "update")
  /\ IF recs.editing # NoRow
       THEN Reload(i, Closed(recs), "form")
       ELSE Finish(i, [recs EXCEPT !.formSubmitting = FALSE])

saveFailed(i) ==
  /\ Failed(i, "create") \/ Failed(i, "update")
  /\ Finish(i, [recs EXCEPT !.formSubmitting = FALSE])

-----------------------------------------------------------------------------
(* The renewal form.                                                       *)

(* Mutant: opening the form resets its button as well.                     *)
openRenewFormReady(id) ==
  /\ RowAction
  /\ Keep([recs EXCEPT !.renewing = id, !.renewSubmitting = FALSE])

openRenewForm(id) ==
  RowAction /\ Keep([recs EXCEPT !.renewing = id])

closeRenewForm ==
  /\ page = "records" /\ recs.renewing # NoRow
  /\ Keep([recs EXCEPT !.renewing = NoRow])

RenewSubmits ==
  page = "records" /\ recs.renewing # NoRow /\ ~recs.renewSubmitting

submitRenew ==
  /\ RenewSubmits
  /\ Send(renewComplianceRecord(recs.renewing))
  /\ Become([recs EXCEPT !.renewSubmitting = TRUE])

renewed(i) ==
  /\ Answered(i, "renew")
  /\ IF recs.renewing # NoRow
       THEN Reload(i, [recs EXCEPT !.renewing = NoRow], "renew")
       ELSE Finish(i, [recs EXCEPT !.renewSubmitting = FALSE])

renewFailed(i) ==
  /\ Failed(i, "renew")
  /\ Finish(i, [recs EXCEPT !.renewSubmitting = FALSE])

-----------------------------------------------------------------------------
(* The archive dialog.                                                     *)

openArchiveDialog(id) ==
  RowAction /\ Keep([recs EXCEPT !.archiveTarget = id])

DialogReady ==
  page = "records" /\ recs.archiveTarget # NoRow /\ ~recs.archiveBusy

(* Mutant: the dialog closes while its request is under way.               *)
closeArchiveDialogBusy ==
  /\ page = "records" /\ recs.archiveTarget # NoRow
  /\ Keep([recs EXCEPT !.archiveTarget = NoRow])

closeArchiveDialog ==
  /\ DialogReady
  /\ Keep([recs EXCEPT !.archiveTarget = NoRow])

confirmArchive ==
  /\ DialogReady
  /\ Send(archiveComplianceRecord(recs.archiveTarget))
  /\ Become([recs EXCEPT !.archiveBusy = TRUE, !.listError = FALSE])

archived(i) ==
  /\ Answered(i, "archive")
  /\ Reload(i, [recs EXCEPT !.archiveTarget = NoRow], "archive")

archiveFailed(i) ==
  /\ Failed(i, "archive")
  /\ Finish(i, [recs EXCEPT !.archiveBusy = FALSE])
=============================================================================
