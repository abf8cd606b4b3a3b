---------------------------- MODULE ComplianceApi ---------------------------
(***************************************************************************)
(* The compliance API over its database: the handlers of                   *)
(* ComplianceRecordService and EmployeeService, run by Workers, each       *)
(* serving one request at a time.                                          *)
(*                                                                         *)
(* A handler gives up control at every await, so each of its database      *)
(* statements is a step of its own.  The database is InnoDB at its default *)
(* isolation level: a plain SELECT reads committed rows, an UPDATE works   *)
(* on the current row, and a transaction holds the row locks it took until *)
(* it commits.  The tables hold committed rows only; what a transaction    *)
(* has written stays in its worker's ctx until the step that commits it.   *)
(***************************************************************************)
EXTENDS Integers, FiniteSets, ComplianceStatus

CONSTANTS
  Workers,      \* requests the API serves at a time
  EmployeeId,   \* keys of the employees table
  Type,         \* the ComplianceType enum
  MaxRecords,   \* bound: how many records are ever inserted
  MaxDay,       \* bound: the last day of the run
  Buffer,       \* COMPLIANCE_EXPIRING_BUFFER_DAYS
  IssuedDates,  \* dates clients send as issuedDate
  ExpiryDates,  \* dates clients send as expiryDate
  MaxBatch,     \* bound: items of one bulk-status request (200 in the code)
  Ops,          \* the endpoints clients call
  Crashes,      \* whether a request may die between two statements
  None          \* no row, no employee

RecordId == 1..MaxRecords
NoId     == 0                \* SQL NULL in renewedFromId
Undefined == -1              \* a PATCH field the client left out

Row == [emp : EmployeeId, type : Type, issued : Nat, expiry : Nat,
        status : Status, deleted : BOOLEAN, from : RecordId \union {NoId}]

AllOps == {"create", "update", "renew", "bulk", "archive",
           "createEmployee", "updateEmployee", "archiveEmployee"}

ASSUME ConstantsOK ==
  /\ MaxRecords \in Nat
  /\ MaxDay \in Nat
  /\ Buffer \in Nat
  /\ IssuedDates \subseteq Nat
  /\ ExpiryDates \subseteq Nat
  /\ MaxBatch \in Nat
  /\ Ops \subseteq AllOps
  /\ Crashes \in BOOLEAN
  /\ None \notin Row
  /\ None \notin EmployeeId

VARIABLES
  records,    \* the compliance_records table: committed row of each id
  employees,  \* the employees table: "absent", "live" or "archived"
  nextId,     \* AUTO_INCREMENT counter, not given back by a rollback
  today,      \* the current date in COMPLIANCE_TIMEZONE
  pc,         \* the statement each worker executes next
  ctx         \* the local variables of each worker's handler

vars == <<records, employees, nextId, today, pc, ctx>>

-----------------------------------------------------------------------------
(* Handlers and their local variables.                                     *)

Label == {"idle", "create_insert",
          "update_reload", "update_write",
          "archive_reload", "archive_write", "archive_softDelete",
          "renew_insert", "renew_close", "bulk_apply",
          "updateEmployee_reload", "updateEmployee_write",
          "archiveEmployee_softRemove", "archiveEmployee_cascade"}

(* Columns that TypeORM's save() may find changed on a loaded entity.      *)
Column == {"issued", "expiry", "status", "deleted"}

NoWork == [s \in EvaluableStatus |-> {}]

(* id: the record served; new: the id of the row a renewal inserted; emp:  *)
(* the employee served by an employee handler; row: the entity in memory;  *)
(* cols: what save() found changed; todo: the ids a bulk request still has *)
(* to move to each status.                                                 *)
Blank == [id |-> NoId, new |-> NoId, emp |-> None, row |-> None,
          cols |-> {}, todo |-> NoWork]

GoTo(w, label, locals) ==
  /\ pc'  = [pc EXCEPT ![w] = label]
  /\ ctx' = [ctx EXCEPT ![w] = locals]

Return(w) == GoTo(w, "idle", Blank)

Exists(id) == records[id] # None

(* Mutant: the boundary is let through.                                    *)
ExpiryAfterIssued_Weak(issued, expiry) == expiry >= issued

(* assertExpiryAfterIssued                                                 *)
ExpiryAfterIssued(issued, expiry) == expiry > issued

computeStatus(expiry) == computeComplianceStatus(expiry, today, Buffer)

-----------------------------------------------------------------------------
(* Row locks.  Only two transactions keep a lock from one step to the next:*)
(* a renewal after its INSERT shares its foreign-key parents, and an       *)
(* employee archive after its softRemove owns the employee row.            *)

RecordShared(w, id) == pc[w] = "renew_close" /\ ctx[w].id = id
EmployeeShared(w, e) == pc[w] = "renew_close" /\ ctx[w].row.emp = e
EmployeeOwned(w, e) == pc[w] = "archiveEmployee_cascade" /\ ctx[w].emp = e

Others(w) == Workers \ {w}

CanWriteRecord(w, id) == \A o \in Others(w) : ~RecordShared(o, id)
CanShareEmployee(w, e) == \A o \in Others(w) : ~EmployeeOwned(o, e)
CanWriteEmployee(w, e) ==
  \A o \in Others(w) : ~EmployeeOwned(o, e) /\ ~EmployeeShared(o, e)

-----------------------------------------------------------------------------
(* POST /compliance-records                                                *)

create(w, e, t, issued, expiry) ==
  /\ pc[w] = "idle" /\ "create" \in Ops
  /\ employees[e] = "live"
  /\ ExpiryAfterIssued(issued, expiry)
  /\ GoTo(w, "create_insert",
          [Blank EXCEPT !.row = [emp |-> e, type |-> t, issued |-> issued,
             expiry |-> expiry, status |-> computeStatus(expiry),
             deleted |-> FALSE, from |-> NoId]])
  /\ UNCHANGED <<records, employees, nextId, today>>

create_insert(w) ==
  /\ pc[w] = "create_insert"
  /\ nextId \in RecordId
  /\ CanShareEmployee(w, ctx[w].row.emp)
  /\ records' = [records EXCEPT ![nextId] = ctx[w].row]
  /\ nextId' = nextId + 1
  /\ Return(w)
  /\ UNCHANGED <<employees, today>>

-----------------------------------------------------------------------------
(* TypeORM's save() of a loaded entity: it reads the row again, whether    *)
(* soft-deleted or not, compares it column by column with the entity, and  *)
(* updates the columns that differ, with no condition but the id.          *)

ChangedColumns(entity, stored) == {c \in Column : entity[c] # stored[c]}

WriteColumns(stored, entity, cols) ==
  [stored EXCEPT
    !.issued  = IF "issued"  \in cols THEN entity.issued  ELSE @,
    !.expiry  = IF "expiry"  \in cols THEN entity.expiry  ELSE @,
    !.status  = IF "status"  \in cols THEN entity.status  ELSE @,
    !.deleted = IF "deleted" \in cols THEN entity.deleted ELSE @]

Reload(w, here, next) ==
  /\ pc[w] = here
  /\ GoTo(w, next, [ctx[w] EXCEPT
            !.cols = ChangedColumns(ctx[w].row, records[ctx[w].id])])
  /\ UNCHANGED <<records, employees, nextId, today>>

WriteBack(w, here) ==
  /\ pc[w] = here
  /\ CanWriteRecord(w, ctx[w].id)
  /\ records' = [records EXCEPT
                  ![ctx[w].id] = WriteColumns(@, ctx[w].row, ctx[w].cols)]
  /\ UNCHANGED <<employees, nextId, today>>

-----------------------------------------------------------------------------
(* PATCH /compliance-records/:id                                           *)

(* Mutant: a field left out is not taken from the record.                  *)
Given_NoDefault(field, stored) == field

Given(field, stored) == IF field = Undefined THEN stored ELSE field

Corrected(r, issued, expiry) ==
  [r EXCEPT !.issued = issued, !.expiry = expiry,
            !.status = computeStatus(expiry)]

(* A PATCH of the notes alone leaves the entity as it was loaded, and is   *)
(* saved all the same.                                                     *)
update(w, id, dtoIssued, dtoExpiry) ==
  LET r      == records[id]
      issued == Given(dtoIssued, r.issued)
      expiry == Given(dtoExpiry, r.expiry)
      dated  == dtoIssued # Undefined \/ dtoExpiry # Undefined
  IN /\ pc[w] = "idle" /\ "update" \in Ops
     /\ Exists(id)
     /\ r.status \notin TerminalStatus
     /\ dated => ExpiryAfterIssued(issued, expiry)
     /\ GoTo(w, "update_reload",
             [Blank EXCEPT !.id = id,
                !.row = IF dated THEN Corrected(r, issued, expiry) ELSE r])
     /\ UNCHANGED <<records, employees, nextId, today>>

update_reload(w) == Reload(w, "update_reload", "update_write")

update_write(w) == WriteBack(w, "update_write") /\ Return(w)

-----------------------------------------------------------------------------
(* DELETE /compliance-records/:id : two saves, and no transaction.         *)

archive(w, id) ==
  LET r == records[id]
  IN /\ pc[w] = "idle" /\ "archive" \in Ops
     /\ Exists(id)
     /\ r.status \notin TerminalStatus
     /\ GoTo(w, "archive_reload",
             [Blank EXCEPT !.id = id,
                                  !.row = [r EXCEPT !.status = "archived"]])
     /\ UNCHANGED <<records, employees, nextId, today>>

archive_reload(w) == Reload(w, "archive_reload", "archive_write")

archive_write(w) ==
  /\ WriteBack(w, "archive_write")
  /\ GoTo(w, "archive_softDelete", ctx[w])

SoftDeleted(r) == [r EXCEPT !.deleted = TRUE]

(* Mutant: the row is deleted instead of marked.                           *)
archive_softDelete_Hard(w) ==
  /\ pc[w] = "archive_softDelete"
  /\ CanWriteRecord(w, ctx[w].id)
  /\ records' = [records EXCEPT ![ctx[w].id] = None]
  /\ Return(w)
  /\ UNCHANGED <<employees, nextId, today>>

archive_softDelete(w) ==
  /\ pc[w] = "archive_softDelete"
  /\ CanWriteRecord(w, ctx[w].id)
  /\ records' = [records EXCEPT ![ctx[w].id] = SoftDeleted(@)]
  /\ Return(w)
  /\ UNCHANGED <<employees, nextId, today>>

-----------------------------------------------------------------------------
(* POST /compliance-records/:id/renew, one transaction.                    *)

(* Mutants: the link of the old record copied with its other fields; the   *)
(* new record filed under another type.                                    *)
Successor_CopiesLink(old, id, issued, expiry) ==
  [old EXCEPT !.issued = issued, !.expiry = expiry,
              !.status = computeStatus(expiry)]
Successor_OtherType(old, id, issued, expiry) ==
  [emp |-> old.emp, type |-> CHOOSE t \in Type : t # old.type,
   issued |-> issued, expiry |-> expiry, status |-> computeStatus(expiry),
   deleted |-> FALSE, from |-> id]

Successor(old, id, issued, expiry) ==
  [emp |-> old.emp, type |-> old.type, issued |-> issued, expiry |-> expiry,
   status |-> computeStatus(expiry), deleted |-> FALSE, from |-> id]

(* Mutants: the soft delete forgotten; the old record left as it was.      *)
Superseded_NotDeleted(r) == [r EXCEPT !.status = "renewed"]
Superseded_Untouched(r) == r

Superseded(r) == SoftDeleted([r EXCEPT !.status = "renewed"])

renew(w, id, issued, expiry) ==
  LET old == records[id]
  IN /\ pc[w] = "idle" /\ "renew" \in Ops
     /\ ExpiryAfterIssued(issued, expiry)
     /\ Exists(id)
     /\ ~old.deleted
     /\ old.status \notin TerminalStatus
     /\ GoTo(w, "renew_insert",
             [Blank EXCEPT !.id = id,
                !.row = Successor(old, id, issued, expiry)])
     /\ UNCHANGED <<records, employees, nextId, today>>

(* Mutant: the new id is one more than the last committed one, so that a   *)
(* renewal under way does not keep it from another request.                *)
renew_insert_SharedId(w) ==
  /\ pc[w] = "renew_insert"
  /\ nextId \in RecordId
  /\ CanShareEmployee(w, ctx[w].row.emp)
  /\ GoTo(w, "renew_close", [ctx[w] EXCEPT !.new = nextId])
  /\ UNCHANGED <<records, employees, nextId, today>>

(* INSERT of the new row.  Its foreign keys lock the employee and the old  *)
(* row in shared mode; neither check looks at deletedAt.                   *)
renew_insert(w) ==
  /\ pc[w] = "renew_insert"
  /\ nextId \in RecordId
  /\ CanShareEmployee(w, ctx[w].row.emp)
  /\ nextId' = nextId + 1
  /\ GoTo(w, "renew_close", [ctx[w] EXCEPT !.new = nextId])
  /\ UNCHANGED <<records, employees, today>>

(* No id is left: the INSERT fails and the request with it.  This is where *)
(* the bound MaxRecords bites.                                             *)
insert_fails(w) ==
  /\ pc[w] \in {"create_insert", "renew_insert"}
  /\ nextId \notin RecordId
  /\ Return(w)
  /\ UNCHANGED <<records, employees, nextId, today>>

(* save(oldRecord), softDelete and COMMIT.  The reload inside the          *)
(* transaction reads its own snapshot, the very row findOne returned, so   *)
(* status is all that differs.  Once the old row is locked nothing can     *)
(* come between, and nothing is visible before the commit.                 *)
renew_close(w) ==
  /\ pc[w] = "renew_close"
  /\ CanWriteRecord(w, ctx[w].id)
  /\ records' = [records EXCEPT ![ctx[w].id]  = Superseded(@),
                                ![ctx[w].new] = ctx[w].row]
  /\ Return(w)
  /\ UNCHANGED <<employees, nextId, today>>

(* Two renewals that both share the old row wait for each other: InnoDB    *)
(* rolls one of them back.                                                 *)
renew_deadlock(w) ==
  /\ pc[w] = "renew_close"
  /\ ~CanWriteRecord(w, ctx[w].id)
  /\ Return(w)
  /\ UNCHANGED <<records, employees, nextId, today>>

-----------------------------------------------------------------------------
(* PATCH /compliance-records/bulk-status: a SELECT, then one UPDATE per    *)
(* status asked for, each committed alone and each with its own guard.     *)

(* Mutant: only deletedAt is looked at.                                    *)
Updatable_NotDeleted(r) == r # None /\ ~r.deleted

Updatable(r) == r # None /\ ~r.deleted /\ r.status \notin TerminalStatus

BulkRequest == {U \in SUBSET (RecordId \X EvaluableStatus) :
                  U # {} /\ Cardinality(U) <= MaxBatch}

bulkStatusUpdate(w, updates) ==
  LET selected == [s \in EvaluableStatus |->
                     {id \in RecordId : /\ <<id, s>> \in updates
                                        /\ Updatable(records[id])
                                        /\ records[id].status # s}]
  IN /\ pc[w] = "idle" /\ "bulk" \in Ops
     /\ IF selected = NoWork
          THEN UNCHANGED <<pc, ctx>>
          ELSE GoTo(w, "bulk_apply", [Blank EXCEPT !.todo = selected])
     /\ UNCHANGED <<records, employees, nextId, today>>

(* Mutant: the UPDATE trusts the SELECT that came before it.               *)
BulkSet_Unguarded(r, s) == [r EXCEPT !.status = s]

BulkSet(r, s) ==
  IF Updatable(r) /\ r.status # s THEN [r EXCEPT !.status = s] ELSE r

bulk_apply(w, s) ==
  LET ids  == ctx[w].todo[s]
      rest == [ctx[w].todo EXCEPT ![s] = {}]
  IN /\ pc[w] = "bulk_apply"
     /\ ids # {}
     /\ \A id \in ids : CanWriteRecord(w, id)
     /\ records' = [id \in RecordId |-> IF id \in ids
                                         THEN BulkSet(records[id], s)
                                         ELSE records[id]]
     /\ IF rest = NoWork THEN Return(w)
                         ELSE GoTo(w, "bulk_apply",
                                   [Blank EXCEPT !.todo = rest])
     /\ UNCHANGED <<employees, nextId, today>>

-----------------------------------------------------------------------------
(* POST, PATCH and DELETE /employees                                       *)

createEmployee(e) ==
  /\ "createEmployee" \in Ops
  /\ employees[e] = "absent"
  /\ employees' = [employees EXCEPT ![e] = "live"]
  /\ UNCHANGED <<records, nextId, today, pc, ctx>>

updateEmployee(w, e) ==
  /\ pc[w] = "idle" /\ "updateEmployee" \in Ops
  /\ employees[e] = "live"
  /\ GoTo(w, "updateEmployee_reload", [Blank EXCEPT !.emp = e])
  /\ UNCHANGED <<records, employees, nextId, today>>

(* The loaded employee has no deletedAt; save() reads the row again.       *)
updateEmployee_reload(w) ==
  /\ pc[w] = "updateEmployee_reload"
  /\ GoTo(w, "updateEmployee_write", [ctx[w] EXCEPT
       !.cols = IF employees[ctx[w].emp] = "archived" THEN {"deleted"} ELSE {}])
  /\ UNCHANGED <<records, employees, nextId, today>>

updateEmployee_write(w) ==
  /\ pc[w] = "updateEmployee_write"
  /\ CanWriteEmployee(w, ctx[w].emp)
  /\ employees' = IF "deleted" \in ctx[w].cols
                    THEN [employees EXCEPT ![ctx[w].emp] = "live"]
                    ELSE employees
  /\ Return(w)
  /\ UNCHANGED <<records, nextId, today>>

archiveEmployee(w, e) ==
  /\ pc[w] = "idle" /\ "archiveEmployee" \in Ops
  /\ employees[e] = "live"
  /\ GoTo(w, "archiveEmployee_softRemove", [Blank EXCEPT !.emp = e])
  /\ UNCHANGED <<records, employees, nextId, today>>

(* The transaction owns the employee row from here to its commit.          *)
archiveEmployee_softRemove(w) ==
  /\ pc[w] = "archiveEmployee_softRemove"
  /\ CanWriteEmployee(w, ctx[w].emp)
  /\ GoTo(w, "archiveEmployee_cascade", ctx[w])
  /\ UNCHANGED <<records, employees, nextId, today>>

(* Mutant: the cascade leaves out what has already expired.                *)
Cascaded_NotExpired(r, e) ==
  IF r # None /\ r.emp = e /\ ~r.deleted /\ r.status # "expired"
    THEN SoftDeleted([r EXCEPT !.status = "archived"])
    ELSE r

Cascaded(r, e) ==
  IF r # None /\ r.emp = e /\ ~r.deleted
    THEN SoftDeleted([r EXCEPT !.status = "archived"])
    ELSE r

archiveEmployee_cascade(w) ==
  /\ pc[w] = "archiveEmployee_cascade"
  /\ \A id \in RecordId : Exists(id) /\ records[id].emp = ctx[w].emp
                            => CanWriteRecord(w, id)
  /\ records' = [id \in RecordId |-> Cascaded(records[id], ctx[w].emp)]
  /\ employees' = [employees EXCEPT ![ctx[w].emp] = "archived"]
  /\ Return(w)
  /\ UNCHANGED <<nextId, today>>

-----------------------------------------------------------------------------
(* The process, its connection or its transaction dies: the handler's      *)
(* locals are gone, an open transaction is rolled back, and the statements *)
(* that had committed on their own stay.                                   *)
crash(w) ==
  /\ Crashes
  /\ pc[w] # "idle"
  /\ Return(w)
  /\ UNCHANGED <<records, employees, nextId, today>>

(* Midnight in COMPLIANCE_TIMEZONE.                                        *)
midnight ==
  /\ today < MaxDay
  /\ today' = today + 1
  /\ UNCHANGED <<records, employees, nextId, pc, ctx>>

-----------------------------------------------------------------------------
Init ==
  /\ records = [id \in RecordId |-> None]
  /\ employees = [e \in EmployeeId |-> "absent"]
  /\ nextId = 1
  /\ today = 0
  /\ pc = [w \in Workers |-> "idle"]
  /\ ctx = [w \in Workers |-> Blank]

Request(w) ==
  \/ \E e \in EmployeeId, t \in Type, i \in IssuedDates, x \in ExpiryDates :
       create(w, e, t, i, x)
  \/ \E id \in RecordId, i \in IssuedDates \union {Undefined},
        x \in ExpiryDates \union {Undefined} : update(w, id, i, x)
  \/ \E id \in RecordId : archive(w, id)
  \/ \E id \in RecordId, i \in IssuedDates, x \in ExpiryDates :
       renew(w, id, i, x)
  \/ \E updates \in BulkRequest : bulkStatusUpdate(w, updates)
  \/ \E e \in EmployeeId : updateEmployee(w, e)
  \/ \E e \in EmployeeId : archiveEmployee(w, e)

Statement(w) ==
  \/ create_insert(w)
  \/ update_reload(w)
  \/ update_write(w)
  \/ archive_reload(w)
  \/ archive_write(w)
  \/ archive_softDelete(w)
  \/ renew_insert(w)
  \/ renew_close(w)
  \/ renew_deadlock(w)
  \/ insert_fails(w)
  \/ \E s \in EvaluableStatus : bulk_apply(w, s)
  \/ updateEmployee_reload(w)
  \/ updateEmployee_write(w)
  \/ archiveEmployee_softRemove(w)
  \/ archiveEmployee_cascade(w)
  \/ crash(w)

Next ==
  \/ \E w \in Workers : Request(w) \/ Statement(w)
  \/ \E e \in EmployeeId : createEmployee(e)
  \/ midnight

Spec == Init /\ [][Next]_vars

-----------------------------------------------------------------------------
(* Type invariant.                                                         *)
Context == [id : RecordId \union {NoId}, new : RecordId \union {NoId},
            emp : EmployeeId \union {None}, row : Row \union {None},
            cols : SUBSET Column, todo : [EvaluableStatus -> SUBSET RecordId]]

TypeOK ==
  /\ records \in [RecordId -> Row \union {None}]
  /\ employees \in [EmployeeId -> {"absent", "live", "archived"}]
  /\ nextId \in 1..(MaxRecords + 1)
  /\ today \in 0..MaxDay
  /\ pc \in [Workers -> Label]
  /\ ctx \in [Workers -> Context]

-----------------------------------------------------------------------------
(* What holds however the requests interleave and wherever they die.       *)

(* A record names as the one it renews only an older record that exists,   *)
(* of the same employee and type: the renewal history is a forest.         *)
RenewalLinks ==
  \A id \in RecordId : Exists(id) /\ records[id].from # NoId =>
    LET old == records[id].from
    IN /\ old < id
       /\ Exists(old)
       /\ records[old].emp = records[id].emp
       /\ records[old].type = records[id].type

(* A record is marked renewed only together with the record that replaces  *)
(* it: no interleaving, rollback or crash of a renewal leaves a superseded *)
(* record without a successor.                                             *)
RenewedHasSuccessor ==
  \A id \in RecordId : Exists(id) /\ records[id].status = "renewed" =>
    \E new \in RecordId : Exists(new) /\ records[new].from = id

(* The audit trail (docs/security.md, section 7): a row is never deleted,  *)
(* and its employee, its type and its renewal link are never modified,     *)
(* whatever stale entity a save() writes back.                             *)
HistoryKept ==
  [][\A id \in RecordId : Exists(id) =>
       /\ records'[id] # None
       /\ records'[id].emp = records[id].emp
       /\ records'[id].type = records[id].type
       /\ records'[id].from = records[id].from]_vars

(* What is closed stays closed: a soft-deleted renewed or archived record  *)
(* is never live again, and neither is an archived employee.  It holds     *)
(* when clients keep to the endpoints that write with a guard or in a      *)
(* transaction, and is lost with the ones that save() a stale entity.      *)
ClosedRecord(r) == r # None /\ r.deleted /\ r.status \in TerminalStatus

ClosedForGood ==
  [][/\ \A id \in RecordId :
          ClosedRecord(records[id]) => ClosedRecord(records'[id])
     /\ \A e \in EmployeeId :
          employees[e] = "archived" => employees'[e] = "archived"]_vars

-----------------------------------------------------------------------------
(* What holds when requests are served one at a time.                      *)

(* deletedAt is set on renewed and archived records only, and on every     *)
(* renewed one (docs/db-schema.md, status transitions).  Not on every      *)
(* archived one: the archive handler saves the status first, and a request *)
(* that dies there leaves deletedAt unset.                                 *)
DeletedMatchesStatus ==
  \A id \in RecordId : Exists(id) =>
    /\ records[id].deleted => records[id].status \in TerminalStatus
    /\ records[id].status = "renewed" => records[id].deleted

(* An archived record is soft-deleted too (docs/db-schema.md, status       *)
(* rules), as soon as no DELETE of it is still at work.                    *)
ArchivedIsDeleted ==
  \A id \in RecordId : Exists(id) /\ records[id].status = "archived" =>
    \/ records[id].deleted
    \/ \E w \in Workers : pc[w] = "archive_softDelete" /\ ctx[w].id = id

(* A record expires after it was issued, whichever of the two dates was    *)
(* corrected last.                                                         *)
DatesOrdered ==
  \A id \in RecordId :
    Exists(id) => records[id].issued < records[id].expiry

(* No live record belongs to an archived employee.                         *)
NoOrphans ==
  \A id \in RecordId : Exists(id) /\ ~records[id].deleted =>
    employees[records[id].emp] = "live"

(* A record is renewed once.                                               *)
OneSuccessor ==
  \A a, b \in RecordId :
    /\ Exists(a) /\ Exists(b)
    /\ records[a].from = records[b].from
    /\ records[a].from # NoId
    => a = b

-----------------------------------------------------------------------------
(* The lifecycle the API promises, and the record state that stands for it.*)
Phase(id) ==
  IF ~Exists(id) THEN "none"
  ELSE IF records[id].status \in TerminalStatus THEN records[id].status
  ELSE "open"

Lifecycle == INSTANCE RecordLifecycle WITH
  Records <- RecordId,
  phase   <- [id \in RecordId |-> Phase(id)],
  owner   <- [id \in RecordId |->
                IF Exists(id) THEN records[id].emp ELSE None],
  renews  <- [id \in RecordId |->
                IF Exists(id) THEN records[id].from ELSE NoId],
  staff   <- employees

(* Served one at a time, the requests implement the record lifecycle.      *)
ImplementsLifecycle == Lifecycle!Spec
=============================================================================
