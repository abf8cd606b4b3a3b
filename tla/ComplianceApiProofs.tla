------------------------- MODULE ComplianceApiProofs ------------------------
(***************************************************************************)
(* What the compliance API keeps true for any number of workers, records,  *)
(* employees and types, however requests interleave and wherever they die: *)
(* TypeOK, RenewalLinks, RenewedHasSuccessor and HistoryKept, and, without *)
(* the endpoints that save a loaded entity, ClosedForGood.                 *)
(*                                                                         *)
(* None of them is inductive alone.  What they need beside each other is   *)
(* what a handler may rely on between two of its statements (HandlerOK):   *)
(* the row it read still exists with the same employee and type, the id a  *)
(* renewal was given is still free, and no two renewals were given the     *)
(* same one (NewIdsDiffer, IdsBelowCounter).                               *)
(***************************************************************************)
EXTENDS ComplianceApi, TLAPS

IdsBelowCounter == \A id \in RecordId : Exists(id) => id < nextId

Creating(w)  == pc[w] = "create_insert"
Saving(w)    == pc[w] \in {"update_reload", "update_write",
                           "archive_reload", "archive_write",
                           "archive_softDelete"}
Renewing(w)  == pc[w] \in {"renew_insert", "renew_close"}
Inserted(w)  == pc[w] = "renew_close"
OnEmployee(w) == pc[w] \in {"updateEmployee_reload", "updateEmployee_write",
                            "archiveEmployee_softRemove",
                            "archiveEmployee_cascade"}

CreateOK(w) == Creating(w) =>
  /\ ctx[w].row \in Row
  /\ ctx[w].row.from = NoId
  /\ ctx[w].row.status # "renewed"

SaveOK(w) == Saving(w) =>
  /\ ctx[w].id \in RecordId
  /\ Exists(ctx[w].id)
  /\ ctx[w].row \in Row
  /\ ctx[w].row.status # "renewed"

RenewOK(w) == Renewing(w) =>
  /\ ctx[w].id \in RecordId
  /\ Exists(ctx[w].id)
  /\ ctx[w].row \in Row
  /\ ctx[w].row.from = ctx[w].id
  /\ ctx[w].row.status # "renewed"
  /\ ctx[w].row.emp = records[ctx[w].id].emp
  /\ ctx[w].row.type = records[ctx[w].id].type

InsertOK(w) == Inserted(w) =>
  /\ ctx[w].new \in RecordId
  /\ ~Exists(ctx[w].new)
  /\ ctx[w].id < ctx[w].new
  /\ ctx[w].new < nextId

EmployeeOK(w) == OnEmployee(w) => ctx[w].emp \in EmployeeId

HandlerOK == \A w \in Workers :
  CreateOK(w) /\ SaveOK(w) /\ RenewOK(w) /\ InsertOK(w) /\ EmployeeOK(w)

NewIdsDiffer == \A v, w \in Workers :
  Inserted(v) /\ Inserted(w) /\ v # w => ctx[v].new # ctx[w].new

IInv ==
  /\ TypeOK
  /\ IdsBelowCounter
  /\ HandlerOK
  /\ NewIdsDiffer
  /\ RenewalLinks
  /\ RenewedHasSuccessor

-----------------------------------------------------------------------------
(* The operators the handlers are built from.                              *)

(* The status rule never answers renewed or archived.                      *)
LEMMA StatusRule ==
  ASSUME NEW expiry, NEW day, NEW buffer
  PROVE  computeComplianceStatus(expiry, day, buffer) \in EvaluableStatus
BY DEF computeComplianceStatus, EvaluableStatus

(* No handler makes a row out of anything but columns.                     *)
LEMMA RowKept ==
  ASSUME NEW r \in Row
  PROVE  /\ SoftDeleted(r) \in Row
         /\ Superseded(r) \in Row
         /\ \A s \in EvaluableStatus : BulkSet(r, s) \in Row
         /\ \A e \in EmployeeId : Cascaded(r, e) \in Row
BY DEF SoftDeleted, Superseded, BulkSet, Cascaded, Row, Status,
       EvaluableStatus, TerminalStatus

LEMMA WriteColumnsRow ==
  ASSUME NEW r \in Row, NEW entity \in Row, NEW cols
  PROVE  /\ WriteColumns(r, entity, cols) \in Row
         /\ WriteColumns(r, entity, cols).emp = r.emp
         /\ WriteColumns(r, entity, cols).type = r.type
         /\ WriteColumns(r, entity, cols).from = r.from
         /\ \/ WriteColumns(r, entity, cols).status = r.status
            \/ WriteColumns(r, entity, cols).status = entity.status
BY DEF WriteColumns, Row

LEMMA CorrectedRow ==
  ASSUME NEW r \in Row, NEW issued \in Nat, NEW expiry \in Nat
  PROVE  /\ Corrected(r, issued, expiry) \in Row
         /\ Corrected(r, issued, expiry).status # "renewed"
<1>1. computeStatus(expiry) \in EvaluableStatus
  BY StatusRule DEF computeStatus
<1>2. QED
  BY <1>1 DEF Corrected, Row, Status, EvaluableStatus

LEMMA SuccessorRow ==
  ASSUME NEW r \in Row, NEW id \in RecordId,
         NEW issued \in Nat, NEW expiry \in Nat
  PROVE  /\ Successor(r, id, issued, expiry) \in Row
         /\ Successor(r, id, issued, expiry).status # "renewed"
         /\ Successor(r, id, issued, expiry).from = id
         /\ Successor(r, id, issued, expiry).emp = r.emp
         /\ Successor(r, id, issued, expiry).type = r.type
<1>1. computeStatus(expiry) \in EvaluableStatus
  BY StatusRule DEF computeStatus
<1>2. QED
  BY <1>1 DEF Successor, Row, Status, EvaluableStatus

(* Between two requests a worker holds nothing.                            *)
LEMMA BlankContext == Blank \in Context
BY DEF Blank, Context, NoWork, EvaluableStatus

(* A handler that moves on leaves every other worker where it is.          *)
LEMMA GoToTyped ==
  ASSUME TypeOK, NEW w \in Workers, NEW label \in Label,
         NEW locals \in Context, GoTo(w, label, locals)
  PROVE  /\ pc' \in [Workers -> Label]
         /\ ctx' \in [Workers -> Context]
BY DEF TypeOK, GoTo

LEMMA ReturnTyped ==
  ASSUME TypeOK, NEW w \in Workers, Return(w)
  PROVE  /\ pc' \in [Workers -> Label]
         /\ ctx' \in [Workers -> Context]
BY BlankContext, GoToTyped DEF Return, Label

-----------------------------------------------------------------------------
(* Types.                                                                  *)

LEMMA RequestTyped ==
  ASSUME IInv, NEW w \in Workers, Request(w)
  PROVE  TypeOK'
<1> USE DEF IInv
<1>1. CASE \E e \in EmployeeId, t \in Type, i \in IssuedDates,
              x \in ExpiryDates : create(w, e, t, i, x)
  <2>1. PICK e \in EmployeeId, t \in Type, i \in IssuedDates,
             x \in ExpiryDates : create(w, e, t, i, x)
    BY <1>1
  <2>2. computeStatus(x) \in EvaluableStatus
    BY StatusRule DEF computeStatus
  <2> DEFINE row == [emp |-> e, type |-> t, issued |-> i, expiry |-> x,
                     status |-> computeStatus(x), deleted |-> FALSE,
                     from |-> NoId]
  <2>3. row \in Row
    BY <2>2, ConstantsOK DEF Row, Status
  <2>4. [Blank EXCEPT !.row = row] \in Context
    BY <2>3, BlankContext DEF Context, Blank
  <2>5. QED
    BY <2>1, <2>4, GoToTyped DEF create, TypeOK, Label
<1>2. CASE \E id \in RecordId, i \in IssuedDates \union {Undefined},
              x \in ExpiryDates \union {Undefined} : update(w, id, i, x)
  <2>1. PICK id \in RecordId, i \in IssuedDates \union {Undefined},
             x \in ExpiryDates \union {Undefined} : update(w, id, i, x)
    BY <1>2
  <2> DEFINE r == records[id]
             row == IF i # Undefined \/ x # Undefined
                      THEN Corrected(r, Given(i, r.issued), Given(x, r.expiry))
                      ELSE r
  <2>2. r \in Row
    BY <2>1 DEF update, TypeOK, Exists
  <2>3. Given(i, r.issued) \in Nat /\ Given(x, r.expiry) \in Nat
    BY <2>2, ConstantsOK DEF Given, Row, Undefined
  <2>4. row \in Row
    BY <2>2, <2>3, CorrectedRow
  <2>5. [Blank EXCEPT !.id = id, !.row = row] \in Context
    BY <2>4, BlankContext DEF Context, Blank
  <2>6. GoTo(w, "update_reload", [Blank EXCEPT !.id = id, !.row = row])
        /\ UNCHANGED <<records, employees, nextId, today>>
    BY <2>1 DEF update
  <2>7. QED
    BY <2>5, <2>6, GoToTyped DEF TypeOK, Label
<1>3. CASE \E id \in RecordId : archive(w, id)
  <2>1. PICK id \in RecordId : archive(w, id)
    BY <1>3
  <2> DEFINE row == [records[id] EXCEPT !.status = "archived"]
  <2>2. row \in Row
    BY <2>1 DEF archive, TypeOK, Exists, Row, Status, TerminalStatus
  <2>3. [Blank EXCEPT !.id = id, !.row = row] \in Context
    BY <2>2, BlankContext DEF Context, Blank
  <2>4. QED
    BY <2>1, <2>3, GoToTyped DEF archive, TypeOK, Label
<1>4. CASE \E id \in RecordId, i \in IssuedDates, x \in ExpiryDates :
              renew(w, id, i, x)
  <2>1. PICK id \in RecordId, i \in IssuedDates, x \in ExpiryDates :
              renew(w, id, i, x)
    BY <1>4
  <2> DEFINE row == Successor(records[id], id, i, x)
  <2>2. row \in Row
    BY <2>1, SuccessorRow, ConstantsOK DEF renew, TypeOK, Exists
  <2>3. [Blank EXCEPT !.id = id, !.row = row] \in Context
    BY <2>2, BlankContext DEF Context, Blank
  <2>4. QED
    BY <2>1, <2>3, GoToTyped DEF renew, TypeOK, Label
<1>5. CASE \E updates \in BulkRequest : bulkStatusUpdate(w, updates)
  <2>1. PICK updates \in BulkRequest : bulkStatusUpdate(w, updates)
    BY <1>5
  <2> DEFINE selected == [s \in EvaluableStatus |->
                            {id \in RecordId : /\ <<id, s>> \in updates
                                               /\ Updatable(records[id])
                                               /\ records[id].status # s}]
  <2>2. [Blank EXCEPT !.todo = selected] \in Context
    BY BlankContext DEF Context, Blank
  <2>3. CASE selected = NoWork
    BY <2>1, <2>3 DEF bulkStatusUpdate, TypeOK
  <2>4. CASE selected # NoWork
    BY <2>1, <2>2, <2>4, GoToTyped DEF bulkStatusUpdate, TypeOK, Label
  <2>5. QED
    BY <2>3, <2>4
<1>6. CASE \E e \in EmployeeId : updateEmployee(w, e) \/ archiveEmployee(w, e)
  <2>1. PICK e \in EmployeeId : updateEmployee(w, e) \/ archiveEmployee(w, e)
    BY <1>6
  <2>2. [Blank EXCEPT !.emp = e] \in Context
    BY BlankContext DEF Context, Blank
  <2>3. QED
    BY <2>1, <2>2, GoToTyped DEF updateEmployee, archiveEmployee, TypeOK, Label
<1>7. QED
  BY <1>1, <1>2, <1>3, <1>4, <1>5, <1>6 DEF Request

(* The context of a worker stays typed when the handler notes what it      *)
(* found: changed columns, the id it was given, the bulk work that is left.*)
LEMMA NotedContext ==
  ASSUME NEW c \in Context
  PROVE  /\ \A cols \in SUBSET Column : [c EXCEPT !.cols = cols] \in Context
         /\ \A new \in RecordId : [c EXCEPT !.new = new] \in Context
         /\ \A s \in EvaluableStatus :
              [Blank EXCEPT !.todo = [c.todo EXCEPT ![s] = {}]] \in Context
BY BlankContext DEF Context, Blank

LEMMA ReloadTyped ==
  ASSUME IInv, NEW w \in Workers, NEW here, NEW next \in Label,
         Reload(w, here, next)
  PROVE  TypeOK'
<1>1. ctx[w] \in Context
  BY DEF IInv, TypeOK
<1>2. ChangedColumns(ctx[w].row, records[ctx[w].id]) \in SUBSET Column
  BY DEF ChangedColumns
<1>3. [ctx[w] EXCEPT !.cols = ChangedColumns(ctx[w].row, records[ctx[w].id])]
        \in Context
  BY <1>1, <1>2, NotedContext
<1>4. QED
  BY <1>3, GoToTyped DEF Reload, IInv, TypeOK

LEMMA WriteBackTyped ==
  ASSUME IInv, NEW w \in Workers, NEW here, Saving(w), WriteBack(w, here)
  PROVE  /\ records' \in [RecordId -> Row \union {None}]
         /\ UNCHANGED <<employees, nextId, today>>
<1>1. /\ ctx[w].id \in RecordId
      /\ ctx[w].row \in Row
      /\ records[ctx[w].id] \in Row
  BY DEF IInv, HandlerOK, SaveOK, Exists, TypeOK
<1>2. WriteColumns(records[ctx[w].id], ctx[w].row, ctx[w].cols) \in Row
  BY <1>1, WriteColumnsRow
<1>3. QED
  BY <1>1, <1>2 DEF WriteBack, IInv, TypeOK

LEMMA StatementTyped ==
  ASSUME IInv, NEW w \in Workers, Statement(w)
  PROVE  TypeOK'
<1> USE DEF IInv
<1>0. ctx[w] \in Context
  BY DEF TypeOK
<1>1. CASE create_insert(w)
  <2>1. ctx[w].row \in Row /\ nextId \in RecordId
    BY <1>1 DEF create_insert, HandlerOK, CreateOK, Creating
  <2>2. nextId + 1 \in 1..(MaxRecords + 1)
    BY <2>1, ConstantsOK DEF RecordId
  <2>3. QED
    BY <1>1, <2>1, <2>2, ReturnTyped DEF create_insert, TypeOK
<1>2. CASE update_reload(w)
  BY <1>2, ReloadTyped DEF update_reload, Label
<1>3. CASE update_write(w)
  <2>1. Saving(w)
    BY <1>3 DEF update_write, WriteBack, Saving
  <2>2. QED
    BY <1>3, <2>1, WriteBackTyped, ReturnTyped DEF update_write, TypeOK
<1>4. CASE archive_reload(w)
  BY <1>4, ReloadTyped DEF archive_reload, Label
<1>5. CASE archive_write(w)
  <2>1. Saving(w)
    BY <1>5 DEF archive_write, WriteBack, Saving
  <2>2. QED
    BY <1>0, <1>5, <2>1, WriteBackTyped, GoToTyped
       DEF archive_write, TypeOK, Label
<1>6. CASE archive_softDelete(w)
  <2>1. ctx[w].id \in RecordId /\ records[ctx[w].id] \in Row
    BY <1>6 DEF archive_softDelete, HandlerOK, SaveOK, Saving, Exists, TypeOK
  <2>2. QED
    BY <1>6, <2>1, RowKept, ReturnTyped DEF archive_softDelete, TypeOK
<1>7. CASE renew_insert(w)
  <2>1. nextId + 1 \in 1..(MaxRecords + 1)
    BY <1>7, ConstantsOK DEF renew_insert, RecordId
  <2>2. QED
    BY <1>0, <1>7, <2>1, NotedContext, GoToTyped
       DEF renew_insert, TypeOK, Label
<1>8. CASE renew_close(w)
  <2>1. /\ ctx[w].id \in RecordId
        /\ ctx[w].row \in Row
        /\ records[ctx[w].id] \in Row
    BY <1>8 DEF renew_close, HandlerOK, RenewOK, Renewing, Exists, TypeOK
  <2>2. QED
    BY <1>8, <2>1, RowKept, ReturnTyped DEF renew_close, TypeOK
<1>9. CASE renew_deadlock(w) \/ insert_fails(w) \/ crash(w)
  BY <1>9, ReturnTyped DEF renew_deadlock, insert_fails, crash, TypeOK
<1>10. CASE \E s \in EvaluableStatus : bulk_apply(w, s)
  <2>1. PICK s \in EvaluableStatus : bulk_apply(w, s)
    BY <1>10
  <2>2. records' \in [RecordId -> Row \union {None}]
    <3>1. BulkSet(None, s) = None
      BY DEF BulkSet, Updatable
    <3>2. QED
      BY <2>1, <3>1, RowKept DEF bulk_apply, TypeOK
  <2>3. [Blank EXCEPT !.todo = [ctx[w].todo EXCEPT ![s] = {}]] \in Context
    BY <1>0, NotedContext
  <2>4. pc' \in [Workers -> Label] /\ ctx' \in [Workers -> Context]
    BY <2>1, <2>3, ReturnTyped, GoToTyped DEF bulk_apply, Label
  <2>5. QED
    BY <2>1, <2>2, <2>4 DEF bulk_apply, TypeOK
<1>11. CASE updateEmployee_reload(w)
  <2>1. (IF employees[ctx[w].emp] = "archived" THEN {"deleted"} ELSE {})
          \in SUBSET Column
    BY DEF Column
  <2>2. QED
    BY <1>0, <1>11, <2>1, NotedContext, GoToTyped
       DEF updateEmployee_reload, TypeOK, Label
<1>12. CASE updateEmployee_write(w)
  BY <1>12, ReturnTyped DEF updateEmployee_write, TypeOK
<1>13. CASE archiveEmployee_softRemove(w)
  BY <1>0, <1>13, GoToTyped DEF archiveEmployee_softRemove, TypeOK, Label
<1>14. CASE archiveEmployee_cascade(w)
  <2>1. ctx[w].emp \in EmployeeId
    BY <1>14 DEF archiveEmployee_cascade, HandlerOK, EmployeeOK, OnEmployee
  <2>2. Cascaded(None, ctx[w].emp) = None
    BY DEF Cascaded
  <2>3. records' \in [RecordId -> Row \union {None}]
    BY <1>14, <2>1, <2>2, RowKept DEF archiveEmployee_cascade, TypeOK
  <2>4. QED
    BY <1>14, <2>3, ReturnTyped DEF archiveEmployee_cascade, TypeOK
<1>15. QED
  BY <1>1, <1>2, <1>3, <1>4, <1>5, <1>6, <1>7, <1>8, <1>9, <1>10, <1>11,
     <1>12, <1>13, <1>14 DEF Statement

LEMMA TypeNext ==
  ASSUME IInv, [Next]_vars
  PROVE  TypeOK'
<1>1. CASE \E w \in Workers : Request(w) \/ Statement(w)
  BY <1>1, RequestTyped, StatementTyped
<1>2. CASE \E e \in EmployeeId : createEmployee(e)
  BY <1>2 DEF createEmployee, IInv, TypeOK
<1>3. CASE midnight
  BY <1>3, ConstantsOK DEF midnight, IInv, TypeOK
<1>4. CASE UNCHANGED vars
  BY <1>4 DEF vars, IInv, TypeOK
<1>5. QED
  BY <1>1, <1>2, <1>3, <1>4 DEF Next
-----------------------------------------------------------------------------
(* What a step does to one row.                                            *)

(* The first statement of every handler reads: requests change no table.   *)
LEMMA RequestReads ==
  ASSUME NEW w, Request(w)
  PROVE  UNCHANGED <<records, employees, nextId, today>>
<1>1. CASE \E e \in EmployeeId, t \in Type, i \in IssuedDates,
              x \in ExpiryDates : create(w, e, t, i, x)
  BY <1>1 DEF create
<1>2. CASE \E id \in RecordId, i \in IssuedDates \union {Undefined},
              x \in ExpiryDates \union {Undefined} : update(w, id, i, x)
  BY <1>2 DEF update
<1>3. CASE \E id \in RecordId : archive(w, id)
  BY <1>3 DEF archive
<1>4. CASE \E id \in RecordId, i \in IssuedDates, x \in ExpiryDates :
              renew(w, id, i, x)
  BY <1>4 DEF renew
<1>5. CASE \E updates \in BulkRequest : bulkStatusUpdate(w, updates)
  BY <1>5 DEF bulkStatusUpdate
<1>6. CASE \E e \in EmployeeId : updateEmployee(w, e) \/ archiveEmployee(w, e)
  BY <1>6 DEF updateEmployee, archiveEmployee
<1>7. QED
  BY <1>1, <1>2, <1>3, <1>4, <1>5, <1>6 DEF Request

(* These statements leave the records alone.                               *)
OffRecords(w) ==
  \/ update_reload(w) \/ archive_reload(w) \/ renew_insert(w)
  \/ renew_deadlock(w) \/ insert_fails(w) \/ crash(w)
  \/ updateEmployee_reload(w) \/ updateEmployee_write(w)
  \/ archiveEmployee_softRemove(w)

LEMMA OffRecordsKeeps ==
  ASSUME NEW w, OffRecords(w)
  PROVE  records' = records
<1>1. CASE \/ update_reload(w) \/ archive_reload(w) \/ renew_insert(w)
           \/ renew_deadlock(w) \/ insert_fails(w)
  BY <1>1 DEF update_reload, archive_reload, Reload, renew_insert,
     renew_deadlock, insert_fails
<1>2. CASE \/ crash(w) \/ updateEmployee_reload(w) \/ updateEmployee_write(w)
           \/ archiveEmployee_softRemove(w)
  BY <1>2 DEF crash, updateEmployee_reload, updateEmployee_write,
     archiveEmployee_softRemove
<1>3. QED
  BY <1>1, <1>2 DEF OffRecords

Kept(id) ==
  /\ Exists(id)
  /\ records'[id] # None
  /\ records'[id].emp = records[id].emp
  /\ records'[id].type = records[id].type
  /\ records'[id].from = records[id].from
  /\ records'[id].status = "renewed" =>
       \/ records[id].status = "renewed"
       \/ \E new \in RecordId :
            ~Exists(new) /\ records'[new] # None /\ records'[new].from = id

StaysAbsent(id) == ~Exists(id) /\ records'[id] = None

Created(id) ==
  /\ ~Exists(id)
  /\ id = nextId
  /\ nextId' = nextId + 1
  /\ records'[id] # None
  /\ records'[id].from = NoId
  /\ records'[id].status # "renewed"

CreatedByRenewal(id) ==
  /\ ~Exists(id)
  /\ records'[id] # None
  /\ \E w \in Workers : /\ Inserted(w)
                        /\ id = ctx[w].new
                        /\ records'[id] = ctx[w].row
                        /\ pc'[w] = "idle"

RowStep(id) ==
  Kept(id) \/ StaysAbsent(id) \/ Created(id) \/ CreatedByRenewal(id)

(* A row that is left alone is kept.                                       *)
LEMMA UntouchedRow ==
  ASSUME NEW id \in RecordId, records'[id] = records[id]
  PROVE  RowStep(id)
BY DEF RowStep, Kept, StaysAbsent, Exists

LEMMA CreateRows ==
  ASSUME IInv, NEW w \in Workers, create_insert(w), NEW id \in RecordId
  PROVE  RowStep(id)
<1>1. /\ ctx[w].row \in Row
      /\ ctx[w].row.from = NoId
      /\ ctx[w].row.status # "renewed"
  BY DEF create_insert, IInv, HandlerOK, CreateOK, Creating
<1>2. CASE id = nextId
  <2>1. ~Exists(id)
    BY <1>2 DEF IInv, IdsBelowCounter, RecordId
  <2>2. records'[id] = ctx[w].row /\ nextId' = nextId + 1
    BY <1>2 DEF create_insert, IInv, TypeOK
  <2>3. records'[id] # None
    BY <1>1, <2>2, ConstantsOK
  <2>4. QED
    BY <1>1, <1>2, <2>1, <2>2, <2>3 DEF RowStep, Created
<1>3. CASE id # nextId
  BY <1>3, UntouchedRow DEF create_insert, IInv, TypeOK
<1>4. QED
  BY <1>2, <1>3

LEMMA WriteBackRows ==
  ASSUME IInv, NEW w \in Workers, NEW here, Saving(w), WriteBack(w, here),
         NEW id \in RecordId
  PROVE  RowStep(id)
<1>1. /\ ctx[w].row \in Row
      /\ ctx[w].row.status # "renewed"
      /\ Exists(ctx[w].id)
  BY DEF IInv, HandlerOK, SaveOK
<1>2. CASE id = ctx[w].id
  <2>1. records[id] \in Row
    BY <1>1, <1>2 DEF IInv, TypeOK, Exists
  <2>2. records'[id] = WriteColumns(records[id], ctx[w].row, ctx[w].cols)
    BY <1>2 DEF WriteBack, IInv, TypeOK
  <2>3. records'[id] \in Row /\ records'[id] # None
    BY <1>1, <2>1, <2>2, WriteColumnsRow, ConstantsOK
  <2>4. QED
    BY <1>1, <1>2, <2>1, <2>2, <2>3, WriteColumnsRow DEF RowStep, Kept
<1>3. CASE id # ctx[w].id
  BY <1>3, UntouchedRow DEF WriteBack, IInv, TypeOK
<1>4. QED
  BY <1>2, <1>3

LEMMA SoftDeleteRows ==
  ASSUME IInv, NEW w \in Workers, archive_softDelete(w), NEW id \in RecordId
  PROVE  RowStep(id)
<1>1. CASE id = ctx[w].id
  <2>1. records[id] \in Row /\ Exists(id)
    BY <1>1 DEF archive_softDelete, IInv, HandlerOK, SaveOK, Saving, TypeOK,
                Exists
  <2>2. records'[id] = SoftDeleted(records[id])
    BY <1>1 DEF archive_softDelete, IInv, TypeOK
  <2>3. records'[id] # None
    BY <2>1, <2>2, RowKept, ConstantsOK
  <2>4. QED
    BY <2>1, <2>2, <2>3 DEF RowStep, Kept, SoftDeleted, Row
<1>2. CASE id # ctx[w].id
  BY <1>2, UntouchedRow DEF archive_softDelete, IInv, TypeOK
<1>3. QED
  BY <1>1, <1>2

LEMMA RenewRows ==
  ASSUME IInv, NEW w \in Workers, renew_close(w), NEW id \in RecordId
  PROVE  RowStep(id)
<1> DEFINE old == ctx[w].id
           new == ctx[w].new
<1>1. /\ old \in RecordId /\ new \in RecordId /\ old # new
      /\ Exists(old) /\ ~Exists(new)
      /\ ctx[w].row \in Row /\ ctx[w].row.from = old
      /\ Inserted(w)
  BY DEF renew_close, IInv, HandlerOK, RenewOK, InsertOK, Renewing, Inserted,
         RecordId
<1>2. /\ records'[new] = ctx[w].row
      /\ records'[old] = Superseded(records[old])
      /\ id \notin {old, new} => records'[id] = records[id]
      /\ pc'[w] = "idle"
  BY <1>1 DEF renew_close, Return, GoTo, IInv, TypeOK
<1>3. records'[new] # None
  BY <1>1, <1>2, ConstantsOK
<1>4. CASE id = new
  BY <1>1, <1>2, <1>3, <1>4 DEF RowStep, CreatedByRenewal
<1>5. CASE id = old
  <2>1. records[old] \in Row
    BY <1>1 DEF IInv, TypeOK, Exists
  <2>2. records'[old] # None
    BY <1>2, <2>1, RowKept, ConstantsOK
  <2>3. /\ records'[old].emp = records[old].emp
        /\ records'[old].type = records[old].type
        /\ records'[old].from = records[old].from
    BY <1>2, <2>1 DEF Superseded, SoftDeleted, Row
  <2>4. QED
    BY <1>1, <1>2, <1>3, <1>5, <2>2, <2>3 DEF RowStep, Kept
<1>6. CASE id \notin {old, new}
  BY <1>2, <1>6, UntouchedRow
<1>7. QED
  BY <1>4, <1>5, <1>6

LEMMA BulkRows ==
  ASSUME IInv, NEW w \in Workers, NEW s \in EvaluableStatus, bulk_apply(w, s),
         NEW id \in RecordId
  PROVE  RowStep(id)
<1>1. \/ records'[id] = records[id]
      \/ Exists(id) /\ records'[id] = [records[id] EXCEPT !.status = s]
  BY DEF bulk_apply, BulkSet, Updatable, Exists
<1>2. CASE records'[id] = records[id]
  BY <1>2, UntouchedRow
<1>3. CASE Exists(id) /\ records'[id] = [records[id] EXCEPT !.status = s]
  <2>1. records[id] \in Row
    BY <1>3 DEF IInv, TypeOK, Exists
  <2>2. records'[id] \in Row /\ records'[id] # None
    BY <1>3, <2>1, ConstantsOK DEF Row, Status
  <2>3. records'[id].status = s /\ s # "renewed"
    BY <1>3, <2>1 DEF Row, EvaluableStatus
  <2>4. QED
    BY <1>3, <2>1, <2>2, <2>3 DEF RowStep, Kept, Row
<1>4. QED
  BY <1>1, <1>2, <1>3

LEMMA CascadeRows ==
  ASSUME IInv, NEW w \in Workers, archiveEmployee_cascade(w),
         NEW id \in RecordId
  PROVE  RowStep(id)
<1>1. records'[id] = Cascaded(records[id], ctx[w].emp)
  BY DEF archiveEmployee_cascade
<1>2. CASE records'[id] = records[id]
  BY <1>2, UntouchedRow
<1>3. CASE records'[id] # records[id]
  <2>1. records[id] \in Row /\ Exists(id)
    BY <1>1, <1>3 DEF Cascaded, IInv, TypeOK, Exists
  <2>2. records'[id] = SoftDeleted([records[id] EXCEPT !.status = "archived"])
    BY <1>1, <1>3 DEF Cascaded
  <2>3. records'[id] \in Row
    BY <2>1, <2>2 DEF SoftDeleted, Row, Status, TerminalStatus
  <2>4. records'[id] # None
    BY <2>3, ConstantsOK
  <2>5. QED
    BY <2>1, <2>2, <2>4 DEF RowStep, Kept, SoftDeleted, Row
<1>4. QED
  BY <1>2, <1>3

LEMMA RecordsNext ==
  ASSUME IInv, [Next]_vars
  PROVE  \A id \in RecordId : RowStep(id)
<1> SUFFICES ASSUME NEW id \in RecordId
             PROVE  RowStep(id)
  OBVIOUS
<1>1. CASE \E w \in Workers : Request(w)
  BY <1>1, RequestReads, UntouchedRow
<1>2. CASE \E w \in Workers : Statement(w)
  <2>1. PICK w \in Workers : Statement(w)
    BY <1>2
  <2>2. CASE create_insert(w)
    BY <2>2, CreateRows
  <2>3. CASE update_write(w)
    BY <2>3, WriteBackRows DEF update_write, WriteBack, Saving
  <2>4. CASE archive_write(w)
    BY <2>4, WriteBackRows DEF archive_write, WriteBack, Saving
  <2>5. CASE archive_softDelete(w)
    BY <2>5, SoftDeleteRows
  <2>6. CASE renew_close(w)
    BY <2>6, RenewRows
  <2>7. CASE \E s \in EvaluableStatus : bulk_apply(w, s)
    BY <2>7, BulkRows
  <2>8. CASE archiveEmployee_cascade(w)
    BY <2>8, CascadeRows
  <2>9. CASE OffRecords(w)
    BY <2>9, OffRecordsKeeps, UntouchedRow
  <2>10. QED
    BY <2>1, <2>2, <2>3, <2>4, <2>5, <2>6, <2>7, <2>8, <2>9
       DEF Statement, OffRecords
<1>3. CASE (\E e \in EmployeeId : createEmployee(e)) \/ midnight
  BY <1>3, UntouchedRow DEF createEmployee, midnight
<1>4. CASE UNCHANGED vars
  BY <1>4, UntouchedRow DEF vars
<1>5. QED
  BY <1>1, <1>2, <1>3, <1>4 DEF Next
-----------------------------------------------------------------------------
(* The renewal history.                                                    *)

(* A row that exists goes on existing, as what it was.                     *)
LEMMA ExistingKept ==
  ASSUME IInv, [Next]_vars, NEW id \in RecordId, Exists(id)
  PROVE  Kept(id)
BY RecordsNext DEF RowStep, StaysAbsent, Created, CreatedByRenewal

LEMMA CounterGrows ==
  ASSUME IInv, [Next]_vars
  PROVE  nextId' \in Nat /\ nextId' >= nextId
<1>1. nextId \in Nat
  BY ConstantsOK DEF IInv, TypeOK
<1>2. CASE nextId' = nextId
  BY <1>1, <1>2
<1>3. CASE nextId' = nextId + 1
  BY <1>1, <1>3
<1>4. CASE \E w \in Workers : Request(w)
  BY <1>2, <1>4, RequestReads
<1>5. CASE \E w \in Workers : Statement(w)
  <2>1. PICK w \in Workers : Statement(w)
    BY <1>5
  <2>2. CASE create_insert(w) \/ renew_insert(w)
    BY <1>3, <2>2 DEF create_insert, renew_insert
  <2>3. CASE \/ update_reload(w) \/ archive_reload(w) \/ update_write(w)
             \/ archive_write(w) \/ archive_softDelete(w)
    BY <1>2, <2>3 DEF update_reload, archive_reload, Reload, update_write,
       archive_write, WriteBack, archive_softDelete
  <2>4. CASE \/ renew_close(w) \/ renew_deadlock(w) \/ insert_fails(w)
             \/ crash(w) \/ \E s \in EvaluableStatus : bulk_apply(w, s)
    BY <1>2, <2>4 DEF renew_close, renew_deadlock, insert_fails, crash,
       bulk_apply
  <2>5. CASE \/ updateEmployee_reload(w) \/ updateEmployee_write(w)
             \/ archiveEmployee_softRemove(w) \/ archiveEmployee_cascade(w)
    BY <1>2, <2>5 DEF updateEmployee_reload, updateEmployee_write,
       archiveEmployee_softRemove, archiveEmployee_cascade
  <2>6. QED
    BY <2>1, <2>2, <2>3, <2>4, <2>5 DEF Statement
<1>6. CASE (\E e \in EmployeeId : createEmployee(e)) \/ midnight
  BY <1>2, <1>6 DEF createEmployee, midnight
<1>7. CASE UNCHANGED vars
  BY <1>2, <1>7 DEF vars
<1>8. QED
  BY <1>4, <1>5, <1>6, <1>7 DEF Next

LEMMA IdsNext ==
  ASSUME IInv, [Next]_vars
  PROVE  IdsBelowCounter'
<1> SUFFICES ASSUME NEW id \in RecordId, Exists(id)'
             PROVE  id < nextId'
  BY DEF IdsBelowCounter
<1>1. nextId' >= nextId /\ nextId' \in Nat /\ nextId \in Nat /\ id \in Nat
  BY CounterGrows, ConstantsOK DEF IInv, TypeOK, RecordId
<1>2. RowStep(id)
  BY RecordsNext
<1>3. CASE Kept(id)
  BY <1>1, <1>3 DEF Kept, IInv, IdsBelowCounter
<1>4. CASE Created(id)
  BY <1>1, <1>4 DEF Created
<1>5. CASE CreatedByRenewal(id)
  BY <1>1, <1>5 DEF CreatedByRenewal, IInv, HandlerOK, InsertOK
<1>6. QED
  BY <1>2, <1>3, <1>4, <1>5 DEF RowStep, StaysAbsent, Exists

LEMMA LinksNext ==
  ASSUME IInv, [Next]_vars
  PROVE  RenewalLinks'
<1> SUFFICES ASSUME NEW id \in RecordId, Exists(id)', records'[id].from # NoId
             PROVE  /\ records'[id].from < id
                    /\ records'[records'[id].from] # None
                    /\ records'[records'[id].from].emp = records'[id].emp
                    /\ records'[records'[id].from].type = records'[id].type
  BY DEF RenewalLinks, Exists
<1> DEFINE old == records'[id].from
<1>1. RowStep(id)
  BY RecordsNext
<1>2. CASE Kept(id)
  <2>1. /\ old = records[id].from /\ Exists(id)
        /\ records'[id].emp = records[id].emp
        /\ records'[id].type = records[id].type
    BY <1>2 DEF Kept
  <2>2. old \in RecordId
    BY <2>1 DEF IInv, TypeOK, Exists, Row
  <2>3. /\ old < id /\ Exists(old)
        /\ records[old].emp = records[id].emp
        /\ records[old].type = records[id].type
    BY <2>1 DEF IInv, RenewalLinks
  <2>4. Kept(old)
    BY <2>2, <2>3, ExistingKept
  <2>5. QED
    BY <2>1, <2>3, <2>4 DEF Kept, Exists
<1>3. CASE Created(id)
  BY <1>3 DEF Created
<1>4. CASE CreatedByRenewal(id)
  <2>1. PICK w \in Workers : /\ Inserted(w)
                             /\ id = ctx[w].new
                             /\ records'[id] = ctx[w].row
    BY <1>4 DEF CreatedByRenewal
  <2>2. /\ old = ctx[w].id /\ old \in RecordId /\ Exists(old) /\ old < id
        /\ ctx[w].row.emp = records[old].emp
        /\ ctx[w].row.type = records[old].type
    BY <2>1 DEF IInv, HandlerOK, RenewOK, InsertOK, Renewing, Inserted
  <2>3. Kept(old)
    BY <2>2, ExistingKept
  <2>4. QED
    BY <2>1, <2>2, <2>3 DEF Kept, Exists
<1>5. QED
  BY <1>1, <1>2, <1>3, <1>4 DEF RowStep, StaysAbsent, Exists

LEMMA SuccessorNext ==
  ASSUME IInv, [Next]_vars
  PROVE  RenewedHasSuccessor'
<1> SUFFICES ASSUME NEW id \in RecordId, Exists(id)',
                    records'[id].status = "renewed"
             PROVE  \E new \in RecordId :
                      Exists(new)' /\ records'[new].from = id
  BY DEF RenewedHasSuccessor
<1>1. RowStep(id)
  BY RecordsNext
<1>2. CASE Kept(id) /\ records[id].status = "renewed"
  <2>1. PICK new \in RecordId : Exists(new) /\ records[new].from = id
    BY <1>2 DEF Kept, IInv, RenewedHasSuccessor
  <2>2. Kept(new)
    BY <2>1, ExistingKept
  <2>3. QED
    BY <2>1, <2>2 DEF Kept, Exists
<1>3. CASE Kept(id) /\ records[id].status # "renewed"
  BY <1>3 DEF Kept, Exists
<1>4. CASE Created(id)
  BY <1>4 DEF Created
<1>5. CASE CreatedByRenewal(id)
  BY <1>5 DEF CreatedByRenewal, IInv, HandlerOK, RenewOK, Renewing, Inserted
<1>6. QED
  BY <1>1, <1>2, <1>3, <1>4, <1>5 DEF RowStep, StaysAbsent, Exists

-----------------------------------------------------------------------------
(* What a handler relies on.                                               *)

Still(v) == pc'[v] = pc[v] /\ ctx'[v] = ctx[v]

WorkerOK(w) ==
  CreateOK(w) /\ SaveOK(w) /\ RenewOK(w) /\ InsertOK(w) /\ EmployeeOK(w)

LEMMA OthersStill ==
  ASSUME TypeOK, NEW w \in Workers, Request(w) \/ Statement(w),
         NEW v \in Workers, v # w
  PROVE  Still(v)
<1>1. ASSUME NEW label, NEW locals, GoTo(w, label, locals)
      PROVE  Still(v)
  BY <1>1 DEF GoTo, Still, TypeOK
<1>2. CASE UNCHANGED <<pc, ctx>>
  BY <1>2 DEF Still
<1>3. CASE Request(w)
  BY <1>1, <1>2, <1>3 DEF Request, create, update, archive, renew,
     bulkStatusUpdate, updateEmployee, archiveEmployee
<1>4. CASE Statement(w)
  BY <1>1, <1>4 DEF Statement, Return, create_insert, update_reload,
     update_write, archive_reload, archive_write, archive_softDelete,
     renew_insert, renew_close, renew_deadlock, insert_fails, bulk_apply,
     updateEmployee_reload, updateEmployee_write, archiveEmployee_softRemove,
     archiveEmployee_cascade, crash, Reload
<1>5. QED
  BY <1>3, <1>4

(* Whatever others do, a handler that stands still can go on relying on    *)
(* what it read.                                                           *)
LEMMA StillOK ==
  ASSUME IInv, [Next]_vars, NEW v \in Workers, Still(v)
  PROVE  WorkerOK(v)'
<1>1. WorkerOK(v)
  BY DEF IInv, HandlerOK, WorkerOK
<1>2. CreateOK(v)' /\ EmployeeOK(v)'
  BY <1>1 DEF WorkerOK, CreateOK, EmployeeOK, Creating, OnEmployee, Still
<1>3. SaveOK(v)'
  <2> SUFFICES ASSUME Saving(v)
               PROVE  SaveOK(v)'
    BY DEF SaveOK, Saving, Still
  <2>1. Kept(ctx[v].id)
    BY <1>1, ExistingKept DEF WorkerOK, SaveOK
  <2>2. QED
    BY <1>1, <2>1 DEF WorkerOK, SaveOK, Still, Kept, Exists
<1>4. RenewOK(v)'
  <2> SUFFICES ASSUME Renewing(v)
               PROVE  RenewOK(v)'
    BY DEF RenewOK, Renewing, Still
  <2>1. Kept(ctx[v].id)
    BY <1>1, ExistingKept DEF WorkerOK, RenewOK
  <2>2. QED
    BY <1>1, <2>1 DEF WorkerOK, RenewOK, Still, Kept, Exists
<1>5. InsertOK(v)'
  <2> SUFFICES ASSUME Inserted(v)
               PROVE  InsertOK(v)'
    BY DEF InsertOK, Inserted, Still
  <2> DEFINE new == ctx[v].new
  <2>1. /\ new \in RecordId /\ ~Exists(new)
        /\ ctx[v].id < new /\ new < nextId
    BY <1>1 DEF WorkerOK, InsertOK
  <2>2. new < nextId'
    BY <2>1, CounterGrows, ConstantsOK DEF IInv, TypeOK, RecordId
  <2>3. ~Created(new)
    BY <2>1, ConstantsOK DEF Created, IInv, TypeOK, RecordId
  <2>4. ~CreatedByRenewal(new)
    BY DEF CreatedByRenewal, IInv, NewIdsDiffer, Inserted, Still
  <2>5. StaysAbsent(new)
    BY <2>1, <2>3, <2>4, RecordsNext DEF RowStep, Kept
  <2>6. QED
    BY <2>1, <2>2, <2>5 DEF InsertOK, StaysAbsent, Exists, Still
<1>6. QED
  BY <1>2, <1>3, <1>4, <1>5 DEF WorkerOK
(* A worker that returned relies on nothing.                               *)
LEMMA ReturnedOK ==
  ASSUME TypeOK, NEW w \in Workers, Return(w)
  PROVE  WorkerOK(w)'
<1>1. pc'[w] = "idle"
  BY DEF Return, GoTo, TypeOK
<1>2. QED
  BY <1>1 DEF WorkerOK, CreateOK, SaveOK, RenewOK, InsertOK, EmployeeOK,
              Creating, Saving, Renewing, Inserted, OnEmployee

LEMMA GoToThere ==
  ASSUME TypeOK, NEW w \in Workers, NEW label, NEW locals,
         GoTo(w, label, locals)
  PROVE  pc'[w] = label /\ ctx'[w] = locals
BY DEF GoTo, TypeOK

(* What a request hands to its first statement.                            *)
LEMMA RequestOK ==
  ASSUME IInv, NEW w \in Workers, Request(w)
  PROVE  WorkerOK(w)'
<1> USE DEF IInv
<1>1. CASE \E e \in EmployeeId, t \in Type, i \in IssuedDates,
              x \in ExpiryDates : create(w, e, t, i, x)
  <2>1. PICK e \in EmployeeId, t \in Type, i \in IssuedDates,
             x \in ExpiryDates : create(w, e, t, i, x)
    BY <1>1
  <2>2. computeStatus(x) \in EvaluableStatus
    BY StatusRule DEF computeStatus
  <2> DEFINE row == [emp |-> e, type |-> t, issued |-> i, expiry |-> x,
                     status |-> computeStatus(x), deleted |-> FALSE,
                     from |-> NoId]
  <2>3. row \in Row /\ row.from = NoId /\ row.status # "renewed"
    BY <2>2, ConstantsOK DEF Row, Status, EvaluableStatus
  <2>4. pc'[w] = "create_insert" /\ ctx'[w] = [Blank EXCEPT !.row = row]
    BY <2>1, GoToThere DEF create
  <2>5. ctx'[w].row = row
    BY <2>4 DEF Blank
  <2>6. QED
    BY <2>3, <2>4, <2>5 DEF WorkerOK, CreateOK, SaveOK, RenewOK, InsertOK,
       EmployeeOK, Creating, Saving, Renewing, Inserted, OnEmployee
<1>2. CASE \E id \in RecordId, i \in IssuedDates \union {Undefined},
              x \in ExpiryDates \union {Undefined} : update(w, id, i, x)
  <2>1. PICK id \in RecordId, i \in IssuedDates \union {Undefined},
             x \in ExpiryDates \union {Undefined} : update(w, id, i, x)
    BY <1>2
  <2> DEFINE r == records[id]
             row == IF i # Undefined \/ x # Undefined
                      THEN Corrected(r, Given(i, r.issued), Given(x, r.expiry))
                      ELSE r
  <2>2. Exists(id) /\ r \in Row /\ r.status # "renewed" /\ records' = records
    BY <2>1 DEF update, TypeOK, Exists, TerminalStatus
  <2>3. Given(i, r.issued) \in Nat /\ Given(x, r.expiry) \in Nat
    BY <2>2, ConstantsOK DEF Given, Row, Undefined
  <2>4. row \in Row /\ row.status # "renewed"
    BY <2>2, <2>3, CorrectedRow
  <2>5. GoTo(w, "update_reload", [Blank EXCEPT !.id = id, !.row = row])
    BY <2>1 DEF update
  <2>6. /\ pc'[w] = "update_reload"
        /\ ctx'[w] = [Blank EXCEPT !.id = id, !.row = row]
    BY <2>5, GoToThere
  <2>7. ctx'[w].id = id /\ ctx'[w].row = row
    BY <2>6 DEF Blank
  <2>8. QED
    BY <2>2, <2>4, <2>6, <2>7 DEF WorkerOK, CreateOK, SaveOK, RenewOK, InsertOK,
       EmployeeOK, Creating, Saving, Renewing, Inserted, OnEmployee, Exists
<1>3. CASE \E id \in RecordId : archive(w, id)
  <2>1. PICK id \in RecordId : archive(w, id)
    BY <1>3
  <2> DEFINE row == [records[id] EXCEPT !.status = "archived"]
  <2>2. Exists(id) /\ records' = records
    BY <2>1 DEF archive
  <2>3. row \in Row /\ row.status # "renewed"
    BY <2>2 DEF TypeOK, Exists, Row, Status, TerminalStatus
  <2>4. GoTo(w, "archive_reload", [Blank EXCEPT !.id = id, !.row = row])
    BY <2>1 DEF archive
  <2>5. /\ pc'[w] = "archive_reload"
        /\ ctx'[w] = [Blank EXCEPT !.id = id, !.row = row]
    BY <2>4, GoToThere
  <2>6. ctx'[w].id = id /\ ctx'[w].row = row
    BY <2>5 DEF Blank
  <2>7. QED
    BY <2>2, <2>3, <2>5, <2>6 DEF WorkerOK, CreateOK, SaveOK, RenewOK, InsertOK,
       EmployeeOK, Creating, Saving, Renewing, Inserted, OnEmployee, Exists
<1>4. CASE \E id \in RecordId, i \in IssuedDates, x \in ExpiryDates :
              renew(w, id, i, x)
  <2>1. PICK id \in RecordId, i \in IssuedDates, x \in ExpiryDates :
              renew(w, id, i, x)
    BY <1>4
  <2> DEFINE row == Successor(records[id], id, i, x)
  <2>2. Exists(id) /\ records' = records /\ records[id] \in Row
    BY <2>1 DEF renew, TypeOK, Exists
  <2>3. /\ row \in Row /\ row.status # "renewed" /\ row.from = id
        /\ row.emp = records[id].emp /\ row.type = records[id].type
    <3>1. i \in Nat /\ x \in Nat
      BY ConstantsOK
    <3>2. QED
      BY <2>2, <3>1, SuccessorRow
  <2>4. GoTo(w, "renew_insert", [Blank EXCEPT !.id = id, !.row = row])
    BY <2>1 DEF renew
  <2>5. /\ pc'[w] = "renew_insert"
        /\ ctx'[w] = [Blank EXCEPT !.id = id, !.row = row]
    BY <2>4, GoToThere
  <2>6. ctx'[w].id = id /\ ctx'[w].row = row
    BY <2>5 DEF Blank
  <2>7. QED
    BY <2>2, <2>3, <2>5, <2>6 DEF WorkerOK, CreateOK, SaveOK, RenewOK, InsertOK,
       EmployeeOK, Creating, Saving, Renewing, Inserted, OnEmployee, Exists
<1>5. CASE \E updates \in BulkRequest : bulkStatusUpdate(w, updates)
  <2>1. pc'[w] \in {"idle", "bulk_apply"}
    BY <1>5, GoToThere DEF bulkStatusUpdate
  <2>2. QED
    BY <2>1 DEF WorkerOK, CreateOK, SaveOK, RenewOK, InsertOK,
       EmployeeOK, Creating, Saving, Renewing, Inserted, OnEmployee
<1>6. CASE \E e \in EmployeeId : updateEmployee(w, e) \/ archiveEmployee(w, e)
  <2>1. PICK e \in EmployeeId : updateEmployee(w, e) \/ archiveEmployee(w, e)
    BY <1>6
  <2>2. /\ pc'[w] \in {"updateEmployee_reload", "archiveEmployee_softRemove"}
        /\ ctx'[w] = [Blank EXCEPT !.emp = e]
    BY <2>1, GoToThere DEF updateEmployee, archiveEmployee
  <2>3. ctx'[w].emp = e
    BY <2>2 DEF Blank
  <2>4. QED
    BY <2>2, <2>3 DEF WorkerOK, CreateOK, SaveOK, RenewOK, InsertOK,
       EmployeeOK, Creating, Saving, Renewing, Inserted, OnEmployee
<1>7. QED
  BY <1>1, <1>2, <1>3, <1>4, <1>5, <1>6 DEF Request

(* What a statement hands to the next one.                                 *)
LEMMA StatementOK ==
  ASSUME IInv, [Next]_vars, NEW w \in Workers, Statement(w)
  PROVE  WorkerOK(w)'
<1> USE DEF IInv
<1>1. /\ WorkerOK(w)
      /\ ctx[w] \in Context
  BY DEF HandlerOK, WorkerOK, TypeOK
<1>2. CASE \/ create_insert(w) \/ update_write(w) \/ archive_softDelete(w)
           \/ renew_close(w) \/ renew_deadlock(w) \/ insert_fails(w)
           \/ updateEmployee_write(w) \/ archiveEmployee_cascade(w)
           \/ crash(w)
  BY <1>2, ReturnedOK DEF create_insert, update_write, archive_softDelete,
     renew_close, renew_deadlock, insert_fails, updateEmployee_write,
     archiveEmployee_cascade, crash
<1>3. CASE update_reload(w) \/ archive_reload(w) \/ archive_write(w)
  <2>1. Saving(w)
    BY <1>3 DEF update_reload, archive_reload, archive_write, Reload,
                WriteBack, Saving
  <2>2. Kept(ctx[w].id)
    BY <1>1, <2>1, ExistingKept DEF WorkerOK, SaveOK
  <2>3. /\ pc'[w] \in {"update_write", "archive_write", "archive_softDelete"}
        /\ ctx'[w].id = ctx[w].id
        /\ ctx'[w].row = ctx[w].row
    BY <1>1, <1>3, GoToThere DEF update_reload, archive_reload, archive_write,
                            Reload, Context
  <2>4. QED
    BY <1>1, <2>1, <2>2, <2>3 DEF WorkerOK, CreateOK, SaveOK, RenewOK,
       InsertOK, EmployeeOK, Creating, Saving, Renewing, Inserted, OnEmployee,
       Kept, Exists
<1>4. CASE renew_insert(w)
  <2>1. /\ pc'[w] = "renew_close"
        /\ ctx'[w].id = ctx[w].id
        /\ ctx'[w].row = ctx[w].row
        /\ ctx'[w].new = nextId
        /\ nextId' = nextId + 1
        /\ nextId \in RecordId
        /\ records' = records
    BY <1>1, <1>4, GoToThere DEF renew_insert, Context
  <2>2. RenewOK(w) /\ Renewing(w)
    BY <1>1, <1>4 DEF renew_insert, WorkerOK, Renewing
  <2>3. ~Exists(nextId) /\ ctx[w].id < nextId
    BY <2>1, <2>2 DEF IdsBelowCounter, RenewOK, RecordId
  <2>4. nextId < nextId'
    BY <2>1 DEF RecordId
  <2>5. RenewOK(w)' /\ InsertOK(w)'
    BY <2>1, <2>2, <2>3, <2>4 DEF RenewOK, InsertOK, Exists
  <2>6. QED
    BY <2>1, <2>5 DEF WorkerOK, CreateOK, SaveOK, EmployeeOK, Creating,
                      Saving, OnEmployee
<1>5. CASE \E s \in EvaluableStatus : bulk_apply(w, s)
  <2>1. pc'[w] \in {"idle", "bulk_apply"}
    BY <1>5, GoToThere DEF bulk_apply, Return
  <2>2. QED
    BY <2>1 DEF WorkerOK, CreateOK, SaveOK, RenewOK, InsertOK,
       EmployeeOK, Creating, Saving, Renewing, Inserted, OnEmployee
<1>6. CASE updateEmployee_reload(w) \/ archiveEmployee_softRemove(w)
  <2>1. /\ pc'[w] \in {"updateEmployee_write", "archiveEmployee_cascade"}
        /\ ctx'[w].emp = ctx[w].emp
        /\ OnEmployee(w)
    BY <1>1, <1>6, GoToThere DEF updateEmployee_reload, archiveEmployee_softRemove,
                            Context, OnEmployee
  <2>2. QED
    BY <1>1, <2>1 DEF WorkerOK, CreateOK, SaveOK, RenewOK, InsertOK,
       EmployeeOK, Creating, Saving, Renewing, Inserted, OnEmployee
<1>7. QED
  BY <1>2, <1>3, <1>4, <1>5, <1>6 DEF Statement

LEMMA HandlerNext ==
  ASSUME IInv, [Next]_vars
  PROVE  HandlerOK'
<1> SUFFICES ASSUME NEW v \in Workers
             PROVE  WorkerOK(v)'
  BY DEF HandlerOK, WorkerOK
<1>1. CASE \E w \in Workers : Request(w) \/ Statement(w)
  <2>1. PICK w \in Workers : Request(w) \/ Statement(w)
    BY <1>1
  <2>2. CASE v = w
    BY <2>1, <2>2, RequestOK, StatementOK
  <2>3. CASE v # w
    BY <2>1, <2>3, OthersStill, StillOK DEF IInv
  <2>4. QED
    BY <2>2, <2>3
<1>2. CASE (\E e \in EmployeeId : createEmployee(e)) \/ midnight
           \/ UNCHANGED vars
  BY <1>2, StillOK DEF createEmployee, midnight, vars, Still
<1>3. QED
  BY <1>1, <1>2 DEF Next

LEMMA RequestLabel ==
  ASSUME TypeOK, NEW w \in Workers, Request(w)
  PROVE  UNCHANGED <<pc, ctx>> \/ pc'[w] # "renew_close"
<1>1. CASE \E updates \in BulkRequest : bulkStatusUpdate(w, updates)
  <2>1. PICK updates \in BulkRequest : bulkStatusUpdate(w, updates)
    BY <1>1
  <2>2. (UNCHANGED <<pc, ctx>>) \/ \E locals : GoTo(w, "bulk_apply", locals)
    BY <2>1 DEF bulkStatusUpdate
  <2>3. QED
    BY <2>2, GoToThere
<1>2. CASE ~\E updates \in BulkRequest : bulkStatusUpdate(w, updates)
  <2>1. \E label \in Label \ {"renew_close"} : \E locals : GoTo(w, label, locals)
    BY <1>2 DEF Request, create, update, archive, renew, updateEmployee,
       archiveEmployee, Label
  <2>2. QED
    BY <2>1, GoToThere
<1>3. QED
  BY <1>1, <1>2

(* Only the INSERT of a renewal leads to the statement that closes one.    *)
LEMMA StatementLabel ==
  ASSUME TypeOK, NEW w \in Workers, Statement(w), ~renew_insert(w)
  PROVE  pc'[w] # "renew_close"
<1>1. CASE \E s \in EvaluableStatus : bulk_apply(w, s)
  <2>1. PICK s \in EvaluableStatus : bulk_apply(w, s)
    BY <1>1
  <2>2. pc'[w] \in {"idle", "bulk_apply"}
    BY <2>1, GoToThere DEF bulk_apply, Return
  <2>3. QED
    BY <2>2
<1>2. CASE \/ create_insert(w) \/ update_write(w) \/ archive_softDelete(w)
           \/ renew_close(w) \/ renew_deadlock(w) \/ insert_fails(w)
           \/ updateEmployee_write(w) \/ archiveEmployee_cascade(w)
           \/ crash(w)
  <2>1. Return(w)
    BY <1>2 DEF create_insert, update_write, archive_softDelete, renew_close,
       renew_deadlock, insert_fails, updateEmployee_write,
       archiveEmployee_cascade, crash
  <2>2. pc'[w] = "idle"
    BY <2>1, GoToThere DEF Return
  <2>3. QED
    BY <2>2
<1>3. CASE update_reload(w) \/ archive_reload(w) \/ archive_write(w)
  <2>1. pc'[w] \in {"update_write", "archive_write", "archive_softDelete"}
    BY <1>3, GoToThere DEF update_reload, archive_reload, archive_write, Reload
  <2>2. QED
    BY <2>1
<1>4. CASE updateEmployee_reload(w) \/ archiveEmployee_softRemove(w)
  <2>1. pc'[w] \in {"updateEmployee_write", "archiveEmployee_cascade"}
    BY <1>4, GoToThere DEF updateEmployee_reload, archiveEmployee_softRemove
  <2>2. QED
    BY <2>1
<1>5. QED
  BY <1>1, <1>2, <1>3, <1>4 DEF Statement

(* A renewal gets its id from the counter, which is past every id that was *)
(* given before.                                                           *)
LEMMA InsertedNext ==
  ASSUME IInv, [Next]_vars, NEW w \in Workers, Inserted(w)'
  PROVE  \/ Inserted(w) /\ ctx'[w].new = ctx[w].new
         \/ /\ ctx'[w].new = nextId
            /\ \A v \in Workers : v # w => Still(v)
<1> USE DEF IInv
<1>1. CASE Still(w)
  BY <1>1 DEF Still, Inserted
<1>2. CASE ~Still(w)
  <2>1. PICK v \in Workers : Request(v) \/ Statement(v)
    BY <1>2 DEF Next, createEmployee, midnight, vars, Still
  <2>2. v = w
    BY <1>2, <2>1, OthersStill
  <2>3. pc'[w] = "renew_close"
    BY DEF Inserted
  <2>4. ~Request(w)
    BY <1>2, <2>3, RequestLabel DEF Still
  <2>5. renew_insert(w)
    BY <2>1, <2>2, <2>3, <2>4, StatementLabel
  <2>6. ctx'[w].new = nextId
    <3>1. ctx[w] \in Context
      BY DEF TypeOK
    <3>2. QED
      BY <2>5, <3>1, GoToThere DEF renew_insert, Context
  <2>7. QED
    BY <2>1, <2>2, <2>6, OthersStill
<1>3. QED
  BY <1>1, <1>2

LEMMA NewIdsNext ==
  ASSUME IInv, [Next]_vars
  PROVE  NewIdsDiffer'
<1> SUFFICES ASSUME NEW v \in Workers, NEW w \in Workers, v # w,
                    Inserted(v)', Inserted(w)'
             PROVE  ctx'[v].new # ctx'[w].new
  BY DEF NewIdsDiffer
<1>1. \A u \in Workers : Inserted(u) => ctx[u].new # nextId
  BY ConstantsOK DEF IInv, HandlerOK, InsertOK, TypeOK, RecordId
<1>2. CASE Inserted(v) /\ ctx'[v].new = ctx[v].new
  BY <1>1, <1>2, InsertedNext DEF IInv, NewIdsDiffer
<1>3. CASE ctx'[v].new = nextId /\ \A u \in Workers : u # v => Still(u)
  BY <1>1, <1>3 DEF Still, Inserted
<1>4. QED
  BY <1>2, <1>3, InsertedNext

-----------------------------------------------------------------------------
(* The inductive invariant.                                                *)

LEMMA InitIInv ==
  ASSUME Init
  PROVE  IInv
<1>1. TypeOK
  BY BlankContext, ConstantsOK DEF Init, TypeOK, Label
<1>2. \A id \in RecordId : ~Exists(id)
  BY DEF Init, Exists
<1>3. IdsBelowCounter /\ RenewalLinks /\ RenewedHasSuccessor
  BY <1>2 DEF IdsBelowCounter, RenewalLinks, RenewedHasSuccessor
<1>4. \A w \in Workers : pc[w] = "idle"
  BY DEF Init
<1>5. HandlerOK /\ NewIdsDiffer
  BY <1>4 DEF HandlerOK, NewIdsDiffer, CreateOK, SaveOK, RenewOK, InsertOK,
     EmployeeOK, Creating, Saving, Renewing, Inserted, OnEmployee
<1>6. QED
  BY <1>1, <1>3, <1>5 DEF IInv

LEMMA NextIInv ==
  ASSUME IInv, [Next]_vars
  PROVE  IInv'
BY TypeNext, IdsNext, HandlerNext, NewIdsNext, LinksNext, SuccessorNext
   DEF IInv

(* What the handlers rely on between their statements holds throughout.    *)
THEOREM Invariance == Spec => []IInv
<1>1. Init => IInv
  BY InitIInv
<1>2. IInv /\ [Next]_vars => IInv'
  BY NextIInv
<1>3. QED
  BY <1>1, <1>2, PTL DEF Spec

(* Every variable keeps its type, and no handler ever runs with a context  *)
(* that is not one.                                                        *)
THEOREM TypeCorrect == Spec => []TypeOK
<1>1. IInv => TypeOK
  BY DEF IInv
<1>2. QED
  BY <1>1, Invariance, PTL

(* The renewal history is a forest of records of one employee and one      *)
(* type, whichever of the handlers run at the same time.                   *)
THEOREM RenewalHistory == Spec => []RenewalLinks
<1>1. IInv => RenewalLinks
  BY DEF IInv
<1>2. QED
  BY <1>1, Invariance, PTL

(* A renewal happens whole or not at all: no record is marked renewed      *)
(* without one that replaces it.                                           *)
THEOREM RenewalAtomic == Spec => []RenewedHasSuccessor
<1>1. IInv => RenewedHasSuccessor
  BY DEF IInv
<1>2. QED
  BY <1>1, Invariance, PTL

(* No row is ever lost, and none ever changes its employee, its type or    *)
(* the record it renews.                                                   *)
THEOREM AuditTrail == Spec => HistoryKept
<1>1. IInv /\ [Next]_vars =>
        [\A id \in RecordId : Exists(id) =>
           /\ records'[id] # None
           /\ records'[id].emp = records[id].emp
           /\ records'[id].type = records[id].type
           /\ records'[id].from = records[id].from]_vars
  BY ExistingKept DEF Kept
<1>2. QED
  BY <1>1, Invariance, PTL DEF Spec, HistoryKept
-----------------------------------------------------------------------------
(* Closed for good, when clients keep to the endpoints that write with a   *)
(* guard or in a transaction.                                              *)

StaleWriters == {"update", "archive", "updateEmployee"}

StaleWriting(w) == Saving(w) \/ pc[w] \in {"updateEmployee_reload",
                                           "updateEmployee_write"}

NoStaleWrite == \A w \in Workers : ~StaleWriting(w)

ClosedRecordsKept ==
  \A id \in RecordId : ClosedRecord(records[id]) => ClosedRecord(records'[id])

ClosedEmployeesKept ==
  \A e \in EmployeeId : employees[e] = "archived" => employees'[e] = "archived"

(* A handler of the other endpoints never reaches a statement that saves a *)
(* loaded entity.                                                          *)
LEMMA NoStaleWriteNext ==
  ASSUME Ops \cap StaleWriters = {}, TypeOK, NoStaleWrite, [Next]_vars
  PROVE  NoStaleWrite'
<1> DEFINE Safe == Label \ {"update_reload", "update_write", "archive_reload",
                            "archive_write", "archive_softDelete",
                            "updateEmployee_reload", "updateEmployee_write"}
<1>1. \A w \in Workers : pc[w] \in Safe
  BY DEF NoStaleWrite, StaleWriting, Saving, TypeOK
<1>2. SUFFICES \A w \in Workers : pc'[w] \in Safe
  BY DEF NoStaleWrite, StaleWriting, Saving
<1>3. ASSUME NEW w \in Workers, NEW label \in Safe, NEW locals,
             GoTo(w, label, locals)
      PROVE  \A v \in Workers : pc'[v] \in Safe
  BY <1>1, <1>3 DEF GoTo, TypeOK
<1>4. CASE pc' = pc
  BY <1>1, <1>4
<1>5. CASE \E w \in Workers : Request(w)
  <2>1. PICK w \in Workers : Request(w)
    BY <1>5
  <2>2. ~("update" \in Ops) /\ ~("archive" \in Ops) /\ ~("updateEmployee" \in Ops)
    BY DEF StaleWriters
  <2>3. CASE \E updates \in BulkRequest : bulkStatusUpdate(w, updates)
    <3>1. PICK updates \in BulkRequest : bulkStatusUpdate(w, updates)
      BY <2>3
    <3>2. pc' = pc \/ \E locals : GoTo(w, "bulk_apply", locals)
      BY <3>1 DEF bulkStatusUpdate
    <3>3. "bulk_apply" \in Safe
      BY DEF Label
    <3>4. QED
      BY <1>3, <1>4, <3>2, <3>3
  <2>4. CASE ~\E updates \in BulkRequest : bulkStatusUpdate(w, updates)
    <3>1. \E label \in Safe : \E locals : GoTo(w, label, locals)
      BY <2>1, <2>2, <2>4 DEF Request, create, update, archive, renew,
         updateEmployee, archiveEmployee, Label
    <3>2. QED
      BY <1>3, <3>1
  <2>5. QED
    BY <2>3, <2>4
<1>6. CASE \E w \in Workers : Statement(w)
  <2>1. PICK w \in Workers : Statement(w)
    BY <1>6
  <2>2. pc[w] \in Safe
    BY <1>1
  <2>3. CASE \E s \in EvaluableStatus : bulk_apply(w, s)
    <3>1. \E locals : GoTo(w, "idle", locals) \/ GoTo(w, "bulk_apply", locals)
      BY <2>3 DEF bulk_apply, Return
    <3>2. "idle" \in Safe /\ "bulk_apply" \in Safe
      BY DEF Label
    <3>3. QED
      BY <1>3, <3>1, <3>2
  <2>4. CASE \/ create_insert(w) \/ renew_close(w) \/ renew_deadlock(w)
             \/ insert_fails(w) \/ archiveEmployee_cascade(w) \/ crash(w)
    <3>1. GoTo(w, "idle", Blank)
      BY <2>4 DEF create_insert, renew_close, renew_deadlock, insert_fails,
         archiveEmployee_cascade, crash, Return
    <3>2. "idle" \in Safe
      BY DEF Label
    <3>3. QED
      BY <1>3, <3>1, <3>2
  <2>5. CASE renew_insert(w) \/ archiveEmployee_softRemove(w)
    <3>1. \E label \in {"renew_close", "archiveEmployee_cascade"} : \E locals :
            GoTo(w, label, locals)
      BY <2>5 DEF renew_insert, archiveEmployee_softRemove
    <3>2. {"renew_close", "archiveEmployee_cascade"} \subseteq Safe
      BY DEF Label
    <3>3. QED
      BY <1>3, <3>1, <3>2
  <2>6. QED
    BY <2>1, <2>2, <2>3, <2>4, <2>5 DEF Statement, update_reload, update_write,
       archive_reload, archive_write, archive_softDelete, Reload, WriteBack,
       updateEmployee_reload, updateEmployee_write
<1>7. QED
  BY <1>4, <1>5, <1>6 DEF Next, createEmployee, midnight, vars

(* Bulk updates, renewals and cascades leave a closed record closed.       *)
LEMMA ClosedRowKept ==
  ASSUME NEW r \in Row, ClosedRecord(r)
  PROVE  /\ ClosedRecord(Superseded(r))
         /\ \A s \in EvaluableStatus : BulkSet(r, s) = r
         /\ \A e \in EmployeeId : Cascaded(r, e) = r
<1>1. Superseded(r) \in Row
  BY RowKept
<1>2. ClosedRecord(Superseded(r))
  BY <1>1, ConstantsOK DEF ClosedRecord, Superseded, SoftDeleted, Row,
     TerminalStatus
<1>3. QED
  BY <1>2 DEF ClosedRecord, BulkSet, Updatable, Cascaded

LEMMA ClosedRecordsNext ==
  ASSUME IInv, NoStaleWrite, [Next]_vars
  PROVE  ClosedRecordsKept
<1> SUFFICES ASSUME NEW id \in RecordId, ClosedRecord(records[id])
             PROVE  ClosedRecord(records'[id])
  BY DEF ClosedRecordsKept
<1>1. records[id] \in Row /\ Exists(id)
  BY DEF ClosedRecord, Exists, IInv, TypeOK
<1>2. CASE records'[id] = records[id]
  BY <1>2
<1>3. CASE \E w \in Workers : Request(w)
  BY <1>2, <1>3, RequestReads
<1>4. CASE \E w \in Workers : Statement(w)
  <2>1. PICK w \in Workers : Statement(w)
    BY <1>4
  <2>2. CASE create_insert(w)
    <3>1. id # nextId
      BY <1>1 DEF IInv, IdsBelowCounter, RecordId
    <3>2. QED
      BY <1>2, <2>2, <3>1 DEF create_insert, IInv, TypeOK
  <2>3. CASE renew_close(w)
    <3>1. ctx[w].new # id
      BY <1>1, <2>3 DEF renew_close, IInv, HandlerOK, InsertOK, Inserted
    <3>2. CASE ctx[w].id = id
      <4>1. records'[id] = Superseded(records[id])
        BY <2>3, <3>1, <3>2 DEF renew_close, IInv, TypeOK
      <4>2. QED
        BY <1>1, <4>1, ClosedRowKept
    <3>3. CASE ctx[w].id # id
      BY <1>2, <2>3, <3>1, <3>3 DEF renew_close, IInv, TypeOK
    <3>4. QED
      BY <3>2, <3>3
  <2>4. CASE \E s \in EvaluableStatus : bulk_apply(w, s)
    BY <1>1, <1>2, <2>4, ClosedRowKept DEF bulk_apply
  <2>5. CASE archiveEmployee_cascade(w)
    <3>1. ctx[w].emp \in EmployeeId
      BY <2>5 DEF archiveEmployee_cascade, IInv, HandlerOK, EmployeeOK,
         OnEmployee
    <3>2. QED
      BY <1>1, <1>2, <2>5, <3>1, ClosedRowKept DEF archiveEmployee_cascade
  <2>6. CASE \/ update_write(w) \/ archive_write(w) \/ archive_softDelete(w)
    BY <2>6 DEF NoStaleWrite, StaleWriting, Saving, update_write,
       archive_write, archive_softDelete, WriteBack
  <2>7. CASE OffRecords(w)
    BY <1>2, <2>7, OffRecordsKeeps
  <2>8. QED
    BY <2>1, <2>2, <2>3, <2>4, <2>5, <2>6, <2>7 DEF Statement, OffRecords
<1>5. CASE (\E e \in EmployeeId : createEmployee(e)) \/ midnight
           \/ UNCHANGED vars
  BY <1>2, <1>5 DEF createEmployee, midnight, vars
<1>6. QED
  BY <1>3, <1>4, <1>5 DEF Next

LEMMA ClosedEmployeesNext ==
  ASSUME IInv, NoStaleWrite, [Next]_vars
  PROVE  ClosedEmployeesKept
<1> SUFFICES ASSUME NEW e \in EmployeeId, employees[e] = "archived"
             PROVE  employees'[e] = "archived"
  BY DEF ClosedEmployeesKept
<1>1. CASE employees' = employees
  BY <1>1
<1>2. CASE \E w \in Workers : Request(w)
  BY <1>1, <1>2, RequestReads
<1>3. CASE \E w \in Workers : Statement(w)
  <2>1. PICK w \in Workers : Statement(w)
    BY <1>3
  <2>2. CASE archiveEmployee_cascade(w)
    BY <2>2 DEF archiveEmployee_cascade, IInv, TypeOK
  <2>3. CASE updateEmployee_write(w)
    BY <2>3 DEF NoStaleWrite, StaleWriting, updateEmployee_write
  <2>4. CASE \/ create_insert(w) \/ update_reload(w) \/ update_write(w)
             \/ archive_reload(w) \/ archive_write(w) \/ archive_softDelete(w)
    BY <1>1, <2>4 DEF create_insert, update_reload, update_write,
       archive_reload, archive_write, archive_softDelete, Reload, WriteBack
  <2>5. CASE \/ renew_insert(w) \/ renew_close(w) \/ renew_deadlock(w)
             \/ insert_fails(w) \/ crash(w)
             \/ \E s \in EvaluableStatus : bulk_apply(w, s)
             \/ updateEmployee_reload(w) \/ archiveEmployee_softRemove(w)
    BY <1>1, <2>5 DEF renew_insert, renew_close, renew_deadlock,
       insert_fails, bulk_apply, crash, updateEmployee_reload,
       archiveEmployee_softRemove
  <2>6. QED
    BY <2>1, <2>2, <2>3, <2>4, <2>5 DEF Statement
<1>4. CASE \E f \in EmployeeId : createEmployee(f)
  BY <1>4 DEF createEmployee, IInv, TypeOK
<1>5. CASE midnight \/ UNCHANGED vars
  BY <1>1, <1>5 DEF midnight, vars
<1>6. QED
  BY <1>2, <1>3, <1>4, <1>5 DEF Next

(* As long as nobody calls the endpoints that save a loaded entity, what   *)
(* is renewed, archived or offboarded is never brought back, however bulk  *)
(* updates, renewals, creations and employee archives interleave.          *)
THEOREM GuardedClosed ==
  ASSUME Ops \cap StaleWriters = {}
  PROVE  Spec => ClosedForGood
<1>1. Init => NoStaleWrite
  BY DEF Init, NoStaleWrite, StaleWriting, Saving
<1>2. IInv /\ NoStaleWrite /\ [Next]_vars => NoStaleWrite'
  BY NoStaleWriteNext DEF IInv
<1>3. IInv /\ NoStaleWrite /\ [Next]_vars =>
        [/\ \A id \in RecordId :
              ClosedRecord(records[id]) => ClosedRecord(records'[id])
         /\ \A e \in EmployeeId :
              employees[e] = "archived" => employees'[e] = "archived"]_vars
  BY ClosedRecordsNext, ClosedEmployeesNext
     DEF ClosedRecordsKept, ClosedEmployeesKept
<1>4. QED
  BY <1>1, <1>2, <1>3, Invariance, PTL DEF Spec, ClosedForGood
=============================================================================
