----------------------- MODULE ComplianceGuardedProofs ----------------------
(***************************************************************************)
(* Which endpoint takes what away.  Two concurrent requests are enough to  *)
(* lose DatesOrdered (api_dates) and DeletedMatchesStatus.  Here requests  *)
(* interleave as they like, and both are proved for clients that do not    *)
(* call the endpoints that are to blame: PATCH of a record for the one,    *)
(* PATCH and DELETE, which save() a loaded record, for the other.          *)
(* ArchivedIsDeleted (api_half_archived) is proved for clients that do not *)
(* PATCH and requests that do not die.                                     *)
(*                                                                         *)
(* A row that is about to be inserted is Fresh in any case.  Without PATCH *)
(* no step changes the dates of a row that exists, so the entity an        *)
(* archive saves, however old, has the dates of its row (DatesAgree).      *)
(***************************************************************************)
EXTENDS ComplianceApiProofs

(* A row for a new record, as create and renew build it.                   *)
Fresh(r) ==
  /\ r.issued < r.expiry
  /\ ~r.deleted
  /\ r.status \in EvaluableStatus

SameDates(r, s) == r.issued = s.issued /\ r.expiry = s.expiry

Inserting(w) == Creating(w) \/ Renewing(w)
Patching(w)  == pc[w] \in {"update_reload", "update_write"}
Deleting(w)  == pc[w] \in {"archive_reload", "archive_write",
                           "archive_softDelete"}

FreshOK    == \A w \in Workers : Inserting(w) => Fresh(ctx[w].row)
NoPatch    == \A w \in Workers : ~Patching(w)
NoSave     == \A w \in Workers : ~Saving(w)
DatesAgree == \A w \in Workers :
  Deleting(w) => SameDates(ctx[w].row, records[ctx[w].id])

DatesInv   == IInv /\ FreshOK /\ NoPatch /\ DatesAgree /\ DatesOrdered
DeletedInv == IInv /\ FreshOK /\ NoSave /\ DeletedMatchesStatus
ArchivedInv == IInv /\ FreshOK /\ NoPatch /\ ArchivedIsDeleted

-----------------------------------------------------------------------------
(* Where a worker stands after a step, and with which row.                 *)

LEMMA FreshStatus ==
  ASSUME TypeOK, NEW expiry \in Nat
  PROVE  computeStatus(expiry) \in EvaluableStatus
BY StatusRule DEF computeStatus

LEMMA RequestLands ==
  ASSUME TypeOK, NEW w \in Workers, Request(w)
  PROVE  \/ Still(w)
         \/ pc'[w] \in {"bulk_apply", "updateEmployee_reload",
                        "archiveEmployee_softRemove"}
         \/ "update" \in Ops /\ pc'[w] = "update_reload"
         \/ pc'[w] \in {"create_insert", "renew_insert"} /\ Fresh(ctx'[w].row)
         \/ /\ "archive" \in Ops /\ pc'[w] = "archive_reload"
            /\ SameDates(ctx'[w].row, records'[ctx'[w].id])
<1>1. CASE \E e \in EmployeeId, t \in Type, i \in IssuedDates,
              x \in ExpiryDates : create(w, e, t, i, x)
  <2>1. PICK e \in EmployeeId, t \in Type, i \in IssuedDates,
             x \in ExpiryDates : create(w, e, t, i, x)
    BY <1>1
  <2> DEFINE row == [emp |-> e, type |-> t, issued |-> i, expiry |-> x,
                     status |-> computeStatus(x), deleted |-> FALSE,
                     from |-> NoId]
  <2>2. GoTo(w, "create_insert", [Blank EXCEPT !.row = row]) /\ x > i
    BY <2>1 DEF create, ExpiryAfterIssued
  <2>3. Fresh(row)
    BY <2>2, FreshStatus, ConstantsOK DEF Fresh
  <2> HIDE DEF row
  <2>4. pc'[w] = "create_insert" /\ ctx'[w] = [Blank EXCEPT !.row = row]
    BY <2>2, GoToThere
  <2>5. QED
    BY <2>3, <2>4 DEF Blank
<1>2. CASE \E id \in RecordId, i \in IssuedDates \union {Undefined},
              x \in ExpiryDates \union {Undefined} : update(w, id, i, x)
  <2>1. "update" \in Ops /\ \E locals : GoTo(w, "update_reload", locals)
    BY <1>2 DEF update
  <2>2. QED
    BY <2>1, GoToThere
<1>3. CASE \E id \in RecordId : archive(w, id)
  <2>1. PICK id \in RecordId : archive(w, id)
    BY <1>3
  <2> DEFINE row == [records[id] EXCEPT !.status = "archived"]
  <2>2. /\ GoTo(w, "archive_reload", [Blank EXCEPT !.id = id, !.row = row])
        /\ "archive" \in Ops /\ Exists(id) /\ records' = records
    BY <2>1 DEF archive
  <2>3. SameDates(row, records'[id])
    BY <2>2 DEF SameDates, TypeOK, Exists, Row
  <2> HIDE DEF row
  <2>4. /\ pc'[w] = "archive_reload"
        /\ ctx'[w] = [Blank EXCEPT !.id = id, !.row = row]
    BY <2>2, GoToThere
  <2>5. ctx'[w].id = id /\ ctx'[w].row = row
    BY <2>4 DEF Blank
  <2>6. QED
    BY <2>2, <2>3, <2>4, <2>5
<1>4. CASE \E id \in RecordId, i \in IssuedDates, x \in ExpiryDates :
              renew(w, id, i, x)
  <2>1. PICK id \in RecordId, i \in IssuedDates, x \in ExpiryDates :
          renew(w, id, i, x)
    BY <1>4
  <2> DEFINE row == Successor(records[id], id, i, x)
  <2>2. GoTo(w, "renew_insert", [Blank EXCEPT !.id = id, !.row = row]) /\ x > i
    BY <2>1 DEF renew, ExpiryAfterIssued
  <2>3. Fresh(row)
    BY <2>2, FreshStatus, ConstantsOK DEF Fresh, Successor
  <2> HIDE DEF row
  <2>4. /\ pc'[w] = "renew_insert"
        /\ ctx'[w] = [Blank EXCEPT !.id = id, !.row = row]
    BY <2>2, GoToThere
  <2>5. QED
    BY <2>3, <2>4 DEF Blank
<1>5. CASE \E updates \in BulkRequest : bulkStatusUpdate(w, updates)
  <2>1. UNCHANGED <<pc, ctx>> \/ \E locals : GoTo(w, "bulk_apply", locals)
    BY <1>5 DEF bulkStatusUpdate
  <2>2. QED
    BY <2>1, GoToThere DEF Still
<1>6. CASE \E e \in EmployeeId : updateEmployee(w, e) \/ archiveEmployee(w, e)
  <2>1. \E label \in {"updateEmployee_reload", "archiveEmployee_softRemove"} :
          \E locals : GoTo(w, label, locals)
    BY <1>6 DEF updateEmployee, archiveEmployee
  <2>2. QED
    BY <2>1, GoToThere
<1>7. QED
  BY <1>1, <1>2, <1>3, <1>4, <1>5, <1>6 DEF Request

LEMMA StatementLands ==
  ASSUME TypeOK, NEW w \in Workers, Statement(w)
  PROVE  \/ pc'[w] \in {"idle", "bulk_apply", "updateEmployee_write",
                        "archiveEmployee_cascade"}
         \/ Patching(w) /\ pc'[w] = "update_write"
         \/ /\ \/ Deleting(w) /\ pc'[w] \in {"archive_write",
                                             "archive_softDelete"}
               \/ Renewing(w) /\ pc'[w] = "renew_close"
            /\ ctx'[w].id = ctx[w].id /\ ctx'[w].row = ctx[w].row
<1>1. CASE \/ create_insert(w) \/ update_write(w) \/ archive_softDelete(w)
           \/ renew_close(w) \/ renew_deadlock(w) \/ insert_fails(w)
           \/ updateEmployee_write(w) \/ archiveEmployee_cascade(w)
           \/ crash(w)
  <2>1. Return(w)
    BY <1>1 DEF create_insert, update_write, archive_softDelete, renew_close,
       renew_deadlock, insert_fails, updateEmployee_write,
       archiveEmployee_cascade, crash
  <2>2. QED
    BY <2>1, GoToThere DEF Return
<1>2. CASE \E s \in EvaluableStatus : bulk_apply(w, s)
  <2>1. \E label \in {"idle", "bulk_apply"} : \E locals :
          GoTo(w, label, locals)
    BY <1>2 DEF bulk_apply, Return
  <2>2. QED
    BY <2>1, GoToThere
<1>3. CASE update_reload(w)
  <2>1. Patching(w) /\ \E locals : GoTo(w, "update_write", locals)
    BY <1>3 DEF update_reload, Reload, Patching
  <2>2. QED
    BY <2>1, GoToThere
<1>4. CASE archive_reload(w) \/ archive_write(w)
  <2>1. /\ Deleting(w)
        /\ \E label \in {"archive_write", "archive_softDelete"},
              cols \in SUBSET Column :
             \/ GoTo(w, label, ctx[w])
             \/ GoTo(w, label, [ctx[w] EXCEPT !.cols = cols])
    BY <1>4 DEF archive_reload, archive_write, Reload, WriteBack, Deleting,
                ChangedColumns
  <2>2. ctx[w] \in Context
    BY DEF TypeOK
  <2>3. QED
    BY <2>1, <2>2, GoToThere DEF Context
<1>5. CASE renew_insert(w)
  <2>1. Renewing(w) /\ GoTo(w, "renew_close", [ctx[w] EXCEPT !.new = nextId])
    BY <1>5 DEF renew_insert, Renewing
  <2>2. ctx[w] \in Context
    BY DEF TypeOK
  <2>3. QED
    BY <2>1, <2>2, GoToThere DEF Context
<1>6. CASE updateEmployee_reload(w) \/ archiveEmployee_softRemove(w)
  <2>1. \E label \in {"updateEmployee_write", "archiveEmployee_cascade"} :
          \E locals : GoTo(w, label, locals)
    BY <1>6 DEF updateEmployee_reload, archiveEmployee_softRemove
  <2>2. QED
    BY <2>1, GoToThere
<1>7. QED
  BY <1>1, <1>2, <1>3, <1>4, <1>5, <1>6 DEF Statement

(* A step is one worker's, or nobody's.                                    *)
LEMMA OneMoves ==
  ASSUME TypeOK, [Next]_vars, NEW v \in Workers
  PROVE  Request(v) \/ Statement(v) \/ Still(v)
BY OthersStill DEF Next, createEmployee, midnight, vars, Still

LEMMA FreshNext ==
  ASSUME TypeOK, FreshOK, [Next]_vars
  PROVE  FreshOK'
<1> SUFFICES ASSUME NEW v \in Workers, Inserting(v)'
             PROVE  Fresh(ctx'[v].row)
  BY DEF FreshOK, Fresh
<1>1. pc'[v] \in {"create_insert", "renew_insert", "renew_close"}
  BY DEF Inserting, Creating, Renewing
<1>2. CASE Still(v)
  BY <1>1, <1>2 DEF FreshOK, Inserting, Creating, Renewing, Still
<1>3. CASE Request(v) /\ ~Still(v)
  BY <1>1, <1>3, RequestLands
<1>4. CASE Statement(v)
  BY <1>1, <1>4, StatementLands DEF FreshOK, Inserting
<1>5. QED
  BY <1>2, <1>3, <1>4, OneMoves

LEMMA NoPatchNext ==
  ASSUME "update" \notin Ops, TypeOK, NoPatch, [Next]_vars
  PROVE  NoPatch'
<1> SUFFICES ASSUME NEW v \in Workers, Patching(v)'
             PROVE  FALSE
  BY DEF NoPatch
<1>1. pc'[v] \in {"update_reload", "update_write"} /\ ~Patching(v)
  BY DEF Patching, NoPatch
<1>2. ~Still(v)
  BY <1>1 DEF Still, Patching
<1>3. QED
  BY <1>1, <1>2, OneMoves, RequestLands, StatementLands

LEMMA NoSaveNext ==
  ASSUME "update" \notin Ops, "archive" \notin Ops, TypeOK, NoSave,
         [Next]_vars
  PROVE  NoSave'
<1> SUFFICES ASSUME NEW v \in Workers, Saving(v)'
             PROVE  FALSE
  BY DEF NoSave
<1>1. /\ pc'[v] \in {"update_reload", "update_write", "archive_reload",
                     "archive_write", "archive_softDelete"}
      /\ ~Saving(v)
  BY DEF Saving, NoSave
<1>2. ~Still(v) /\ ~Patching(v) /\ ~Deleting(v)
  BY <1>1 DEF Still, Saving, Patching, Deleting
<1>3. QED
  BY <1>1, <1>2, OneMoves, RequestLands, StatementLands
-----------------------------------------------------------------------------
(* What a step may do to one row of the table.                             *)

Untouched(id) == records'[id] = records[id]

Added(id) == ~Exists(id) /\ records'[id] \in Row /\ Fresh(records'[id])

(* By a renewal, a bulk update or the archive of the employee.             *)
Closing(id) == Exists(id) /\
  \/ records'[id] = Superseded(records[id])
  \/ \E s \in EvaluableStatus : records'[id] = BulkSet(records[id], s)
  \/ \E e \in EmployeeId : records'[id] = Cascaded(records[id], e)

(* The first save of a DELETE of this record is made, the second is not.   *)
HalfArchiving(w, id) == pc[w] = "archive_softDelete" /\ ctx[w].id = id

(* By a handler that saves the entity it loaded; a DELETE then has its     *)
(* second save to make.                                                    *)
SavedBy(w, id) ==
  /\ Saving(w)
  /\ ctx[w].id = id
  /\ \/ Deleting(w) /\ records'[id] = SoftDeleted(records[id])
     \/ /\ Patching(w) \/ HalfArchiving(w, id)'
        /\ records'[id] = WriteColumns(records[id], ctx[w].row, ctx[w].cols)

RowFate(id) ==
  \/ Untouched(id)
  \/ Added(id)
  \/ Closing(id)
  \/ \E w \in Workers : SavedBy(w, id)

LEMMA CreateFate ==
  ASSUME IInv, FreshOK, NEW w \in Workers, create_insert(w),
         NEW id \in RecordId
  PROVE  RowFate(id)
<1>1. ctx[w].row \in Row /\ Fresh(ctx[w].row)
  BY DEF create_insert, IInv, HandlerOK, CreateOK, Creating, FreshOK, Inserting
<1>2. CASE id = nextId
  <2>1. ~Exists(id)
    BY <1>2 DEF IInv, IdsBelowCounter, RecordId
  <2>2. records'[id] = ctx[w].row
    BY <1>2 DEF create_insert, IInv, TypeOK
  <2>3. QED
    BY <1>1, <2>1, <2>2 DEF RowFate, Added
<1>3. CASE id # nextId
  BY <1>3 DEF create_insert, IInv, TypeOK, RowFate, Untouched
<1>4. QED
  BY <1>2, <1>3

LEMMA RenewFate ==
  ASSUME IInv, FreshOK, NEW w \in Workers, renew_close(w), NEW id \in RecordId
  PROVE  RowFate(id)
<1> DEFINE old == ctx[w].id
           new == ctx[w].new
<1>1. /\ old \in RecordId /\ new \in RecordId /\ old # new
      /\ Exists(old) /\ ~Exists(new)
      /\ ctx[w].row \in Row
  BY DEF renew_close, IInv, HandlerOK, RenewOK, InsertOK, Renewing, Inserted,
         RecordId
<1>2. Fresh(ctx[w].row)
  BY DEF renew_close, FreshOK, Inserting, Renewing
<1>3. /\ records'[new] = ctx[w].row
      /\ records'[old] = Superseded(records[old])
      /\ id \notin {old, new} => records'[id] = records[id]
  BY <1>1 DEF renew_close, IInv, TypeOK
<1>4. QED
  BY <1>1, <1>2, <1>3 DEF RowFate, Added, Closing, Untouched

LEMMA SaveFate ==
  ASSUME IInv, NEW w \in Workers,
         update_write(w) \/ archive_write(w) \/ archive_softDelete(w),
         NEW id \in RecordId
  PROVE  RowFate(id)
<1>1. Saving(w)
  BY DEF update_write, archive_write, archive_softDelete, WriteBack, Saving
<1>2. CASE id # ctx[w].id
  BY <1>2 DEF update_write, archive_write, archive_softDelete, WriteBack,
     IInv, TypeOK, RowFate, Untouched
<1>3. CASE id = ctx[w].id /\ archive_softDelete(w)
  <2>1. records'[id] = SoftDeleted(records[id]) /\ Deleting(w)
    BY <1>3 DEF archive_softDelete, IInv, TypeOK, Deleting
  <2>2. QED
    BY <1>1, <1>3, <2>1 DEF RowFate, SavedBy
<1>4. CASE id = ctx[w].id /\ (update_write(w) \/ archive_write(w))
  <2>1. records'[id] = WriteColumns(records[id], ctx[w].row, ctx[w].cols)
    BY <1>4 DEF update_write, archive_write, WriteBack, IInv, TypeOK
  <2>2. CASE update_write(w)
    BY <1>1, <1>4, <2>1, <2>2
       DEF update_write, WriteBack, Patching, RowFate, SavedBy
  <2>3. CASE archive_write(w)
    <3>1. pc'[w] = "archive_softDelete" /\ ctx'[w] = ctx[w]
      BY <2>3, GoToThere DEF archive_write, IInv
    <3>2. QED
      BY <1>1, <1>4, <2>1, <3>1 DEF HalfArchiving, RowFate, SavedBy
  <2>4. QED
    BY <1>4, <2>2, <2>3
<1>5. QED
  BY <1>2, <1>3, <1>4

LEMMA BulkFate ==
  ASSUME NEW w \in Workers, NEW s \in EvaluableStatus, bulk_apply(w, s),
         NEW id \in RecordId
  PROVE  RowFate(id)
<1>1. Untouched(id) \/ records'[id] = BulkSet(records[id], s)
  BY DEF bulk_apply, Untouched
<1>2. CASE ~Exists(id)
  BY <1>1, <1>2 DEF Exists, BulkSet, Updatable, Untouched, RowFate
<1>3. QED
  BY <1>1, <1>2 DEF RowFate, Closing

LEMMA CascadeFate ==
  ASSUME IInv, NEW w \in Workers, archiveEmployee_cascade(w),
         NEW id \in RecordId
  PROVE  RowFate(id)
<1>1. ctx[w].emp \in EmployeeId
  BY DEF archiveEmployee_cascade, IInv, HandlerOK, EmployeeOK, OnEmployee
<1>2. records'[id] = Cascaded(records[id], ctx[w].emp)
  BY DEF archiveEmployee_cascade
<1>3. CASE ~Exists(id)
  BY <1>2, <1>3 DEF Exists, Cascaded, Untouched, RowFate
<1>4. QED
  BY <1>1, <1>2, <1>3 DEF RowFate, Closing

LEMMA FateNext ==
  ASSUME IInv, FreshOK, [Next]_vars, NEW id \in RecordId
  PROVE  RowFate(id)
<1>1. CASE records' = records
  BY <1>1 DEF RowFate, Untouched
<1>2. CASE \E w \in Workers : Request(w)
  BY <1>1, <1>2, RequestReads
<1>3. CASE \E w \in Workers : Statement(w)
  <2>1. PICK w \in Workers : Statement(w)
    BY <1>3
  <2>2. CASE create_insert(w) \/ renew_close(w)
    BY <2>2, CreateFate, RenewFate
  <2>3. CASE update_write(w) \/ archive_write(w) \/ archive_softDelete(w)
    BY <2>3, SaveFate
  <2>4. CASE \/ archiveEmployee_cascade(w)
             \/ \E s \in EvaluableStatus : bulk_apply(w, s)
    BY <2>4, CascadeFate, BulkFate
  <2>5. CASE OffRecords(w)
    BY <1>1, <2>5, OffRecordsKeeps
  <2>6. QED
    BY <2>1, <2>2, <2>3, <2>4, <2>5 DEF Statement, OffRecords
<1>4. CASE (\E e \in EmployeeId : createEmployee(e)) \/ midnight
           \/ UNCHANGED vars
  BY <1>1, <1>4 DEF createEmployee, midnight, vars
<1>5. QED
  BY <1>2, <1>3, <1>4 DEF Next

-----------------------------------------------------------------------------
(* The dates, without PATCH of a record.                                   *)

LEMMA DatesStay ==
  ASSUME NEW r \in Row
  PROVE  /\ SameDates(SoftDeleted(r), r)
         /\ SameDates(Superseded(r), r)
         /\ \A s : SameDates(BulkSet(r, s), r)
         /\ \A e : SameDates(Cascaded(r, e), r)
         /\ \A entity, cols : SameDates(entity, r) =>
              SameDates(WriteColumns(r, entity, cols), r)
BY DEF SameDates, SoftDeleted, Superseded, BulkSet, Cascaded, WriteColumns, Row

LEMMA RowDates ==
  ASSUME IInv, FreshOK, NoPatch, DatesAgree, [Next]_vars, NEW id \in RecordId
  PROVE  \/ Exists(id) /\ SameDates(records'[id], records[id])
         \/ ~Exists(id) /\ (records'[id] # None => Fresh(records'[id]))
<1>1. CASE ~Exists(id)
  <2>1. Untouched(id) \/ Added(id)
    <3>1. ASSUME NEW w \in Workers, SavedBy(w, id)
          PROVE  FALSE
      BY <1>1, <3>1 DEF SavedBy, IInv, HandlerOK, SaveOK
    <3>2. QED
      BY <1>1, <3>1, FateNext DEF RowFate, Closing
  <2>2. QED
    BY <1>1, <2>1 DEF Untouched, Added, Exists
<1>2. CASE Exists(id)
  <2>1. records[id] \in Row
    BY <1>2 DEF Exists, IInv, TypeOK
  <2>2. CASE Untouched(id)
    BY <1>2, <2>2 DEF Untouched, SameDates
  <2>3. CASE Closing(id)
    BY <1>2, <2>1, <2>3, DatesStay DEF Closing
  <2>4. CASE \E w \in Workers : SavedBy(w, id)
    <3>1. PICK w \in Workers : SavedBy(w, id)
      BY <2>4
    <3>2. Deleting(w)
      BY <3>1 DEF SavedBy, Saving, NoPatch, Patching, Deleting
    <3>3. SameDates(ctx[w].row, records[id])
      BY <3>1, <3>2 DEF DatesAgree, SavedBy
    <3>4. QED
      BY <1>2, <2>1, <3>1, <3>3, DatesStay DEF SavedBy
  <2>5. QED
    BY <1>2, <2>2, <2>3, <2>4, FateNext DEF RowFate, Added
<1>3. QED
  BY <1>1, <1>2

LEMMA DatesOrderedNext ==
  ASSUME IInv, FreshOK, NoPatch, DatesAgree, DatesOrdered, [Next]_vars
  PROVE  DatesOrdered'
<1> SUFFICES ASSUME NEW id \in RecordId, records'[id] # None
             PROVE  records'[id].issued < records'[id].expiry
  BY DEF DatesOrdered, Exists
<1>1. QED
  BY RowDates DEF SameDates, Fresh, DatesOrdered

LEMMA DatesAgreeNext ==
  ASSUME "update" \notin Ops, IInv, FreshOK, NoPatch, DatesAgree, [Next]_vars
  PROVE  DatesAgree'
<1> SUFFICES ASSUME NEW v \in Workers, Deleting(v)'
             PROVE  SameDates(ctx'[v].row, records'[ctx'[v].id])
  BY DEF DatesAgree, SameDates
<1>1. pc'[v] \in {"archive_reload", "archive_write", "archive_softDelete"}
  BY DEF Deleting
<1>2. TypeOK
  BY DEF IInv
<1>3. CASE Deleting(v) /\ ctx'[v].id = ctx[v].id /\ ctx'[v].row = ctx[v].row
  <2>1. ctx[v].id \in RecordId /\ Exists(ctx[v].id)
    BY <1>3 DEF IInv, HandlerOK, SaveOK, Saving, Deleting
  <2>2. SameDates(records'[ctx[v].id], records[ctx[v].id])
    BY <2>1, RowDates
  <2>3. QED
    BY <1>3, <2>2 DEF DatesAgree, SameDates
<1>4. CASE Still(v)
  BY <1>1, <1>3, <1>4 DEF Still, Deleting
<1>5. CASE Request(v) /\ ~Still(v)
  BY <1>1, <1>2, <1>5, RequestLands
<1>6. CASE Statement(v)
  BY <1>1, <1>2, <1>3, <1>6, StatementLands
<1>7. QED
  BY <1>2, <1>4, <1>5, <1>6, OneMoves

(* Every record expires after it was issued as long as nobody PATCHes a    *)
(* record: it is update() alone, of all the endpoints, that can turn the   *)
(* dates around, whatever runs beside whatever and wherever it dies.       *)
THEOREM GuardedDates ==
  ASSUME "update" \notin Ops
  PROVE  Spec => []DatesOrdered
<1>1. Init => DatesInv
  BY InitIInv
     DEF Init, DatesInv, FreshOK, Inserting, Creating, Renewing, NoPatch,
         Patching, DatesAgree, Deleting, DatesOrdered, Exists
<1>2. DatesInv /\ [Next]_vars => DatesInv'
  BY NextIInv, FreshNext, NoPatchNext, DatesAgreeNext, DatesOrderedNext
     DEF DatesInv, IInv
<1>3. DatesInv => DatesOrdered
  BY DEF DatesInv
<1>4. QED
  BY <1>1, <1>2, <1>3, PTL DEF Spec

-----------------------------------------------------------------------------
(* deletedAt and the status, without the endpoints that save a record.     *)

RowMatches(r) ==
  /\ r.deleted => r.status \in TerminalStatus
  /\ r.status = "renewed" => r.deleted

LEMMA MatchingStays ==
  ASSUME NEW r \in Row, RowMatches(r)
  PROVE  /\ RowMatches(Superseded(r))
         /\ \A s \in EvaluableStatus : RowMatches(BulkSet(r, s))
         /\ \A e : RowMatches(Cascaded(r, e))
<1>1. RowMatches(Superseded(r))
  BY DEF RowMatches, Superseded, SoftDeleted, Row, TerminalStatus
<1>2. \A s \in EvaluableStatus : RowMatches(BulkSet(r, s))
  BY DEF RowMatches, BulkSet, Updatable, Row, EvaluableStatus
<1>3. \A e : RowMatches(Cascaded(r, e))
  BY DEF RowMatches, Cascaded, SoftDeleted, Row, TerminalStatus
<1>4. QED
  BY <1>1, <1>2, <1>3

LEMMA DeletedNext ==
  ASSUME IInv, FreshOK, NoSave, DeletedMatchesStatus, [Next]_vars
  PROVE  DeletedMatchesStatus'
<1> SUFFICES ASSUME NEW id \in RecordId, records'[id] # None
             PROVE  RowMatches(records'[id])
  BY DEF DeletedMatchesStatus, RowMatches, Exists
<1>1. Exists(id) => records[id] \in Row /\ RowMatches(records[id])
  BY DEF Exists, IInv, TypeOK, DeletedMatchesStatus, RowMatches
<1>2. CASE Untouched(id)
  BY <1>1, <1>2 DEF Untouched, Exists
<1>3. CASE Added(id)
  BY <1>3 DEF Added, Fresh, RowMatches, EvaluableStatus
<1>4. CASE Closing(id)
  BY <1>1, <1>4, MatchingStays DEF Closing
<1>5. QED
  BY <1>2, <1>3, <1>4, FateNext DEF RowFate, SavedBy, NoSave

(* deletedAt is set on renewed and archived records only, and on every     *)
(* renewed one, as long as records are neither PATCHed nor DELETEd:        *)
(* creations, renewals, bulk updates and employee archives keep the two    *)
(* columns together however they interleave.                               *)
THEOREM GuardedDeletion ==
  ASSUME "update" \notin Ops, "archive" \notin Ops
  PROVE  Spec => []DeletedMatchesStatus
<1>1. Init => DeletedInv
  BY InitIInv
     DEF Init, DeletedInv, FreshOK, Inserting, Creating, Renewing, NoSave,
         Saving, DeletedMatchesStatus, Exists
<1>2. DeletedInv /\ [Next]_vars => DeletedInv'
  BY NextIInv, FreshNext, NoSaveNext, DeletedNext
     DEF DeletedInv, IInv
<1>3. DeletedInv => DeletedMatchesStatus
  BY DEF DeletedInv
<1>4. QED
  BY <1>1, <1>2, <1>3, PTL DEF Spec

-----------------------------------------------------------------------------
(* An archived record and its DELETE, where neither a PATCH nor a crash    *)
(* comes between.                                                          *)

RowArchived(r) == r.status = "archived" => r.deleted

(* A DELETE that has made its first save makes its second, or waits.       *)
LEMMA HalfArchivingLasts ==
  ASSUME ~Crashes, TypeOK, [Next]_vars,
         NEW w \in Workers, NEW id \in RecordId, HalfArchiving(w, id)
  PROVE  \/ HalfArchiving(w, id)'
         \/ Exists(id) /\ records'[id] = SoftDeleted(records[id])
         \/ ~Exists(id)
<1>1. CASE Still(w)
  BY <1>1 DEF Still, HalfArchiving
<1>2. CASE Request(w)
  BY <1>2 DEF HalfArchiving, Request, create, update, archive, renew,
     bulkStatusUpdate, updateEmployee, archiveEmployee
<1>3. CASE Statement(w)
  <2>1. archive_softDelete(w)
    BY <1>3 DEF HalfArchiving, Statement, create_insert, update_reload,
       update_write, archive_reload, archive_write, renew_insert,
       renew_close, renew_deadlock, insert_fails, bulk_apply, Reload,
       WriteBack, updateEmployee_reload, updateEmployee_write,
       archiveEmployee_softRemove, archiveEmployee_cascade, crash
  <2>2. QED
    BY <2>1 DEF archive_softDelete, HalfArchiving, TypeOK
<1>4. QED
  BY <1>1, <1>2, <1>3, OneMoves

LEMMA ArchivedStays ==
  ASSUME NEW r \in Row
  PROVE  /\ RowArchived(SoftDeleted(r))
         /\ RowArchived(Superseded(r))
         /\ \A s \in EvaluableStatus :
              RowArchived(r) => RowArchived(BulkSet(r, s))
         /\ \A e : RowArchived(r) => RowArchived(Cascaded(r, e))
<1>1. RowArchived(SoftDeleted(r)) /\ RowArchived(Superseded(r))
  BY DEF RowArchived, SoftDeleted, Superseded, Row
<1>2. \A s \in EvaluableStatus : RowArchived(r) => RowArchived(BulkSet(r, s))
  BY DEF RowArchived, BulkSet, EvaluableStatus, Row
<1>3. \A e : RowArchived(r) => RowArchived(Cascaded(r, e))
  BY DEF RowArchived, Cascaded, SoftDeleted, Row
<1>4. QED
  BY <1>1, <1>2, <1>3

LEMMA ArchivedNext ==
  ASSUME ~Crashes, IInv, FreshOK, NoPatch, ArchivedIsDeleted, [Next]_vars
  PROVE  ArchivedIsDeleted'
<1> SUFFICES ASSUME NEW id \in RecordId, records'[id] # None,
                    ~RowArchived(records'[id])
             PROVE  \E w \in Workers : HalfArchiving(w, id)'
  BY DEF ArchivedIsDeleted, RowArchived, HalfArchiving, Exists
<1>1. TypeOK /\ (Exists(id) => records[id] \in Row)
  BY DEF Exists, IInv, TypeOK
<1>2. CASE \E w \in Workers : SavedBy(w, id)
  <2>1. PICK w \in Workers : SavedBy(w, id)
    BY <1>2
  <2>2. Exists(id)
    BY <2>1 DEF SavedBy, IInv, HandlerOK, SaveOK
  <2>3. records'[id] # SoftDeleted(records[id])
    BY <1>1, <2>2, ArchivedStays
  <2>4. QED
    BY <2>1, <2>3 DEF SavedBy, NoPatch
<1>3. CASE ~\E w \in Workers : SavedBy(w, id)
  <2>1. Untouched(id) \/ Closing(id)
    BY <1>3, FateNext DEF RowFate, Added, Fresh, RowArchived, EvaluableStatus
  <2>2. Exists(id) /\ records[id] \in Row
    BY <1>1, <2>1 DEF Untouched, Closing, Exists
  <2>3. ~RowArchived(records[id])
    BY <2>1, <2>2, ArchivedStays DEF Untouched, Closing
  <2>4. PICK w \in Workers : HalfArchiving(w, id)
    BY <2>2, <2>3 DEF ArchivedIsDeleted, RowArchived, HalfArchiving
  <2>5. records'[id] # SoftDeleted(records[id])
    BY <2>2, ArchivedStays
  <2>6. QED
    BY <1>1, <2>2, <2>4, <2>5, HalfArchivingLasts
<1>4. QED
  BY <1>2, <1>3

(* An archived record is soft-deleted too, or its DELETE is between its    *)
(* two saves, as long as nobody PATCHes a record and no request dies: any  *)
(* number of DELETEs, renewals, bulk updates and employee archives of the  *)
(* same records leave no archived record behind that is not.               *)
THEOREM GuardedArchive ==
  ASSUME "update" \notin Ops, ~Crashes
  PROVE  Spec => []ArchivedIsDeleted
<1>1. Init => ArchivedInv
  BY InitIInv
     DEF Init, ArchivedInv, FreshOK, Inserting, Creating, Renewing, NoPatch,
         Patching, ArchivedIsDeleted, Exists
<1>2. ArchivedInv /\ [Next]_vars => ArchivedInv'
  BY NextIInv, FreshNext, NoPatchNext, ArchivedNext
     DEF ArchivedInv, IInv
<1>3. ArchivedInv => ArchivedIsDeleted
  BY DEF ArchivedInv
<1>4. QED
  BY <1>1, <1>2, <1>3, PTL DEF Spec
=============================================================================
