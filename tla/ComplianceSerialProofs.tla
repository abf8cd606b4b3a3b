----------------------- MODULE ComplianceSerialProofs -----------------------
(***************************************************************************)
(* What the compliance API keeps true when it serves one request at a      *)
(* time, any of which may die between two statements: DatesOrdered,        *)
(* DeletedMatchesStatus, NoOrphans, OneSuccessor, and the refinement of    *)
(* RecordLifecycle.  With two workers each of them is lost (the api_*      *)
(* runs that expect a violation show how), so what they rest on is that    *)
(* nothing comes between a handler's reads and its writes: ServedOK says   *)
(* what a handler has read that still holds at its next statement.         *)
(*                                                                         *)
(* The properties are not inductive alone either: that a record has one    *)
(* successor needs that a record with a successor is renewed, and stays so *)
(* (SuccessorsClose), and that live records have live employees needs that *)
(* no soft-deleted record is open (RowSound).                              *)
(***************************************************************************)
EXTENDS ComplianceApiProofs

Serial == \A v, w \in Workers : v = w

(* A row that makes an open record.                                        *)
Sound(r) ==
  /\ r.issued < r.expiry
  /\ ~r.deleted
  /\ r.status \in EvaluableStatus
  /\ employees[r.emp] = "live"

(* A row of the table, open or closed.                                     *)
RowSound(r) ==
  /\ r.issued < r.expiry
  /\ r.deleted => r.status \in TerminalStatus
  /\ r.status = "renewed" => r.deleted
  /\ ~r.deleted => employees[r.emp] = "live"

RowsSound == \A id \in RecordId : Exists(id) => RowSound(records[id])

SuccessorsClose ==
  \A id \in RecordId : Exists(id) /\ records[id].from # NoId =>
    records[records[id].from].status = "renewed"

SameRecord(r, s) == r.emp = s.emp /\ r.type = s.type /\ r.from = s.from

CreateServed(w) == Creating(w) => Sound(ctx[w].row)

UpdateServed(w) == pc[w] \in {"update_reload", "update_write"} =>
  /\ Sound(records[ctx[w].id])
  /\ Sound(ctx[w].row)
  /\ SameRecord(ctx[w].row, records[ctx[w].id])

ArchiveServed(w) ==
  /\ pc[w] \in {"archive_reload", "archive_write"} =>
       /\ Sound(records[ctx[w].id])
       /\ ctx[w].row = [records[ctx[w].id] EXCEPT !.status = "archived"]
  /\ pc[w] = "archive_softDelete" => records[ctx[w].id].status = "archived"

ColumnsServed(w) == pc[w] \in {"update_write", "archive_write"} =>
  ctx[w].cols = ChangedColumns(ctx[w].row, records[ctx[w].id])

RenewServed(w) == Renewing(w) =>
  /\ Sound(records[ctx[w].id])
  /\ Sound(ctx[w].row)

EmployeeServed(w) ==
  /\ OnEmployee(w) => employees[ctx[w].emp] = "live"
  /\ pc[w] = "updateEmployee_write" => ctx[w].cols = {}

ServedOK(w) ==
  /\ CreateServed(w)
  /\ UpdateServed(w)
  /\ ArchiveServed(w)
  /\ ColumnsServed(w)
  /\ RenewServed(w)
  /\ EmployeeServed(w)

SInv ==
  /\ IInv
  /\ RowsSound
  /\ SuccessorsClose
  /\ OneSuccessor
  /\ \A w \in Workers : ServedOK(w)

-----------------------------------------------------------------------------
(* What a step does to the tables when nothing comes between a handler's   *)
(* statements: one operation of the lifecycle, or none.                    *)

Opens(new, r) ==
  /\ new \in RecordId /\ ~Exists(new)
  /\ r \in Row /\ Sound(r) /\ r.from = NoId
  /\ records' = [records EXCEPT ![new] = r]
  /\ employees' = employees

Corrects ==
  /\ records' \in [RecordId -> Row \union {None}]
  /\ \A id \in RecordId :
       \/ records'[id] = records[id]
       \/ /\ Exists(id) /\ Sound(records[id])
          /\ records'[id] \in Row /\ Sound(records'[id])
          /\ SameRecord(records'[id], records[id])
  /\ employees' = employees

Closes(id) ==
  /\ id \in RecordId /\ Exists(id) /\ Sound(records[id])
  /\ records' = [records EXCEPT ![id] = [@ EXCEPT !.status = "archived"]]
  /\ employees' = employees

Hides(id) ==
  /\ id \in RecordId /\ Exists(id) /\ records[id].status = "archived"
  /\ records' = [records EXCEPT ![id] = SoftDeleted(@)]
  /\ employees' = employees

Renews(old, new, r) ==
  /\ old \in RecordId /\ Exists(old) /\ Sound(records[old])
  /\ new \in RecordId /\ ~Exists(new)
  /\ r \in Row /\ Sound(r) /\ r.from = old /\ r.emp = records[old].emp
  /\ records' = [records EXCEPT ![old] = Superseded(@), ![new] = r]
  /\ employees' = employees

Offboards(e) ==
  /\ e \in EmployeeId /\ employees[e] = "live"
  /\ records' = [id \in RecordId |-> Cascaded(records[id], e)]
  /\ employees' = [employees EXCEPT ![e] = "archived"]

Hires(e) ==
  /\ e \in EmployeeId /\ employees[e] = "absent"
  /\ records' = records
  /\ employees' = [employees EXCEPT ![e] = "live"]

ServedStep ==
  \/ \E new, r : Opens(new, r)
  \/ Corrects
  \/ \E id : Closes(id) \/ Hides(id)
  \/ \E old, new, r : Renews(old, new, r)
  \/ \E e : Offboards(e) \/ Hires(e)

-----------------------------------------------------------------------------
(* Rows.                                                                   *)

(* A save() that found what to write by comparing with the very row it     *)
(* writes to makes that row the entity.                                    *)
LEMMA SavedRow ==
  ASSUME NEW r \in Row, NEW entity \in Row, SameRecord(entity, r)
  PROVE  WriteColumns(r, entity, ChangedColumns(entity, r)) = entity
<1> DEFINE saved == WriteColumns(r, entity, ChangedColumns(entity, r))
<1>1. /\ saved \in Row
      /\ saved.emp = entity.emp /\ saved.type = entity.type
      /\ saved.from = entity.from
  BY WriteColumnsRow DEF SameRecord
<1>2. /\ saved.issued = entity.issued /\ saved.expiry = entity.expiry
      /\ saved.status = entity.status /\ saved.deleted = entity.deleted
  BY DEF WriteColumns, ChangedColumns, Column, Row
<1> HIDE DEF saved
<1>3. saved = entity
  BY <1>1, <1>2 DEF Row
<1>4. QED
  BY <1>3 DEF saved

(* Nothing that makes an open record is renewed or archived.               *)
LEMMA SoundIsOpen ==
  ASSUME NEW r, Sound(r)
  PROVE  RowSound(r) /\ r.status \notin TerminalStatus
BY DEF Sound, RowSound, EvaluableStatus, TerminalStatus

(* A record a handler may change is open: it is not soft-deleted, and its  *)
(* employee is live.                                                       *)
LEMMA OpenIsSound ==
  ASSUME NEW r \in Row, RowSound(r), r.status \notin TerminalStatus
  PROVE  Sound(r)
BY DEF Sound, RowSound, Row, Status

LEMMA CorrectedSound ==
  ASSUME NEW r \in Row, NEW issued \in Nat, NEW expiry \in Nat,
         Sound(r), issued < expiry
  PROVE  /\ Sound(Corrected(r, issued, expiry))
         /\ SameRecord(Corrected(r, issued, expiry), r)
<1>1. computeStatus(expiry) \in EvaluableStatus
  BY StatusRule DEF computeStatus
<1>2. QED
  BY <1>1 DEF Corrected, Sound, SameRecord, Row

LEMMA SuccessorSound ==
  ASSUME NEW r \in Row, NEW id \in RecordId,
         NEW issued \in Nat, NEW expiry \in Nat, Sound(r), issued < expiry
  PROVE  Sound(Successor(r, id, issued, expiry))
<1>1. computeStatus(expiry) \in EvaluableStatus
  BY StatusRule DEF computeStatus
<1>2. QED
  BY <1>1 DEF Successor, Sound

LEMMA BulkSound ==
  ASSUME NEW r \in Row, RowSound(r), NEW s \in EvaluableStatus
  PROVE  \/ BulkSet(r, s) = r
         \/ /\ Sound(r) /\ Sound(BulkSet(r, s))
            /\ SameRecord(BulkSet(r, s), r)
<1>1. CASE Updatable(r) /\ r.status # s
  <2>1. Sound(r)
    BY <1>1, OpenIsSound DEF Updatable
  <2>2. BulkSet(r, s) = [r EXCEPT !.status = s]
    BY <1>1 DEF BulkSet
  <2>3. QED
    BY <2>1, <2>2 DEF Sound, SameRecord, Row
<1>2. CASE ~(Updatable(r) /\ r.status # s)
  BY <1>2 DEF BulkSet
<1>3. QED
  BY <1>1, <1>2

-----------------------------------------------------------------------------
(* What each statement does to the tables.                                 *)

LEMMA CreateEffect ==
  ASSUME SInv, NEW w \in Workers, create_insert(w)
  PROVE  Opens(nextId, ctx[w].row)
<1>1. Creating(w)
  BY DEF create_insert, Creating
<1>2. ctx[w].row \in Row /\ ctx[w].row.from = NoId
  BY <1>1 DEF SInv, IInv, HandlerOK, CreateOK
<1>3. Sound(ctx[w].row)
  BY <1>1 DEF SInv, ServedOK, CreateServed
<1>4. nextId \in RecordId /\ ~Exists(nextId)
  BY DEF create_insert, SInv, IInv, IdsBelowCounter, RecordId
<1>5. QED
  BY <1>2, <1>3, <1>4 DEF Opens, create_insert

(* The update writes the corrected entity over the row it was made from.   *)
LEMMA UpdateEffect ==
  ASSUME SInv, NEW w \in Workers, update_write(w)
  PROVE  Corrects
<1> DEFINE id  == ctx[w].id
           row == ctx[w].row
<1>1. Saving(w) /\ pc[w] = "update_write"
  BY DEF update_write, WriteBack, Saving
<1>2. id \in RecordId /\ Exists(id) /\ row \in Row /\ records[id] \in Row
  BY <1>1 DEF SInv, IInv, HandlerOK, SaveOK, TypeOK, Exists
<1>3. /\ Sound(records[id]) /\ Sound(row) /\ SameRecord(row, records[id])
      /\ ctx[w].cols = ChangedColumns(row, records[id])
  BY <1>1 DEF SInv, ServedOK, UpdateServed, ColumnsServed
<1>4. WriteColumns(records[id], row, ctx[w].cols) = row
  BY <1>2, <1>3, SavedRow
<1>5. records' = [records EXCEPT ![id] = row] /\ employees' = employees
  BY <1>4 DEF update_write, WriteBack
<1>6. records \in [RecordId -> Row \union {None}]
  BY DEF SInv, IInv, TypeOK
<1> HIDE DEF id, row
<1>7. /\ records' \in [RecordId -> Row \union {None}]
      /\ \A other \in RecordId :
           records'[other] = IF other = id THEN row ELSE records[other]
  BY <1>2, <1>5, <1>6
<1>8. QED
  BY <1>2, <1>3, <1>5, <1>7 DEF Corrects

LEMMA ArchiveEffect ==
  ASSUME SInv, NEW w \in Workers, archive_write(w)
  PROVE  Closes(ctx[w].id)
<1> DEFINE id  == ctx[w].id
           row == ctx[w].row
<1>1. Saving(w) /\ pc[w] = "archive_write"
  BY DEF archive_write, WriteBack, Saving
<1>2. id \in RecordId /\ Exists(id) /\ row \in Row /\ records[id] \in Row
  BY <1>1 DEF SInv, IInv, HandlerOK, SaveOK, TypeOK, Exists
<1>3. /\ Sound(records[id])
      /\ row = [records[id] EXCEPT !.status = "archived"]
      /\ ctx[w].cols = ChangedColumns(row, records[id])
  BY <1>1 DEF SInv, ServedOK, ArchiveServed, ColumnsServed
<1>4. SameRecord(row, records[id])
  BY <1>2, <1>3 DEF SameRecord, Row
<1>5. WriteColumns(records[id], row, ctx[w].cols) = row
  BY <1>2, <1>3, <1>4, SavedRow
<1>6. records' = [records EXCEPT ![id] = row] /\ employees' = employees
  BY <1>5 DEF archive_write, WriteBack
<1>7. QED
  BY <1>2, <1>3, <1>6 DEF Closes

LEMMA SoftDeleteEffect ==
  ASSUME SInv, NEW w \in Workers, archive_softDelete(w)
  PROVE  Hides(ctx[w].id)
<1>1. Saving(w) /\ pc[w] = "archive_softDelete"
  BY DEF archive_softDelete, Saving
<1>2. ctx[w].id \in RecordId /\ Exists(ctx[w].id)
  BY <1>1 DEF SInv, IInv, HandlerOK, SaveOK
<1>3. records[ctx[w].id].status = "archived"
  BY <1>1 DEF SInv, ServedOK, ArchiveServed
<1>4. QED
  BY <1>2, <1>3 DEF Hides, archive_softDelete

LEMMA RenewEffect ==
  ASSUME SInv, NEW w \in Workers, renew_close(w)
  PROVE  Renews(ctx[w].id, ctx[w].new, ctx[w].row)
<1>1. Renewing(w) /\ Inserted(w)
  BY DEF renew_close, Renewing, Inserted
<1>2. /\ ctx[w].id \in RecordId /\ Exists(ctx[w].id)
      /\ ctx[w].new \in RecordId /\ ~Exists(ctx[w].new)
      /\ ctx[w].row \in Row /\ ctx[w].row.from = ctx[w].id
      /\ ctx[w].row.emp = records[ctx[w].id].emp
  BY <1>1 DEF SInv, IInv, HandlerOK, RenewOK, InsertOK
<1>3. Sound(records[ctx[w].id]) /\ Sound(ctx[w].row)
  BY <1>1 DEF SInv, ServedOK, RenewServed
<1>4. QED
  BY <1>2, <1>3 DEF Renews, renew_close

LEMMA BulkEffect ==
  ASSUME SInv, NEW w \in Workers, NEW s \in EvaluableStatus, bulk_apply(w, s)
  PROVE  Corrects
<1>1. records \in [RecordId -> Row \union {None}]
  BY DEF SInv, IInv, TypeOK
<1>2. ASSUME NEW id \in RecordId
      PROVE  \/ records'[id] = records[id]
             \/ /\ Exists(id) /\ Sound(records[id])
                /\ records'[id] \in Row /\ Sound(records'[id])
                /\ SameRecord(records'[id], records[id])
  <2>1. records'[id] = records[id] \/ records'[id] = BulkSet(records[id], s)
    BY DEF bulk_apply
  <2>2. CASE Exists(id)
    <3>1. records[id] \in Row /\ RowSound(records[id])
      BY <1>1, <2>2 DEF SInv, RowsSound, Exists
    <3>2. QED
      BY <2>1, <2>2, <3>1, RowKept, BulkSound
  <2>3. CASE ~Exists(id)
    BY <2>1, <2>3 DEF BulkSet, Updatable, Exists
  <2>4. QED
    BY <2>2, <2>3
<1>3. records' = [id \in RecordId |-> records'[id]] /\ employees' = employees
  BY DEF bulk_apply
<1>4. \A id \in RecordId : records'[id] \in Row \union {None}
  BY <1>1, <1>2
<1>5. QED
  BY <1>2, <1>3, <1>4 DEF Corrects

LEMMA OffboardEffect ==
  ASSUME SInv, NEW w \in Workers, archiveEmployee_cascade(w)
  PROVE  Offboards(ctx[w].emp)
<1>1. OnEmployee(w)
  BY DEF archiveEmployee_cascade, OnEmployee
<1>2. ctx[w].emp \in EmployeeId /\ employees[ctx[w].emp] = "live"
  BY <1>1 DEF SInv, IInv, HandlerOK, EmployeeOK, ServedOK, EmployeeServed
<1>3. QED
  BY <1>2 DEF Offboards, archiveEmployee_cascade

(* Every step is one operation of the lifecycle, or leaves the tables.     *)
LEMMA StepServed ==
  ASSUME SInv, [Next]_vars
  PROVE  ServedStep
<1>1. CASE records' = records /\ employees' = employees
  <2>1. Corrects
    BY <1>1 DEF Corrects, SInv, IInv, TypeOK
  <2>2. QED
    BY <2>1 DEF ServedStep
<1>2. CASE \E w \in Workers : Request(w)
  BY <1>1, <1>2, RequestReads
<1>3. CASE \E w \in Workers : Statement(w)
  <2>1. PICK w \in Workers : Statement(w)
    BY <1>3
  <2>2. CASE create_insert(w)
    BY <2>1, <2>2, CreateEffect DEF ServedStep
  <2>3. CASE update_write(w)
    BY <2>1, <2>3, UpdateEffect DEF ServedStep
  <2>4. CASE archive_write(w)
    BY <2>1, <2>4, ArchiveEffect DEF ServedStep
  <2>5. CASE archive_softDelete(w)
    BY <2>1, <2>5, SoftDeleteEffect DEF ServedStep
  <2>6. CASE renew_close(w)
    BY <2>1, <2>6, RenewEffect DEF ServedStep
  <2>7. CASE \E s \in EvaluableStatus : bulk_apply(w, s)
    BY <2>1, <2>7, BulkEffect DEF ServedStep
  <2>8. CASE archiveEmployee_cascade(w)
    BY <2>1, <2>8, OffboardEffect DEF ServedStep
  <2>9. CASE updateEmployee_write(w)
    <3>1. ctx[w].cols = {}
      BY <2>1, <2>9 DEF updateEmployee_write, SInv, ServedOK, EmployeeServed
    <3>2. QED
      BY <1>1, <2>9, <3>1 DEF updateEmployee_write
  <2>10. CASE OffRecords(w) /\ ~updateEmployee_write(w)
    <3>1. records' = records
      BY <2>10, OffRecordsKeeps
    <3>2. CASE \/ update_reload(w) \/ archive_reload(w) \/ renew_insert(w)
               \/ renew_deadlock(w) \/ insert_fails(w)
      BY <1>1, <3>1, <3>2 DEF update_reload, archive_reload, Reload,
         renew_insert, renew_deadlock, insert_fails
    <3>3. CASE \/ crash(w) \/ updateEmployee_reload(w)
               \/ archiveEmployee_softRemove(w)
      BY <1>1, <3>1, <3>3 DEF crash, updateEmployee_reload,
         archiveEmployee_softRemove
    <3>4. QED
      BY <2>10, <3>2, <3>3 DEF OffRecords
  <2>11. QED
    BY <2>1, <2>2, <2>3, <2>4, <2>5, <2>6, <2>7, <2>8, <2>9, <2>10
       DEF Statement, OffRecords
<1>4. CASE \E e \in EmployeeId : createEmployee(e)
  <2>1. PICK e \in EmployeeId : createEmployee(e)
    BY <1>4
  <2>2. Hires(e)
    BY <2>1 DEF createEmployee, Hires
  <2>3. QED
    BY <2>2 DEF ServedStep
<1>5. CASE midnight \/ UNCHANGED vars
  BY <1>1, <1>5 DEF midnight, vars
<1>6. QED
  BY <1>2, <1>3, <1>4, <1>5 DEF Next

-----------------------------------------------------------------------------
(* Rows stay sound.                                                        *)

LEMMA CascadedSound ==
  ASSUME NEW r \in Row, RowSound(r), NEW e \in EmployeeId
  PROVE  /\ Cascaded(r, e) \in Row
         /\ Cascaded(r, e).issued < Cascaded(r, e).expiry
         /\ Cascaded(r, e).deleted => Cascaded(r, e).status \in TerminalStatus
         /\ Cascaded(r, e).status = "renewed" => Cascaded(r, e).deleted
         /\ ~Cascaded(r, e).deleted =>
              r.emp # e /\ ~r.deleted /\ Cascaded(r, e) = r
<1>1. CASE r.emp = e /\ ~r.deleted
  <2>1. Cascaded(r, e) = [r EXCEPT !.status = "archived", !.deleted = TRUE]
    BY <1>1, ConstantsOK DEF Cascaded, SoftDeleted, Row
  <2>2. QED
    BY <2>1 DEF RowSound, Row, Status, TerminalStatus
<1>2. CASE ~(r.emp = e /\ ~r.deleted)
  <2>1. Cascaded(r, e) = r
    BY <1>2 DEF Cascaded
  <2>2. QED
    BY <1>2, <2>1 DEF RowSound
<1>3. QED
  BY <1>1, <1>2

LEMMA ClosedSound ==
  ASSUME NEW r \in Row, RowSound(r)
  PROVE  /\ RowSound([r EXCEPT !.status = "archived"]) \/ r.status = "renewed"
         /\ r.status = "archived" => RowSound(SoftDeleted(r))
         /\ RowSound(Superseded(r))
         /\ Superseded(r).status = "renewed"
BY DEF RowSound, SoftDeleted, Superseded, Row, TerminalStatus

LEMMA RowsSoundNext ==
  ASSUME SInv, [Next]_vars
  PROVE  RowsSound'
<1> SUFFICES ASSUME NEW id \in RecordId, records'[id] # None
             PROVE  RowSound(records[id])'
  BY DEF RowsSound, Exists
<1>1. records \in [RecordId -> Row \union {None}]
  BY DEF SInv, IInv, TypeOK
<1>2. Exists(id) => records[id] \in Row /\ RowSound(records[id])
  BY <1>1 DEF SInv, RowsSound, Exists
<1>3. ASSUME employees' = employees, RowSound(records'[id])
      PROVE  RowSound(records[id])'
  BY <1>3 DEF RowSound
<1>4. CASE \E new, r : Opens(new, r)
  <2>1. PICK new, r : Opens(new, r)
    BY <1>4
  <2>2. CASE id = new
    BY <1>1, <1>3, <2>1, <2>2, SoundIsOpen DEF Opens
  <2>3. CASE id # new
    BY <1>1, <1>2, <1>3, <2>1, <2>3 DEF Opens, Exists
  <2>4. QED
    BY <2>2, <2>3
<1>5. CASE Corrects
  BY <1>2, <1>3, <1>5, SoundIsOpen DEF Corrects, Exists
<1>6. CASE \E x : Closes(x) \/ Hides(x)
  <2>1. PICK x : Closes(x) \/ Hides(x)
    BY <1>6
  <2>2. CASE id # x
    BY <1>1, <1>2, <1>3, <2>1, <2>2 DEF Closes, Hides, Exists
  <2>3. CASE id = x /\ Closes(x)
    <3>1. records'[id] = [records[id] EXCEPT !.status = "archived"]
      BY <1>1, <2>3 DEF Closes
    <3>2. records[id].status # "renewed"
      BY <2>3, SoundIsOpen DEF Closes, TerminalStatus
    <3>3. QED
      BY <1>2, <1>3, <2>3, <3>1, <3>2, ClosedSound DEF Closes
  <2>4. CASE id = x /\ Hides(x)
    <3>1. records'[id] = SoftDeleted(records[id])
      BY <1>1, <2>4 DEF Hides
    <3>2. QED
      BY <1>2, <1>3, <2>4, <3>1, ClosedSound DEF Hides
  <2>5. QED
    BY <2>1, <2>2, <2>3, <2>4
<1>7. CASE \E old, new, r : Renews(old, new, r)
  <2>1. PICK old, new, r : Renews(old, new, r)
    BY <1>7
  <2>2. CASE id = new
    BY <1>1, <1>3, <2>1, <2>2, SoundIsOpen DEF Renews
  <2>3. CASE id = old
    <3>1. records'[id] = Superseded(records[id])
      BY <1>1, <2>1, <2>3 DEF Renews
    <3>2. QED
      BY <1>2, <1>3, <2>1, <2>3, <3>1, ClosedSound DEF Renews
  <2>4. CASE id # old /\ id # new
    BY <1>1, <1>2, <1>3, <2>1, <2>4 DEF Renews, Exists
  <2>5. QED
    BY <2>2, <2>3, <2>4
<1>8. CASE \E e : Offboards(e)
  <2>1. PICK e : Offboards(e)
    BY <1>8
  <2>2. e \in EmployeeId /\ records'[id] = Cascaded(records[id], e)
    BY <2>1 DEF Offboards
  <2>3. Exists(id)
    BY <2>2 DEF Cascaded, Exists
  <2>4. \A f \in EmployeeId : f # e => employees'[f] = employees[f]
    BY <2>1 DEF Offboards, SInv, IInv, TypeOK
  <2>5. records[id].emp \in EmployeeId
    BY <1>2, <2>3 DEF Row
  <2>6. ~records'[id].deleted => employees'[records'[id].emp] = "live"
    BY <1>2, <2>2, <2>3, <2>4, <2>5, CascadedSound DEF RowSound
  <2>7. /\ records'[id].issued < records'[id].expiry
        /\ records'[id].deleted => records'[id].status \in TerminalStatus
        /\ records'[id].status = "renewed" => records'[id].deleted
    BY <1>2, <2>2, <2>3, CascadedSound
  <2>8. QED
    BY <2>6, <2>7 DEF RowSound
<1>9. CASE \E e : Hires(e)
  <2>1. PICK e : Hires(e)
    BY <1>9
  <2>2. /\ records' = records
        /\ \A f \in EmployeeId : employees[f] = "live" => employees'[f] = "live"
    BY <2>1 DEF Hires, SInv, IInv, TypeOK
  <2>3. Exists(id) /\ records[id].emp \in EmployeeId
    BY <1>2, <2>2 DEF Exists, Row
  <2>4. QED
    BY <1>2, <2>2, <2>3 DEF RowSound
<1>10. QED
  BY <1>4, <1>5, <1>6, <1>7, <1>8, <1>9, StepServed DEF ServedStep

-----------------------------------------------------------------------------
(* What is renewed stays renewed, so that it is renewed once.              *)

LEMMA RenewedStays ==
  ASSUME SInv, [Next]_vars,
         NEW id \in RecordId, Exists(id), records[id].status = "renewed"
  PROVE  records'[id].status = "renewed"
<1>1. records \in [RecordId -> Row \union {None}]
  BY DEF SInv, IInv, TypeOK
<1>2. records[id] \in Row /\ RowSound(records[id]) /\ ~Sound(records[id])
  BY <1>1, SoundIsOpen DEF SInv, RowsSound, Exists, TerminalStatus
<1>3. CASE \E new, r : Opens(new, r)
  BY <1>1, <1>3 DEF Opens
<1>4. CASE Corrects
  BY <1>2, <1>4 DEF Corrects
<1>5. CASE \E x : Closes(x) \/ Hides(x)
  BY <1>1, <1>2, <1>5 DEF Closes, Hides
<1>6. CASE \E old, new, r : Renews(old, new, r)
  BY <1>1, <1>2, <1>6 DEF Renews
<1>7. CASE \E e : Offboards(e) \/ Hires(e)
  BY <1>2, <1>7 DEF Offboards, Hires, Cascaded, RowSound
<1>8. QED
  BY <1>3, <1>4, <1>5, <1>6, <1>7, StepServed DEF ServedStep

(* The only record that gains a link is the new one of a renewal.          *)
LEMMA LinksGained ==
  ASSUME SInv, [Next]_vars, NEW id \in RecordId, records'[id] # None,
         records'[id].from # NoId
  PROVE  \/ Exists(id) /\ records'[id].from = records[id].from
         \/ /\ ~Exists(id)
            /\ \E r : Renews(records'[id].from, id, r)
<1>1. records \in [RecordId -> Row \union {None}]
  BY DEF SInv, IInv, TypeOK
<1>2. CASE Exists(id)
  BY <1>2, ExistingKept DEF Kept, SInv
<1>3. CASE ~Exists(id)
  <2>1. CASE \E new, r : Opens(new, r)
    BY <1>1, <1>3, <2>1 DEF Opens, Exists
  <2>2. CASE Corrects
    BY <1>3, <2>2 DEF Corrects, Exists
  <2>3. CASE \E x : Closes(x) \/ Hides(x)
    BY <1>1, <1>3, <2>3 DEF Closes, Hides, Exists
  <2>4. CASE \E old, new, r : Renews(old, new, r)
    <3>1. PICK old, new, r : Renews(old, new, r)
      BY <2>4
    <3>2. id = new
      BY <1>1, <1>3, <3>1 DEF Renews, Exists
    <3>3. records'[id] = r /\ r.from = old
      BY <1>1, <3>1, <3>2 DEF Renews
    <3>4. QED
      BY <1>3, <3>1, <3>2, <3>3
  <2>5. CASE \E e : Offboards(e) \/ Hires(e)
    BY <1>3, <2>5 DEF Offboards, Hires, Cascaded, Exists
  <2>6. QED
    BY <2>1, <2>2, <2>3, <2>4, <2>5, StepServed DEF ServedStep
<1>4. QED
  BY <1>2, <1>3

LEMMA SuccessorsCloseNext ==
  ASSUME SInv, [Next]_vars
  PROVE  SuccessorsClose'
<1> SUFFICES ASSUME NEW id \in RecordId, records'[id] # None,
                    records'[id].from # NoId
             PROVE  records'[records'[id].from].status = "renewed"
  BY DEF SuccessorsClose, Exists
<1>1. records \in [RecordId -> Row \union {None}]
  BY DEF SInv, IInv, TypeOK
<1>2. CASE Exists(id) /\ records'[id].from = records[id].from
  <2>1. /\ records[id].from \in RecordId
        /\ Exists(records[id].from)
        /\ records[records[id].from].status = "renewed"
    BY <1>1, <1>2 DEF SInv, IInv, SuccessorsClose, RenewalLinks, Exists, Row
  <2>2. QED
    BY <1>2, <2>1, RenewedStays
<1>3. CASE ~Exists(id) /\ \E r : Renews(records'[id].from, id, r)
  <2> DEFINE old == records'[id].from
  <2>1. PICK r : Renews(old, id, r)
    BY <1>3
  <2>2. /\ old \in RecordId /\ old # id /\ records[old] \in Row
        /\ RowSound(records[old])
    BY <1>1, <1>3, <2>1 DEF Renews, SInv, RowsSound, Exists
  <2>3. records'[old] = Superseded(records[old])
    BY <1>1, <2>1, <2>2 DEF Renews
  <2>4. QED
    BY <2>2, <2>3, ClosedSound
<1>4. QED
  BY <1>2, <1>3, LinksGained

LEMMA OneSuccessorNext ==
  ASSUME SInv, [Next]_vars
  PROVE  OneSuccessor'
<1> SUFFICES ASSUME NEW a \in RecordId, NEW b \in RecordId,
                    records'[a] # None, records'[b] # None,
                    records'[a].from = records'[b].from,
                    records'[a].from # NoId
             PROVE  a = b
  BY DEF OneSuccessor, Exists
<1>1. ASSUME NEW id \in RecordId, Exists(id), NEW old, NEW new, NEW r,
             Renews(old, new, r)
      PROVE  records[id].from # old
  <2>1. Sound(records[old]) /\ old \in RecordId
    BY <1>1 DEF Renews
  <2>2. records[old].status # "renewed"
    BY <2>1, SoundIsOpen DEF TerminalStatus
  <2>3. QED
    BY <1>1, <2>1, <2>2 DEF SInv, SuccessorsClose, RecordId, NoId
<1>2. CASE Exists(a) /\ Exists(b)
  <2>1. records'[a].from = records[a].from /\ records'[b].from = records[b].from
    BY <1>2, ExistingKept DEF Kept, SInv
  <2>2. QED
    BY <1>2, <2>1 DEF SInv, OneSuccessor
<1>3. CASE Exists(a) /\ ~Exists(b)
  <2>1. PICK r : Renews(records'[b].from, b, r)
    BY <1>3, LinksGained
  <2>2. QED
    BY <1>1, <1>3, <2>1, LinksGained
<1>4. CASE ~Exists(a) /\ Exists(b)
  <2>1. PICK r : Renews(records'[a].from, a, r)
    BY <1>4, LinksGained
  <2>2. QED
    BY <1>1, <1>4, <2>1, LinksGained
<1>5. CASE ~Exists(a) /\ ~Exists(b)
  <2>1. PICK r : Renews(records'[a].from, a, r)
    BY <1>5, LinksGained
  <2>2. \A id \in RecordId : id # a /\ ~Exists(id) => records'[id] = None
    BY <2>1 DEF Renews, SInv, IInv, TypeOK, Exists
  <2>3. QED
    BY <1>5, <2>2
<1>6. QED
  BY <1>2, <1>3, <1>4, <1>5

-----------------------------------------------------------------------------
(* What a handler has read still holds.                                    *)

(* A hire, midnight and what others do not do leave a handler with the     *)
(* rows it read.                                                           *)
LEMMA StillServed ==
  ASSUME SInv, NEW w \in Workers, Still(w), records' = records,
         \A e \in EmployeeId : employees[e] = "live" => employees'[e] = "live"
  PROVE  ServedOK(w)'
<1>1. ASSUME NEW r \in Row, Sound(r)
      PROVE  /\ r.issued < r.expiry /\ ~r.deleted /\ r.status \in EvaluableStatus
             /\ employees'[r.emp] = "live"
  BY <1>1 DEF Sound, Row
<1>2. ServedOK(w)
  BY DEF SInv
<1>3. \A id \in RecordId : Exists(id) => records[id] \in Row
  BY DEF SInv, IInv, TypeOK, Exists
<1>4. /\ Creating(w) \/ Saving(w) \/ Renewing(w) => ctx[w].row \in Row
      /\ Saving(w) \/ Renewing(w) => records[ctx[w].id] \in Row
  BY <1>3 DEF SInv, IInv, HandlerOK, CreateOK, SaveOK, RenewOK
<1>5. CreateServed(w)'
  BY <1>1, <1>2, <1>4 DEF ServedOK, CreateServed, Creating, Still, Sound
<1>6. UpdateServed(w)'
  BY <1>1, <1>2, <1>4 DEF ServedOK, UpdateServed, Saving, Still, Sound
<1>7. ArchiveServed(w)'
  BY <1>1, <1>2, <1>4 DEF ServedOK, ArchiveServed, Saving, Still, Sound
<1>8. ColumnsServed(w)'
  BY <1>2 DEF ServedOK, ColumnsServed, Still
<1>9. RenewServed(w)'
  BY <1>1, <1>2, <1>4 DEF ServedOK, RenewServed, Renewing, Still, Sound
<1>10. EmployeeServed(w)'
  BY <1>2 DEF ServedOK, EmployeeServed, OnEmployee, Still, SInv, IInv,
              HandlerOK, EmployeeOK
<1>11. QED
  BY <1>5, <1>6, <1>7, <1>8, <1>9, <1>10 DEF ServedOK

(* An idle worker has read nothing, and neither has one in the middle of a *)
(* bulk request: its UPDATEs look at the rows themselves.                  *)
LEMMA IdleServed ==
  ASSUME NEW w \in Workers, pc'[w] \in {"idle", "bulk_apply"}
  PROVE  ServedOK(w)'
BY DEF ServedOK, CreateServed, UpdateServed, ArchiveServed, ColumnsServed,
       RenewServed, EmployeeServed, Creating, Renewing, OnEmployee

(* What a request hands to its first statement.                            *)
LEMMA RequestServed ==
  ASSUME SInv, NEW w \in Workers, Request(w)
  PROVE  ServedOK(w)'
<1>1. TypeOK
  BY DEF SInv, IInv
<1>2. records' = records /\ employees' = employees
  BY RequestReads
<1>3. ASSUME NEW r, Sound(r)
      PROVE  /\ r.issued < r.expiry /\ ~r.deleted /\ r.status \in EvaluableStatus
             /\ employees'[r.emp] = "live"
  BY <1>2, <1>3 DEF Sound
<1>4. ASSUME NEW id \in RecordId, Exists(id)
      PROVE  /\ records[id] \in Row
             /\ records[id].status \notin TerminalStatus => Sound(records[id])
  <2>1. records[id] \in Row /\ RowSound(records[id])
    BY <1>1, <1>4 DEF SInv, RowsSound, TypeOK, Exists
  <2>2. QED
    BY <2>1, OpenIsSound
<1>5. CASE \E e \in EmployeeId, t \in Type, i \in IssuedDates,
              x \in ExpiryDates : create(w, e, t, i, x)
  <2>1. PICK e \in EmployeeId, t \in Type, i \in IssuedDates,
             x \in ExpiryDates : create(w, e, t, i, x)
    BY <1>5
  <2>2. computeStatus(x) \in EvaluableStatus
    BY StatusRule DEF computeStatus
  <2> DEFINE row == [emp |-> e, type |-> t, issued |-> i, expiry |-> x,
                     status |-> computeStatus(x), deleted |-> FALSE,
                     from |-> NoId]
  <2>3. i \in Nat /\ x \in Nat
    BY ConstantsOK
  <2>4. Sound(row)
    BY <2>1, <2>2, <2>3 DEF create, ExpiryAfterIssued, Sound
  <2>5. pc'[w] = "create_insert" /\ ctx'[w] = [Blank EXCEPT !.row = row]
    BY <1>1, <2>1, GoToThere DEF create
  <2>6. ctx'[w].row = row
    BY <2>5 DEF Blank
  <2> HIDE DEF row
  <2>7. CreateServed(w)'
    BY <1>3, <2>4, <2>6 DEF CreateServed, Sound
  <2>8. QED
    BY <2>5, <2>7 DEF ServedOK, UpdateServed, ArchiveServed, ColumnsServed,
       RenewServed, EmployeeServed, Renewing, OnEmployee
<1>6. CASE \E id \in RecordId, i \in IssuedDates \union {Undefined},
              x \in ExpiryDates \union {Undefined} : update(w, id, i, x)
  <2>1. PICK id \in RecordId, i \in IssuedDates \union {Undefined},
             x \in ExpiryDates \union {Undefined} : update(w, id, i, x)
    BY <1>6
  <2> DEFINE r == records[id]
             issued == Given(i, r.issued)
             expiry == Given(x, r.expiry)
             dated == i # Undefined \/ x # Undefined
             row == IF dated THEN Corrected(r, issued, expiry) ELSE r
  <2>2. Exists(id) /\ r.status \notin TerminalStatus
    BY <2>1 DEF update
  <2>3. r \in Row /\ Sound(r)
    BY <1>4, <2>2
  <2>4. issued \in Nat /\ expiry \in Nat
    BY <2>3, ConstantsOK DEF Given, Row, Undefined
  <2>5. dated => issued < expiry
    <3>1. dated => ExpiryAfterIssued(issued, expiry)
      BY <2>1 DEF update
    <3>2. QED
      BY <2>4, <3>1 DEF ExpiryAfterIssued
  <2>6. Sound(row) /\ SameRecord(row, r)
    <3>1. CASE dated
      BY <2>3, <2>4, <2>5, <3>1, CorrectedSound
    <3>2. CASE ~dated
      BY <2>3, <3>2 DEF SameRecord
    <3>3. QED
      BY <3>1, <3>2
  <2>7. GoTo(w, "update_reload", [Blank EXCEPT !.id = id, !.row = row])
    BY <2>1 DEF update
  <2>8. /\ pc'[w] = "update_reload"
        /\ ctx'[w] = [Blank EXCEPT !.id = id, !.row = row]
    BY <1>1, <2>7, GoToThere
  <2>9. ctx'[w].id = id /\ ctx'[w].row = row
    BY <2>8 DEF Blank
  <2> HIDE DEF row, issued, expiry, dated
  <2>10. UpdateServed(w)'
    BY <1>2, <1>3, <2>3, <2>6, <2>9 DEF UpdateServed, Sound
  <2>11. QED
    BY <2>8, <2>10 DEF ServedOK, CreateServed, ArchiveServed, ColumnsServed,
       RenewServed, EmployeeServed, Creating, Renewing, OnEmployee
<1>7. CASE \E id \in RecordId : archive(w, id)
  <2>1. PICK id \in RecordId : archive(w, id)
    BY <1>7
  <2> DEFINE row == [records[id] EXCEPT !.status = "archived"]
  <2>2. Exists(id) /\ records[id].status \notin TerminalStatus
    BY <2>1 DEF archive
  <2>3. Sound(records[id])
    BY <1>4, <2>2
  <2>4. GoTo(w, "archive_reload", [Blank EXCEPT !.id = id, !.row = row])
    BY <2>1 DEF archive
  <2>5. /\ pc'[w] = "archive_reload"
        /\ ctx'[w] = [Blank EXCEPT !.id = id, !.row = row]
    BY <1>1, <2>4, GoToThere
  <2>6. ctx'[w].id = id /\ ctx'[w].row = row
    BY <2>5 DEF Blank
  <2>7. ArchiveServed(w)'
    BY <1>2, <1>3, <2>3, <2>5, <2>6 DEF ArchiveServed, Sound
  <2>8. QED
    BY <2>5, <2>7 DEF ServedOK, CreateServed, UpdateServed, ColumnsServed,
       RenewServed, EmployeeServed, Creating, Renewing, OnEmployee
<1>8. CASE \E id \in RecordId, i \in IssuedDates, x \in ExpiryDates :
              renew(w, id, i, x)
  <2>1. PICK id \in RecordId, i \in IssuedDates, x \in ExpiryDates :
              renew(w, id, i, x)
    BY <1>8
  <2> DEFINE row == Successor(records[id], id, i, x)
  <2>2. Exists(id) /\ records[id].status \notin TerminalStatus
    BY <2>1 DEF renew
  <2>3. Sound(records[id]) /\ records[id] \in Row
    BY <1>4, <2>2
  <2>4. i \in Nat /\ x \in Nat
    BY ConstantsOK
  <2>5. i < x
    BY <2>1, <2>4 DEF renew, ExpiryAfterIssued
  <2>6. Sound(row)
    BY <2>3, <2>4, <2>5, SuccessorSound
  <2>7. GoTo(w, "renew_insert", [Blank EXCEPT !.id = id, !.row = row])
    BY <2>1 DEF renew
  <2>8. /\ pc'[w] = "renew_insert"
        /\ ctx'[w] = [Blank EXCEPT !.id = id, !.row = row]
    BY <1>1, <2>7, GoToThere
  <2>9. ctx'[w].id = id /\ ctx'[w].row = row
    BY <2>8 DEF Blank
  <2> HIDE DEF row
  <2>10. RenewServed(w)'
    BY <1>2, <1>3, <2>3, <2>6, <2>9 DEF RenewServed, Sound
  <2>11. QED
    BY <2>8, <2>10 DEF ServedOK, CreateServed, UpdateServed, ArchiveServed,
       ColumnsServed, EmployeeServed, Creating, OnEmployee
<1>9. CASE \E updates \in BulkRequest : bulkStatusUpdate(w, updates)
  <2>1. pc'[w] \in {"idle", "bulk_apply"}
    BY <1>1, <1>9, GoToThere DEF bulkStatusUpdate
  <2>2. QED
    BY <2>1, IdleServed
<1>10. CASE \E e \in EmployeeId : updateEmployee(w, e) \/ archiveEmployee(w, e)
  <2>1. PICK e \in EmployeeId : updateEmployee(w, e) \/ archiveEmployee(w, e)
    BY <1>10
  <2>2. /\ pc'[w] \in {"updateEmployee_reload", "archiveEmployee_softRemove"}
        /\ ctx'[w] = [Blank EXCEPT !.emp = e]
        /\ employees[e] = "live"
    BY <1>1, <2>1, GoToThere DEF updateEmployee, archiveEmployee
  <2>3. ctx'[w].emp = e
    BY <2>2 DEF Blank
  <2>4. EmployeeServed(w)'
    BY <1>2, <2>2, <2>3 DEF EmployeeServed
  <2>5. QED
    BY <2>2, <2>4 DEF ServedOK, CreateServed, UpdateServed, ArchiveServed,
       ColumnsServed, RenewServed, Creating, Renewing
<1>11. QED
  BY <1>5, <1>6, <1>7, <1>8, <1>9, <1>10 DEF Request

(* What a statement hands to the next one.                                 *)
LEMMA StatementServed ==
  ASSUME SInv, NEW w \in Workers, Statement(w)
  PROVE  ServedOK(w)'
<1>1. TypeOK /\ ServedOK(w) /\ ctx[w] \in Context
  BY DEF SInv, IInv, TypeOK
<1>2. CASE \/ create_insert(w) \/ update_write(w) \/ archive_softDelete(w)
           \/ renew_close(w) \/ renew_deadlock(w) \/ insert_fails(w)
           \/ updateEmployee_write(w) \/ archiveEmployee_cascade(w)
           \/ crash(w)
  <2>1. Return(w)
    BY <1>2 DEF create_insert, update_write, archive_softDelete,
       renew_close, renew_deadlock, insert_fails, updateEmployee_write,
       archiveEmployee_cascade, crash
  <2>2. pc'[w] = "idle"
    BY <1>1, <2>1, GoToThere DEF Return
  <2>3. QED
    BY <2>2, IdleServed
<1>3. CASE \E s \in EvaluableStatus : bulk_apply(w, s)
  <2>1. pc'[w] \in {"idle", "bulk_apply"}
    BY <1>1, <1>3, GoToThere DEF bulk_apply, Return
  <2>2. QED
    BY <2>1, IdleServed
<1>4. CASE update_reload(w) \/ archive_reload(w)
  <2>1. /\ records' = records /\ employees' = employees
        /\ pc'[w] = IF pc[w] = "update_reload" THEN "update_write"
                                               ELSE "archive_write"
        /\ pc[w] \in {"update_reload", "archive_reload"}
        /\ ctx'[w] = [ctx[w] EXCEPT
             !.cols = ChangedColumns(ctx[w].row, records[ctx[w].id])]
    BY <1>1, <1>4, GoToThere DEF update_reload, archive_reload, Reload
  <2>2. /\ ctx'[w].id = ctx[w].id
        /\ ctx'[w].row = ctx[w].row
        /\ ctx'[w].cols = ChangedColumns(ctx[w].row, records[ctx[w].id])
    BY <1>1, <2>1 DEF Context
  <2>3. ColumnsServed(w)'
    BY <2>1, <2>2 DEF ColumnsServed, ChangedColumns
  <2>4. UpdateServed(w)'
    BY <1>1, <2>1, <2>2 DEF ServedOK, UpdateServed, Sound
  <2>5. ArchiveServed(w)'
    BY <1>1, <2>1, <2>2 DEF ServedOK, ArchiveServed, Sound
  <2>6. QED
    BY <2>1, <2>3, <2>4, <2>5 DEF ServedOK, CreateServed, RenewServed,
       EmployeeServed, Creating, Renewing, OnEmployee
<1>5. CASE archive_write(w)
  <2>1. pc'[w] = "archive_softDelete" /\ ctx'[w] = ctx[w]
    BY <1>1, <1>5, GoToThere DEF archive_write
  <2>2. Closes(ctx[w].id)
    BY <1>5, ArchiveEffect
  <2>3. /\ records \in [RecordId -> Row \union {None}]
        /\ records[ctx[w].id] \in Row
    BY <1>1, <2>2 DEF TypeOK, Closes, Exists
  <2>4. records'[ctx[w].id].status = "archived"
    BY <2>2, <2>3 DEF Closes, Row
  <2>5. ArchiveServed(w)'
    BY <2>1, <2>4 DEF ArchiveServed
  <2>6. QED
    BY <2>1, <2>5 DEF ServedOK, CreateServed, UpdateServed, ColumnsServed,
       RenewServed, EmployeeServed, Creating, Renewing, OnEmployee
<1>6. CASE renew_insert(w)
  <2>1. /\ records' = records /\ employees' = employees
        /\ pc[w] = "renew_insert" /\ pc'[w] = "renew_close"
        /\ ctx'[w] = [ctx[w] EXCEPT !.new = nextId]
    BY <1>1, <1>6, GoToThere DEF renew_insert
  <2>2. ctx'[w].id = ctx[w].id /\ ctx'[w].row = ctx[w].row
    BY <1>1, <2>1 DEF Context
  <2>3. RenewServed(w)'
    BY <1>1, <2>1, <2>2 DEF ServedOK, RenewServed, Renewing, Sound
  <2>4. QED
    BY <2>1, <2>3 DEF ServedOK, CreateServed, UpdateServed, ArchiveServed,
       ColumnsServed, EmployeeServed, Creating, OnEmployee
<1>7. CASE updateEmployee_reload(w)
  <2>1. /\ employees' = employees
        /\ pc[w] = "updateEmployee_reload" /\ pc'[w] = "updateEmployee_write"
        /\ ctx'[w] = [ctx[w] EXCEPT
             !.cols = IF employees[ctx[w].emp] = "archived" THEN {"deleted"}
                                                            ELSE {}]
    BY <1>1, <1>7, GoToThere DEF updateEmployee_reload
  <2>2. employees[ctx[w].emp] = "live"
    BY <1>1, <2>1 DEF ServedOK, EmployeeServed, OnEmployee
  <2>3. ctx'[w].emp = ctx[w].emp /\ ctx'[w].cols = {}
    BY <1>1, <2>1, <2>2 DEF Context
  <2>4. QED
    BY <2>1, <2>2, <2>3 DEF ServedOK, CreateServed, UpdateServed,
       ArchiveServed, ColumnsServed, RenewServed, EmployeeServed, Creating,
       Renewing
<1>8. CASE archiveEmployee_softRemove(w)
  <2>1. /\ employees' = employees
        /\ pc[w] = "archiveEmployee_softRemove"
        /\ pc'[w] = "archiveEmployee_cascade"
        /\ ctx'[w] = ctx[w]
    BY <1>1, <1>8, GoToThere DEF archiveEmployee_softRemove
  <2>2. employees[ctx[w].emp] = "live"
    BY <1>1, <2>1 DEF ServedOK, EmployeeServed, OnEmployee
  <2>3. QED
    BY <2>1, <2>2 DEF ServedOK, CreateServed, UpdateServed, ArchiveServed,
       ColumnsServed, RenewServed, EmployeeServed, Creating, Renewing
<1>9. QED
  BY <1>2, <1>3, <1>4, <1>5, <1>6, <1>7, <1>8 DEF Statement

(* Here the requests are served one at a time: whoever moves is the only   *)
(* worker there is.                                                        *)
LEMMA ServedNext ==
  ASSUME Serial, SInv, [Next]_vars, NEW w \in Workers
  PROVE  ServedOK(w)'
<1>1. CASE \E v \in Workers : Request(v) \/ Statement(v)
  BY <1>1, RequestServed, StatementServed DEF Serial
<1>2. CASE \E e \in EmployeeId : createEmployee(e)
  BY <1>2, StillServed DEF createEmployee, Still, SInv, IInv, TypeOK
<1>3. CASE midnight \/ UNCHANGED vars
  BY <1>3, StillServed DEF midnight, vars, Still
<1>4. QED
  BY <1>1, <1>2, <1>3 DEF Next

-----------------------------------------------------------------------------
(* The inductive invariant.                                                *)

LEMMA InitSInv ==
  ASSUME Init
  PROVE  SInv
<1>1. \A id \in RecordId : ~Exists(id)
  BY DEF Init, Exists
<1>2. RowsSound /\ SuccessorsClose /\ OneSuccessor
  BY <1>1 DEF RowsSound, SuccessorsClose, OneSuccessor
<1>3. \A w \in Workers : pc[w] = "idle"
  BY DEF Init
<1>4. \A w \in Workers : ServedOK(w)
  BY <1>3 DEF ServedOK, CreateServed, UpdateServed, ArchiveServed,
     ColumnsServed, RenewServed, EmployeeServed, Creating, Renewing, OnEmployee
<1>5. QED
  BY <1>2, <1>4, InitIInv DEF SInv

(* What one request at a time may rely on, whichever of them dies half-    *)
(* way: the rows and employees it has read are still what it read.         *)
THEOREM SerialInvariance ==
  ASSUME Serial
  PROVE  Spec => []SInv
<1>1. Init => SInv
  BY InitSInv
<1>2. ASSUME SInv, [Next]_vars
      PROVE  SInv'
  <2>1. IInv'
    BY <1>2, NextIInv DEF SInv
  <2>2. RowsSound' /\ SuccessorsClose' /\ OneSuccessor'
    BY <1>2, RowsSoundNext, SuccessorsCloseNext, OneSuccessorNext
  <2>3. \A w \in Workers : ServedOK(w)'
    BY <1>2, ServedNext
  <2>4. QED
    BY <2>1, <2>2, <2>3 DEF SInv
<1>3. QED
  BY <1>1, <1>2, PTL DEF Spec

(* Served one at a time, no request leaves a soft-deleted record open or a *)
(* renewed one visible, not even one that dies between two statements.     *)
THEOREM SerialDeletion ==
  ASSUME Serial
  PROVE  Spec => []DeletedMatchesStatus
<1>1. SInv => DeletedMatchesStatus
  BY DEF SInv, RowsSound, RowSound, DeletedMatchesStatus
<1>2. QED
  BY <1>1, SerialInvariance, PTL

(* Served one at a time, corrections of one date check it against the      *)
(* other as it will be stored: a record expires after it was issued.       *)
THEOREM SerialDates ==
  ASSUME Serial
  PROVE  Spec => []DatesOrdered
<1>1. SInv => DatesOrdered
  BY DEF SInv, RowsSound, RowSound, DatesOrdered
<1>2. QED
  BY <1>1, SerialInvariance, PTL

(* Served one at a time, no record is created, renewed or left live for an *)
(* employee who is archived.                                               *)
THEOREM SerialOrphans ==
  ASSUME Serial
  PROVE  Spec => []NoOrphans
<1>1. SInv => NoOrphans
  BY DEF SInv, RowsSound, RowSound, NoOrphans
<1>2. QED
  BY <1>1, SerialInvariance, PTL

(* Served one at a time, no record is renewed twice, whatever else is done *)
(* to it in between.                                                       *)
THEOREM SerialRenewal ==
  ASSUME Serial
  PROVE  Spec => []OneSuccessor
<1>1. SInv => OneSuccessor
  BY DEF SInv
<1>2. QED
  BY <1>1, SerialInvariance, PTL

-----------------------------------------------------------------------------
(* The refinement of RecordLifecycle, operation by operation.              *)

Owner(id)  == IF Exists(id) THEN records[id].emp ELSE None
Renewed(id) == IF Exists(id) THEN records[id].from ELSE NoId

(* The lifecycle sees nothing of a row that is left alone, of a correction *)
(* of an open one, or of deletedAt being set on an archived one.           *)
Alike(id) ==
  /\ Phase(id)' = Phase(id)
  /\ Owner(id)' = Owner(id)
  /\ Renewed(id)' = Renewed(id)

LEMMA SameRowAlike ==
  ASSUME NEW id, records'[id] = records[id]
  PROVE  Alike(id)
BY DEF Alike, Phase, Owner, Renewed, Exists

LEMMA CorrectedAlike ==
  ASSUME NEW id, Exists(id), Sound(records[id]), records'[id] \in Row,
         Sound(records'[id]), SameRecord(records'[id], records[id])
  PROVE  Alike(id)
<1>1. records'[id] # None
  BY ConstantsOK
<1>2. /\ records'[id].status \notin TerminalStatus
      /\ records[id].status \notin TerminalStatus
  BY SoundIsOpen
<1>3. QED
  BY <1>1, <1>2 DEF Alike, Phase, Owner, Renewed, Exists, SameRecord

LEMMA HiddenAlike ==
  ASSUME SInv, NEW id \in RecordId, NEW x, Hides(x)
  PROVE  Alike(id)
<1>1. CASE id = x
  <2>1. records[id] \in Row /\ records[id].status = "archived"
    BY <1>1 DEF Hides, SInv, IInv, TypeOK, Exists
  <2>2. records'[id] = SoftDeleted(records[id])
    BY <1>1 DEF Hides, SInv, IInv, TypeOK
  <2>3. /\ records'[id] \in Row /\ records'[id] # None
        /\ records'[id].status = "archived"
        /\ records'[id].emp = records[id].emp
        /\ records'[id].from = records[id].from
    BY <2>1, <2>2, RowKept, ConstantsOK DEF SoftDeleted, Row
  <2>4. QED
    BY <1>1, <2>1, <2>3 DEF Hides, Alike, Phase, Owner, Renewed, Exists
<1>2. CASE id # x
  BY <1>2, SameRowAlike DEF Hides, SInv, IInv, TypeOK
<1>3. QED
  BY <1>1, <1>2

LEMMA OpensLifecycle ==
  ASSUME SInv, NEW new, NEW r, Opens(new, r)
  PROVE  Lifecycle!Open(new, r.emp)
<1>1. /\ new \in RecordId /\ ~Exists(new) /\ r \in Row /\ Sound(r)
      /\ r.from = NoId /\ employees' = employees
  BY DEF Opens
<1>2. /\ records'[new] = r
      /\ \A id \in RecordId : id # new => records'[id] = records[id]
  BY DEF Opens, SInv, IInv, TypeOK
<1>3. /\ Phase(new) = "none" /\ Phase(new)' = "open"
      /\ Owner(new)' = r.emp
      /\ Renewed(new)' = Renewed(new)
  <2>1. records'[new] # None /\ r.status \notin TerminalStatus
    BY <1>1, <1>2, SoundIsOpen, ConstantsOK
  <2>2. QED
    BY <1>1, <1>2, <2>1 DEF Phase, Owner, Renewed, Exists
<1>4. \A id \in RecordId : id # new => Alike(id)
  BY <1>2, SameRowAlike
<1>5. employees[r.emp] = "live"
  BY <1>1 DEF Sound
<1>6. QED
  BY <1>1, <1>3, <1>4, <1>5 DEF Lifecycle!Open, Alike, Owner, Renewed

LEMMA ClosesLifecycle ==
  ASSUME SInv, NEW x, Closes(x)
  PROVE  Lifecycle!Archive(x)
<1>1. /\ x \in RecordId /\ Exists(x) /\ Sound(records[x])
      /\ records[x] \in Row /\ employees' = employees
  BY DEF Closes, SInv, IInv, TypeOK, Exists
<1>2. /\ records'[x] = [records[x] EXCEPT !.status = "archived"]
      /\ \A id \in RecordId : id # x => records'[id] = records[id]
  BY DEF Closes, SInv, IInv, TypeOK
<1>3. /\ records'[x] \in Row /\ records'[x].status = "archived"
      /\ records'[x].emp = records[x].emp
      /\ records'[x].from = records[x].from
  BY <1>1, <1>2 DEF Row, Status, TerminalStatus
<1>4. records'[x] # None /\ records[x].status \notin TerminalStatus
  BY <1>1, <1>3, SoundIsOpen, ConstantsOK
<1>5. /\ Phase(x) = "open" /\ Phase(x)' = "archived"
      /\ Owner(x)' = Owner(x) /\ Renewed(x)' = Renewed(x)
  BY <1>1, <1>3, <1>4 DEF Phase, Owner, Renewed, Exists, TerminalStatus
<1>6. \A id \in RecordId : id # x => Alike(id)
  BY <1>2, SameRowAlike
<1>7. QED
  BY <1>1, <1>5, <1>6 DEF Lifecycle!Archive, Alike, Owner, Renewed

LEMMA RenewsLifecycle ==
  ASSUME SInv, NEW old, NEW new, NEW r, Renews(old, new, r)
  PROVE  Lifecycle!Renew(old, new)
<1>1. /\ old \in RecordId /\ Exists(old) /\ Sound(records[old])
      /\ new \in RecordId /\ ~Exists(new) /\ old # new
      /\ r \in Row /\ Sound(r) /\ r.from = old /\ r.emp = records[old].emp
      /\ records[old] \in Row /\ employees' = employees
  BY DEF Renews, SInv, IInv, TypeOK, Exists
<1>2. /\ records'[old] = Superseded(records[old])
      /\ records'[new] = r
      /\ \A id \in RecordId : id # old /\ id # new =>
           records'[id] = records[id]
  BY <1>1 DEF Renews, SInv, IInv, TypeOK
<1>3. /\ records'[old] \in Row /\ records'[old].status = "renewed"
      /\ records'[old].emp = records[old].emp
      /\ records'[old].from = records[old].from
  BY <1>1, <1>2, RowKept DEF Superseded, SoftDeleted, Row
<1>4. /\ records'[old] # None /\ records'[new] # None
      /\ records[old].status \notin TerminalStatus
      /\ r.status \notin TerminalStatus
  BY <1>1, <1>2, <1>3, SoundIsOpen, ConstantsOK
<1>5. /\ Phase(old) = "open" /\ Phase(old)' = "renewed"
      /\ Owner(old)' = Owner(old) /\ Renewed(old)' = Renewed(old)
      /\ Owner(old) = records[old].emp
  BY <1>1, <1>3, <1>4 DEF Phase, Owner, Renewed, Exists, TerminalStatus
<1>6. /\ Phase(new) = "none" /\ Phase(new)' = "open"
      /\ Owner(new)' = Owner(old) /\ Renewed(new)' = old
  BY <1>1, <1>2, <1>4, <1>5 DEF Phase, Owner, Renewed, Exists
<1>7. \A id \in RecordId : id # old /\ id # new => Alike(id)
  BY <1>2, SameRowAlike
<1>8. employees[Owner(old)] = "live"
  BY <1>1, <1>5 DEF Sound
<1>9. QED
  BY <1>1, <1>5, <1>6, <1>7, <1>8 DEF Lifecycle!Renew, Alike, Owner, Renewed

LEMMA OffboardsLifecycle ==
  ASSUME SInv, NEW e, Offboards(e)
  PROVE  Lifecycle!Offboard(e)
<1>1. /\ e \in EmployeeId /\ employees[e] = "live"
      /\ employees' = [employees EXCEPT ![e] = "archived"]
      /\ \A id \in RecordId : records'[id] = Cascaded(records[id], e)
  BY DEF Offboards
<1>2. ASSUME NEW id \in RecordId
      PROVE  /\ Owner(id)' = Owner(id) /\ Renewed(id)' = Renewed(id)
             /\ Phase(id)' = IF Phase(id) = "open" /\ Owner(id) = e
                               THEN "archived" ELSE Phase(id)
  <2>1. CASE ~Exists(id)
    <3>1. records'[id] = records[id] /\ Phase(id) = "none"
      BY <1>1, <2>1 DEF Cascaded, Exists, Phase
    <3>2. QED
      BY <3>1, SameRowAlike DEF Alike
  <2>2. CASE Exists(id) /\ records[id].emp = e /\ ~records[id].deleted
    <3>1. records[id] \in Row /\ RowSound(records[id])
      BY <2>2 DEF SInv, IInv, TypeOK, RowsSound, Exists
    <3>2. records'[id] = SoftDeleted([records[id] EXCEPT !.status = "archived"])
      BY <1>1, <2>2 DEF Cascaded, Exists
    <3>3. /\ records'[id] \in Row /\ records'[id].status = "archived"
          /\ records'[id].emp = records[id].emp
          /\ records'[id].from = records[id].from
      BY <3>1, <3>2 DEF SoftDeleted, Row, Status, TerminalStatus
    <3>4. records'[id] # None
      BY <3>3, ConstantsOK
    <3>5. Phase(id)' = "archived" /\ Owner(id) = e
      BY <2>2, <3>3, <3>4 DEF Phase, Owner, Exists, TerminalStatus
    <3>6. Phase(id) \in {"open", "archived"}
      BY <2>2, <3>1 DEF Phase, RowSound, TerminalStatus
    <3>7. Owner(id)' = Owner(id) /\ Renewed(id)' = Renewed(id)
      BY <2>2, <3>3, <3>4 DEF Owner, Renewed, Exists
    <3>8. QED
      BY <3>5, <3>6, <3>7
  <2>3. CASE Exists(id) /\ ~(records[id].emp = e /\ ~records[id].deleted)
    <3>1. RowSound(records[id])
      BY <2>3 DEF SInv, RowsSound
    <3>2. records'[id] = records[id]
      BY <1>1, <2>3 DEF Cascaded
    <3>3. CASE records[id].emp # e
      BY <2>3, <3>2, <3>3, SameRowAlike DEF Alike, Owner
    <3>4. CASE records[id].deleted
      <4>1. records[id].status \in TerminalStatus
        BY <3>1, <3>4 DEF RowSound
      <4>2. Phase(id) # "open"
        BY <2>3, <4>1 DEF Phase, TerminalStatus
      <4>3. QED
        BY <3>2, <4>2, SameRowAlike DEF Alike
    <3>5. QED
      BY <2>3, <3>3, <3>4
  <2>4. QED
    BY <2>1, <2>2, <2>3
<1>3. QED
  BY <1>1, <1>2 DEF Lifecycle!Offboard, Owner, Renewed

LEMMA AlikeLifecycle ==
  ASSUME \A id \in RecordId : Alike(id), employees' = employees
  PROVE  UNCHANGED Lifecycle!vars
BY DEF Lifecycle!vars, Alike, Owner, Renewed

LEMMA StepLifecycle ==
  ASSUME SInv, [Next]_vars
  PROVE  [Lifecycle!Next]_(Lifecycle!vars)
<1>1. CASE \E new, r : Opens(new, r)
  <2>1. PICK new, r : Opens(new, r)
    BY <1>1
  <2>2. new \in RecordId /\ r.emp \in EmployeeId
    BY <2>1 DEF Opens, Row
  <2>3. QED
    BY <2>1, <2>2, OpensLifecycle DEF Lifecycle!Next
<1>2. CASE Corrects
  <2>1. ASSUME NEW id \in RecordId
        PROVE  Alike(id)
    BY <1>2, SameRowAlike, CorrectedAlike DEF Corrects
  <2>2. QED
    BY <1>2, <2>1, AlikeLifecycle DEF Corrects
<1>3. CASE \E x : Closes(x)
  BY <1>3, ClosesLifecycle DEF Lifecycle!Next, Closes
<1>4. CASE \E x : Hides(x)
  <2>1. employees' = employees /\ \A id \in RecordId : Alike(id)
    BY <1>4, HiddenAlike DEF Hides
  <2>2. QED
    BY <2>1, AlikeLifecycle
<1>5. CASE \E old, new, r : Renews(old, new, r)
  <2>1. PICK old, new, r : Renews(old, new, r)
    BY <1>5
  <2>2. old \in RecordId /\ new \in RecordId
    BY <2>1 DEF Renews
  <2>3. QED
    BY <2>1, <2>2, RenewsLifecycle DEF Lifecycle!Next
<1>6. CASE \E e : Offboards(e)
  BY <1>6, OffboardsLifecycle DEF Lifecycle!Next, Offboards
<1>7. CASE \E e : Hires(e)
  <2>1. PICK e : Hires(e)
    BY <1>7
  <2>2. \A id \in RecordId : Alike(id)
    BY <2>1, SameRowAlike DEF Hires
  <2>3. Lifecycle!Hire(e)
    BY <2>1, <2>2 DEF Lifecycle!Hire, Hires, Alike, Owner, Renewed
  <2>4. QED
    BY <2>1, <2>3 DEF Lifecycle!Next, Hires
<1>8. QED
  BY <1>1, <1>2, <1>3, <1>4, <1>5, <1>6, <1>7, StepServed DEF ServedStep

(* Served one at a time, the handlers implement RecordLifecycle: each of   *)
(* their statements is one operation on records and employees that happens *)
(* in one step, or changes nothing the lifecycle knows of, and no order of *)
(* requests and crashes takes a record or an employee anywhere else.       *)
THEOREM SerialRefinement ==
  ASSUME Serial
  PROVE  Spec => ImplementsLifecycle
<1>1. Init => Lifecycle!Init
  BY DEF Init, Lifecycle!Init, Phase, Exists
<1>2. SInv /\ [Next]_vars => [Lifecycle!Next]_(Lifecycle!vars)
  BY StepLifecycle
<1>3. QED
  BY <1>1, <1>2, SerialInvariance, PTL
     DEF Spec, ImplementsLifecycle, Lifecycle!Spec
=============================================================================
