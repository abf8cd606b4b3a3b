-------------------------- MODULE ExpiryJobProofs ---------------------------
(***************************************************************************)
(* What the expiry job keeps true for any table, calendar, page size,      *)
(* batch size and number of attempts, wherever its calls fail, however     *)
(* late an abandoned request is served, and whenever the process dies:     *)
(* TypeOK, NeverEarly, FaithfulReport, CleanRunSettles, and the steps of   *)
(* EventOutbox.                                                            *)
(*                                                                         *)
(* Six invariants, each resting on the ones before it:                     *)
(*   TypeInv     the types, and what the types of the next step rest on;   *)
(*   RunInv      what a phase tells of the locals, the file and the bus;   *)
(*   TimelyInv   every update on its way, at whatever station, was due;    *)
(*   ReportInv   what the run has changed is accounted for;                *)
(*   PagesInv    the pages a run that is alone has read fit together;      *)
(*   SettledInv  what it found outdated is settled or on its way.          *)
(***************************************************************************)
EXTENDS ExpiryJob, FiniteSetTheorems, TLAPS

(* The phases in which the run has a name and a day, and no event yet.     *)
Unreported == {"login", "fetch", "count", "evaluate", "patch", "serve", "save"}

TypeInv ==
  /\ TypeOK
  /\ IsFiniteSet(late)
  /\ job.phase \in Unreported => job.date \in Days
  /\ job.phase \in {"put", "clear"} => pending \in Event

Fetching == \/ job.phase \in {"fetch", "count", "evaluate"}
            \/ job.phase = "login" /\ job.caller = "fetch"
Patching == \/ job.phase \in {"patch", "serve"}
            \/ job.phase = "login" /\ job.caller = "patch"

(* What an event of the outbox has gone through.                           *)
EventInv ==
  /\ job.phase \in Unreported \union {"start"} => pending = NoEvent
  /\ job.phase \in Unreported => \A e \in bus : e.run # runId
  /\ job.phase = "clear" => pending \in bus

(* Which locals are in use.                                                *)
LocalsInv ==
  /\ job.phase = "idle" => job = Idle
  /\ job.phase = "start" => job = [Idle EXCEPT !.phase = "start"]
  /\ job.page # NoRows => job.phase = "count"
  /\ job.snapshot # NoRows => Fetching
  /\ job.batch # NoRows => Patching
  /\ serving # NoRows => job.phase = "serve"
  /\ job.resuming => /\ job.phase \in {"put", "clear"}
                     /\ job.successful = {} /\ ~job.failed

RunInv == EventInv /\ LocalsInv

(* An update asks for no status that its record's date does not justify.   *)
Timely(s, row, day) ==
  Rank(s) <= Rank(computeComplianceStatus(row.expiry, day, Buffer))

Justified(u, tbl, day) ==
  \A id \in DOMAIN u \ Correctable :
    tbl[id] # None /\ Timely(u[id], tbl[id], day)

(* A row that was read has the date its record has still.                  *)
DatesKnown(rows, tbl) ==
  \A id \in DOMAIN rows \ Correctable :
    tbl[id] # None /\ tbl[id].expiry = rows[id].expiry

TimelyJob(j, tbl, day) ==
  /\ j.date # NoDay => j.date <= day
  /\ DatesKnown(j.page, tbl)
  /\ DatesKnown(j.snapshot, tbl)
  /\ Justified(j.todo, tbl, day)
  /\ Justified(j.batch, tbl, day)

TimelyInv ==
  /\ NeverEarly
  /\ TimelyJob(job, table, today)
  /\ Justified(serving, table, today)
  /\ \A u \in late : Justified(u, table, today)

(* What the run changed is in its report, or in the batch it is sending,   *)
(* unless a batch was given up.                                            *)
BookInv ==
  /\ DOMAIN serving \subseteq DOMAIN job.batch
  /\ \A id \in DOMAIN serving : serving[id] = job.batch[id]
  /\ DOMAIN job.todo \intersect DOMAIN job.batch = {}
  /\ ~job.failed => changed \subseteq job.successful \union DOMAIN job.batch
  /\ job.phase = "put" /\ ~job.resuming =>
       pending.changed = job.successful

(* While the run is alone its copies are the table, and what it has yet to *)
(* send is what the table lacks.                                           *)
Open(row) == row # None /\ row.status \in EvaluableStatus

Current(rows, tbl) ==
  \A id \in DOMAIN rows : rows[id] = tbl[id] /\ Open(tbl[id])

Lacks(tbl, u, id) == Open(tbl[id]) /\ tbl[id].status # u[id]

AloneReady(j, tbl, done) ==
  /\ Current(j.page, tbl) /\ Current(j.snapshot, tbl)
  /\ \A id \in DOMAIN j.todo : Lacks(tbl, j.todo, id)
  /\ j.successful \subseteq done

AloneJob(j, tbl, done) ==
  /\ AloneReady(j, tbl, done)
  /\ \A id \in DOMAIN j.batch : id \in done \/ Lacks(tbl, j.batch, id)

AloneInv ==
  clean => /\ AloneJob(job, table, changed)
           /\ job.phase = "serve" =>
                DOMAIN job.batch \subseteq changed \union DOMAIN serving

ReportInv == BookInv /\ AloneInv


(* While the run is alone the pages it has read are a first part of what   *)
(* the table lists, as long as the next page's offset.                     *)
Prefix(S) ==
  S \subseteq Selected /\ \A x \in Selected, y \in S : x < y => x \in S

PagesInv ==
  clean =>
    /\ job.phase \in Unreported => job.date = today
    /\ Fetching /\ job.phase # "evaluate" =>
         /\ Prefix(DOMAIN job.snapshot)
         /\ job.offset = Cardinality(DOMAIN job.snapshot)
    /\ job.phase = "count" => DOMAIN job.page = PageOf(job.offset)
    /\ job.phase = "evaluate" => DOMAIN job.snapshot = Selected

(* What is listed has its status, or is about to be given it.              *)
Settling(todo) ==
  /\ \A id \in DOMAIN todo : todo[id] = Due(id)
  /\ \A id \in Selected : table[id].status = Due(id) \/ id \in DOMAIN todo

SettledInv ==
  clean /\ ~job.failed /\ (Patching \/ job.phase = "save") =>
    /\ \A id \in DOMAIN job.todo : job.todo[id] = Due(id)
    /\ \A id \in DOMAIN job.batch : job.batch[id] = Due(id)
    /\ \A id \in Selected : \/ table[id].status = Due(id)
                            \/ id \in DOMAIN job.todo \union DOMAIN job.batch
    /\ job.phase = "serve" =>
         \A id \in Selected \intersect DOMAIN job.batch :
           table[id].status = Due(id) \/ id \in DOMAIN serving
    /\ job.phase = "save" => job.todo = NoRows

-----------------------------------------------------------------------------
(* The values the job computes with.                                       *)

(* The status rule never answers renewed or archived.                      *)
LEMMA StatusRule ==
  ASSUME NEW expiry, NEW day, NEW buffer
  PROVE  computeComplianceStatus(expiry, day, buffer) \in EvaluableStatus
BY DEF computeComplianceStatus, EvaluableStatus

(* A record only moves towards expired as days pass.                       *)
LEMMA StatusAdvances ==
  ASSUME NEW expiry \in Nat, NEW d \in Nat, NEW e \in Nat, d <= e,
         NEW buffer \in Nat
  PROVE  Rank(computeComplianceStatus(expiry, d, buffer))
           <= Rank(computeComplianceStatus(expiry, e, buffer))
BY DEF computeComplianceStatus, addDaysToDateString, Rank

(* A finite map of updates is what it looks like.                          *)
LEMMA UpdatesAre ==
  ASSUME NEW u
  PROVE  u \in Updates <=>
           /\ DOMAIN u \subseteq RecordId
           /\ u \in [DOMAIN u -> EvaluableStatus]
BY DEF Updates

LEMMA RowsAre ==
  ASSUME NEW rows
  PROVE  rows \in Rows <=>
           /\ DOMAIN rows \subseteq RecordId
           /\ rows \in [DOMAIN rows -> Row]
BY DEF Rows

LEMMA NoRowsFits == /\ DOMAIN NoRows = {}
                    /\ NoRows \in Updates
                    /\ NoRows \in Rows
<1>1. DOMAIN NoRows = {} /\ NoRows \in [{} -> EvaluableStatus]
                        /\ NoRows \in [{} -> Row]
  BY DEF NoRows
<1> QED BY <1>1, UpdatesAre, RowsAre

(* Splitting a batch off leaves updates on both sides.                     *)
LEMMA Splitting ==
  ASSUME NEW u \in Updates, NEW S
  PROVE  /\ Keep(u, S) \in Updates /\ Drop(u, S) \in Updates
         /\ DOMAIN Keep(u, S) = DOMAIN u \intersect S
         /\ DOMAIN Drop(u, S) = DOMAIN u \ S
         /\ \A id \in DOMAIN Keep(u, S) : Keep(u, S)[id] = u[id]
         /\ \A id \in DOMAIN Drop(u, S) : Drop(u, S)[id] = u[id]
<1>1. DOMAIN u \subseteq RecordId /\ u \in [DOMAIN u -> EvaluableStatus]
  BY UpdatesAre
<1>2. /\ DOMAIN Keep(u, S) = DOMAIN u \intersect S
      /\ DOMAIN Drop(u, S) = DOMAIN u \ S
      /\ \A id \in DOMAIN Keep(u, S) : Keep(u, S)[id] = u[id]
      /\ \A id \in DOMAIN Drop(u, S) : Drop(u, S)[id] = u[id]
  BY DEF Keep, Drop
<1>3. /\ Keep(u, S) \in [DOMAIN Keep(u, S) -> EvaluableStatus]
      /\ Drop(u, S) \in [DOMAIN Drop(u, S) -> EvaluableStatus]
  BY <1>1 DEF Keep, Drop
<1> QED BY <1>1, <1>2, <1>3, UpdatesAre

-----------------------------------------------------------------------------
(* Types.                                                                  *)

LEMMA InitTyped == Init => TypeInv
<1> SUFFICES ASSUME Init PROVE TypeInv
  OBVIOUS
<1>1. Idle \in Job
  BY NoRowsFits, JobConstantsOK DEF Idle, Job, Phase
<1>2. IsFiniteSet({}) /\ Cardinality({}) = 0
  BY FS_EmptySet
<1> QED
  BY <1>1, <1>2, NoRowsFits, JobConstantsOK
  DEF Init, TypeInv, TypeOK, RunId, Unreported, Idle


(* What a process that ended is left with.                                 *)
LEMMA IdleFits == /\ Idle \in Job /\ Idle.phase = "idle"
                  /\ Idle.date = NoDay /\ ~Idle.failed /\ ~Idle.resuming
                  /\ Idle.successful = {}
                  /\ Idle.page = NoRows /\ Idle.snapshot = NoRows
                  /\ Idle.todo = NoRows /\ Idle.batch = NoRows
BY NoRowsFits, JobConstantsOK DEF Idle, Job, Phase

(* A row is there or not; one that is live has a status of the rule.       *)
LEMMA RowFits ==
  ASSUME TypeInv, NEW id \in RecordId, table[id] # None
  PROVE  /\ table[id] \in Row
         /\ table[id].expiry \in ExpiryDates
         /\ table[id].status \in Status
BY DEF TypeInv, TypeOK, Row

(* An UPDATE of a bulk request writes statuses of the rule.                *)
LEMMA UpdateFits ==
  ASSUME TypeInv, NEW s \in EvaluableStatus, NEW items, UpdateTo(s, items)
  PROVE  table' \in [RecordId -> Row \union {None}]
<1>1. ASSUME NEW id \in RecordId, id \in Writable(items)
      PROVE  [table[id] EXCEPT !.status = s] \in Row
  BY <1>1, RowFits DEF Writable, Live, Row, Status
<1> QED BY <1>1 DEF UpdateTo, TypeInv, TypeOK

(* A client writes a row.                                                  *)
LEMMA PutFits ==
  ASSUME TypeInv, NEW id \in RecordId, NEW row \in Row, Put(id, row)
  PROVE  TypeInv'
BY DEF TypeInv, TypeOK, Put, Disturb

(* The next batch is cut from what is left, or the run goes on to save.    *)
LEMMA NextBatchIs ==
  ASSUME NEW j \in Job, NextBatch(j)
  PROVE  /\ changed' = changed /\ clean' = clean
         /\ \/ job' = [j EXCEPT !.phase = "save", !.batch = NoRows]
            \/ \E ids :
                 job' = [j EXCEPT !.phase = "patch", !.attempt = 1,
                                  !.again = FALSE, !.batch = Keep(j.todo, ids),
                                  !.todo = Drop(j.todo, ids)]
BY DEF NextBatch, Goto

LEMMA NextBatchFits ==
  ASSUME NEW j \in Job, NextBatch(j)
  PROVE  /\ job' \in Job /\ job'.date = j.date
         /\ job'.phase \in {"save", "patch"}
<1>1. j.todo \in Updates
  BY DEF Job
<1>2. CASE job' = [j EXCEPT !.phase = "save", !.batch = NoRows]
  BY <1>2, NoRowsFits DEF Job, Phase
<1>3. ASSUME NEW ids,
             job' = [j EXCEPT !.phase = "patch", !.attempt = 1,
                              !.again = FALSE, !.batch = Keep(j.todo, ids),
                              !.todo = Drop(j.todo, ids)]
      PROVE  /\ job' \in Job /\ job'.date = j.date
             /\ job'.phase \in {"save", "patch"}
  <2>1. Keep(j.todo, ids) \in Updates /\ Drop(j.todo, ids) \in Updates
    BY <1>1, Splitting
  <2>2. 1 \in 1..MaxAttempts
    BY JobConstantsOK
  <2> QED BY <1>3, <2>1, <2>2 DEF Job, Phase
<1> QED BY <1>2, <1>3, NextBatchIs

(* What a failed or refused call leaves: a call of the run, with its day   *)
(* known, or the idle process.                                             *)
JobFits == /\ job' \in Job
           /\ changed' \subseteq RecordId
           /\ clean' \in BOOLEAN

LEMMA StopFits == ASSUME Stop PROVE JobFits /\ job'.phase = "idle"
BY IdleFits DEF Stop, JobFits

LEMMA GiveUpFits ==
  ASSUME TypeInv, NEW call, GiveUp(call)
  PROVE  /\ JobFits
         /\ \/ job'.phase = "idle"
            \/ job'.phase \in {"save", "patch"} /\ job'.date = job.date
<1>1. CASE call = "patch"
  <2>1. [job EXCEPT !.failed = TRUE] \in Job
    BY DEF TypeInv, TypeOK, Job
  <2>2. NextBatch([job EXCEPT !.failed = TRUE])
    BY <1>1 DEF GiveUp
  <2>3. [job EXCEPT !.failed = TRUE].date = job.date
    BY DEF TypeInv, TypeOK, Job
  <2> QED
    BY <2>1, <2>2, <2>3, NextBatchIs, NextBatchFits
    DEF JobFits, TypeInv, TypeOK
<1>2. CASE call # "patch"
  BY <1>2, StopFits DEF GiveUp
<1> QED BY <1>1, <1>2

LEMMA FailFits ==
  ASSUME TypeInv, NEW p \in {"login", "fetch", "patch", "put"}, NEW call,
         Fail(p, call)
  PROVE  /\ JobFits
         /\ \/ job'.phase = "idle"
            \/ job'.phase \in {"save", "patch"} /\ job'.date = job.date
            \/ job'.phase = p /\ job'.date = job.date
<1>1. CASE job.attempt < MaxAttempts
  <2>1. job' = [job EXCEPT !.phase = p, !.attempt = job.attempt + 1,
                           !.page = NoRows]
        /\ changed' = changed /\ clean' = clean
    BY <1>1 DEF Fail, Goto
  <2>2. job \in Job /\ changed \subseteq RecordId /\ clean \in BOOLEAN
    BY DEF TypeInv, TypeOK
  <2>3. job.attempt + 1 \in 1..MaxAttempts
    BY <1>1, <2>2, JobConstantsOK DEF Job
  <2> QED BY <2>1, <2>2, <2>3, NoRowsFits DEF JobFits, Job, Phase
<1>2. CASE ~(job.attempt < MaxAttempts)
  BY <1>2, GiveUpFits DEF Fail
<1> QED BY <1>1, <1>2

LEMMA UnauthorizedFits ==
  ASSUME TypeInv, NEW call \in {"fetch", "patch"}, Unauthorized(call)
  PROVE  /\ JobFits
         /\ \/ job'.phase = "idle"
            \/ job'.phase \in {"save", "patch", "login"}
               /\ job'.date = job.date
<1>1. CASE job.again
  BY <1>1, GiveUpFits DEF Unauthorized
<1>2. CASE ~job.again
  <2>1. job' = [job EXCEPT !.phase = "login", !.attempt = 1, !.again = TRUE,
                           !.caller = call]
        /\ changed' = changed /\ clean' = clean
    BY <1>2 DEF Unauthorized, Goto
  <2>2. job \in Job /\ changed \subseteq RecordId /\ clean \in BOOLEAN
    BY DEF TypeInv, TypeOK
  <2>3. 1 \in 1..MaxAttempts
    BY JobConstantsOK
  <2> QED BY <2>1, <2>2, <2>3 DEF JobFits, Job, Phase
<1> QED BY <1>1, <1>2

(* An abandoned request takes a free place, or none.                       *)
LEMMA AbandonFits ==
  ASSUME TypeInv, NEW items \in Updates, Abandon(items)
  PROVE  /\ late' \subseteq Updates /\ IsFiniteSet(late')
         /\ Cardinality(late') <= MaxLate
<1>1. CASE UNCHANGED late
  BY <1>1 DEF TypeInv, TypeOK
<1>2. CASE /\ Cardinality(late \union {items}) <= MaxLate
           /\ late' = late \union {items}
  <2>1. IsFiniteSet(late \union {items})
    BY FS_AddElement DEF TypeInv
  <2>2. late \union {items} \subseteq Updates
    BY DEF TypeInv, TypeOK
  <2> QED BY <1>2, <2>1, <2>2
<1> QED BY <1>1, <1>2 DEF Abandon

(* What evaluate_records found, and the run that is about to send it.      *)
Found == [id \in Outdated |-> Computed(job.snapshot[id])]
Evaluated ==
  [job EXCEPT !.snapshot = NoRows, !.offset = 0, !.todo = Found]

LEMMA EvaluatedFits ==
  ASSUME TypeInv
  PROVE  /\ Evaluated \in Job /\ Evaluated.date = job.date
         /\ Evaluated.snapshot = NoRows /\ Evaluated.page = job.page
         /\ Evaluated.todo = Found /\ Evaluated.batch = job.batch
         /\ Evaluated.resuming = job.resuming
         /\ Evaluated.successful = job.successful
         /\ Evaluated.failed = job.failed
<1>1. job \in Job /\ job.snapshot \in Rows
  BY DEF TypeInv, TypeOK, Job
<1>2. Found \in Updates
  <2>1. Outdated \subseteq RecordId
    BY <1>1, RowsAre DEF Outdated
  <2>2. Found \in [Outdated -> EvaluableStatus] /\ DOMAIN Found = Outdated
    BY StatusRule DEF Found, Computed
  <2> QED BY <2>1, <2>2, UpdatesAre
<1> QED BY <1>1, <1>2, NoRowsFits DEF Evaluated, Job

(* The run whose batch has been answered.                                  *)
Answered == [job EXCEPT !.successful = @ \union DOMAIN job.batch]

LEMMA AnsweredFits ==
  ASSUME TypeInv
  PROVE  /\ Answered \in Job /\ Answered.date = job.date
         /\ Answered.snapshot = job.snapshot /\ Answered.page = job.page
         /\ Answered.todo = job.todo /\ Answered.batch = job.batch
         /\ Answered.resuming = job.resuming
         /\ Answered.successful = job.successful \union DOMAIN job.batch
         /\ Answered.failed = job.failed
<1>1. job \in Job /\ job.batch \in Updates
  BY DEF TypeInv, TypeOK, Job
<1>2. DOMAIN job.batch \subseteq RecordId
  BY <1>1, UpdatesAre
<1> QED BY <1>1, <1>2 DEF Answered, Job

(* The job after a page.                                                   *)
Counted(ph, offset, rows) ==
  [job EXCEPT !.phase = ph, !.offset = offset, !.snapshot = rows,
              !.page = NoRows, !.attempt = 1, !.again = FALSE]

LEMMA CountedFits ==
  ASSUME job \in Job, NEW ph \in Phase, NEW offset \in Nat, NEW rows \in Rows
  PROVE  /\ Counted(ph, offset, rows) \in Job
         /\ Counted(ph, offset, rows).phase = ph
         /\ Counted(ph, offset, rows).date = job.date
<1>1. 1 \in 1..MaxAttempts /\ NoRows \in Rows
  BY JobConstantsOK, NoRowsFits
<1> QED BY <1>1 DEF Counted, Job

(* A call that only moves the run on.                                      *)
LEMMA MoveFits ==
  ASSUME TypeInv, JobFits, UNCHANGED <<apiVars, outVars>>,
         job'.phase \in Unreported => job'.date \in Days,
         job'.phase \in {"put", "clear"} => pending \in Event
  PROVE  TypeInv'
BY DEF TypeInv, TypeOK, JobFits, apiVars, outVars

(* One step keeps the types.                                               *)
LEMMA StepTyped == TypeInv /\ [Next]_vars => TypeInv'
<1> SUFFICES ASSUME TypeInv, [Next]_vars PROVE TypeInv'
  OBVIOUS
<1> USE DEF Unreported
<1>a. /\ job \in Job /\ job.phase \in Phase /\ job.date \in Days \union {NoDay}
      /\ job.page \in Rows /\ job.snapshot \in Rows
      /\ job.todo \in Updates /\ job.batch \in Updates
      /\ job.successful \subseteq RecordId /\ job.offset \in Nat
      /\ job.caller \in {"fetch", "patch"} /\ job.resuming \in BOOLEAN
      /\ serving \in Updates /\ today \in Days
      /\ changed \subseteq RecordId /\ clean \in BOOLEAN
  BY DEF TypeInv, TypeOK, Job
<1>b. 1 \in 1..MaxAttempts
  BY JobConstantsOK
<1>c. InFlight \in Updates
  BY <1>a DEF InFlight
<1>1. CASE StartRun
  <2>1. CASE pending = NoEvent
    BY <1>1, <2>1, <1>a, IdleFits, MoveFits
    DEF StartRun, Goto, JobFits, Job, Phase
  <2>2. CASE pending # NoEvent
    <3>1. pending \in Event
      BY <2>2 DEF TypeInv, TypeOK
    <3>2. /\ job' = [Idle EXCEPT !.phase = "put", !.resuming = TRUE]
          /\ UNCHANGED <<changed, clean, apiVars, outVars>>
      BY <1>1, <2>2 DEF StartRun, Goto
    <3>3. JobFits /\ job'.phase = "put"
      BY <3>2, <1>a, IdleFits DEF JobFits, Job, Phase
    <3> QED BY <3>1, <3>2, <3>3, MoveFits
  <2> QED BY <2>1, <2>2
<1>2. CASE Begin
  <2>1. job' \in Job /\ job'.phase = "login" /\ job'.date \in Days
    BY <1>2, <1>a, IdleFits DEF Begin, Job, Phase
  <2>2. runId' \in RunId /\ bus' \subseteq Event
    BY <1>2 DEF Begin, TypeInv, TypeOK, RunId
  <2> QED BY <1>2, <2>1, <2>2 DEF Begin, TypeInv, TypeOK, apiVars
<1>3. CASE login
  BY <1>3, <1>a, <1>b, MoveFits
  DEF login, Calling, Goto, JobFits, Job, Phase, TypeInv
<1>4. CASE login_fails
  <2>1. /\ JobFits
        /\ \/ job'.phase = "idle"
           \/ job'.phase \in Unreported /\ job'.date = job.date
    BY <1>4, FailFits, GiveUpFits DEF login_fails
  <2> QED BY <1>4, <2>1, MoveFits DEF login_fails, Calling, TypeInv
<1>5. CASE fetch_rows
  <2>1. [id \in PageOf(job.offset) |-> table[id]] \in Rows
    <3> DEFINE rows == [id \in PageOf(job.offset) |-> table[id]]
    <3>1. PageOf(job.offset) \subseteq RecordId
      BY DEF PageOf, Selected
    <3>2. \A id \in PageOf(job.offset) : table[id] \in Row
      BY RowFits DEF PageOf, Selected
    <3> QED BY <3>1, <3>2, RowsAre
  <2>2. JobFits /\ job'.phase = "count" /\ job'.date = job.date
    BY <1>5, <2>1, <1>a DEF fetch_rows, Goto, JobFits, Job, Phase
  <2> QED BY <1>5, <2>2, MoveFits DEF fetch_rows, Calling, TypeInv
<1>6. CASE fetch_count
  <2> DEFINE next == job.offset + Cardinality(DOMAIN job.page)
             seen == DOMAIN job.snapshot \union DOMAIN job.page
             rows == [id \in seen |-> IF id \in DOMAIN job.page
                                       THEN job.page[id] ELSE job.snapshot[id]]
  <2>1. rows \in Rows
    <3>1. /\ DOMAIN job.page \subseteq RecordId
          /\ DOMAIN job.snapshot \subseteq RecordId
          /\ job.page \in [DOMAIN job.page -> Row]
          /\ job.snapshot \in [DOMAIN job.snapshot -> Row]
      BY <1>a, RowsAre
    <3>2. DOMAIN rows = seen /\ rows \in [seen -> Row]
      BY <3>1
    <3> QED BY <3>1, <3>2, RowsAre
  <2>2. next \in Nat
    <3>1. IsFiniteSet(DOMAIN job.page)
      BY <1>a, RowsAre, FS_Subset, JobConstantsOK
    <3> QED BY <3>1, <1>a, FS_CardinalityType
  <2>3. /\ job'.phase \in {"evaluate", "fetch"} /\ job'.date = job.date
        /\ JobFits
    <3> HIDE DEF next, rows
    <3>1. \E ph \in {"evaluate", "fetch"} : job' = Counted(ph, next, rows)
      BY <1>6 DEF fetch_count, Goto, Counted, next, rows
    <3>2. changed' = changed /\ clean' = clean
      BY <1>6 DEF fetch_count, Goto
    <3>3. PICK ph \in {"evaluate", "fetch"} : job' = Counted(ph, next, rows)
      BY <3>1
    <3>4. job \in Job /\ ph \in Phase
      BY <1>a DEF Phase
    <3>5. job' \in Job /\ job'.phase = ph /\ job'.date = job.date
      BY <3>3, <3>4, <2>1, <2>2, CountedFits
    <3> QED BY <3>2, <3>3, <3>5, <1>a DEF JobFits
  <2> QED BY <1>6, <2>3, MoveFits DEF fetch_count, Calling, TypeInv
<1>7. CASE fetch_fails
  <2>1. /\ JobFits
        /\ \/ job'.phase = "idle"
           \/ job'.phase \in Unreported /\ job'.date = job.date
    BY <1>7, FailFits, UnauthorizedFits DEF fetch_fails
  <2> QED BY <1>7, <2>1, MoveFits DEF fetch_fails, Calling, TypeInv
<1>8. CASE evaluate_records
  <2>1. NextBatch(Evaluated) /\ UNCHANGED <<apiVars, outVars>>
        /\ job.date \in Days
    BY <1>8 DEF evaluate_records, Calling, TypeInv, Evaluated, Found
  <2>2. JobFits /\ job'.date = job.date /\ job'.phase \in {"save", "patch"}
    BY <2>1, <1>a, EvaluatedFits, NextBatchIs, NextBatchFits DEF JobFits
  <2> QED BY <2>1, <2>2, MoveFits
<1>9. CASE bulk_status_update
  <2>1. serving' \in Updates
    BY <1>9, <1>a, Splitting DEF bulk_status_update
  <2>2. JobFits /\ job'.phase = "serve" /\ job'.date = job.date
    BY <1>9, <1>a DEF bulk_status_update, Goto, JobFits, Job, Phase
  <2> QED BY <1>9, <2>1, <2>2
          DEF bulk_status_update, Calling, TypeInv, TypeOK, JobFits, outVars
<1>10. ASSUME NEW s \in EvaluableStatus, bulk_apply(s) PROVE TypeInv'
  <2>1. serving' \in Updates
    BY <1>10, <1>a, Splitting DEF bulk_apply
  <2>2. table' \in [RecordId -> Row \union {None}]
    BY <1>10, UpdateFits DEF bulk_apply
  <2>3. changed' \subseteq RecordId
    BY <1>10, <1>a, UpdatesAre DEF bulk_apply, Of
  <2> QED BY <1>10, <2>1, <2>2, <2>3 DEF bulk_apply, TypeInv, TypeOK, outVars
<1>11. CASE bulk_answer
  <2>1. NextBatch(Answered) /\ UNCHANGED <<apiVars, outVars>>
        /\ job.date \in Days
    BY <1>11 DEF bulk_answer, Calling, TypeInv, Answered
  <2>2. JobFits /\ job'.date = job.date /\ job'.phase \in {"save", "patch"}
    BY <2>1, <1>a, AnsweredFits, NextBatchIs, NextBatchFits DEF JobFits
  <2> QED BY <2>1, <2>2, MoveFits
<1>12. CASE bulk_fails
  <2>1. /\ JobFits
        /\ \/ job'.phase = "idle"
           \/ job'.phase \in Unreported /\ job'.date = job.date
    BY <1>12, FailFits DEF bulk_fails
  <2>2. /\ late' \subseteq Updates /\ IsFiniteSet(late')
        /\ Cardinality(late') <= MaxLate
    BY <1>12, <1>c, AbandonFits DEF bulk_fails
  <2>3. serving' \in Updates
    BY <1>12, NoRowsFits DEF bulk_fails
  <2> QED BY <1>12, <2>1, <2>2, <2>3
          DEF bulk_fails, Calling, TypeInv, TypeOK, JobFits, outVars
<1>13. CASE bulk_unauthorized
  <2>1. /\ JobFits
        /\ \/ job'.phase = "idle"
           \/ job'.phase \in Unreported /\ job'.date = job.date
    BY <1>13, UnauthorizedFits DEF bulk_unauthorized
  <2> QED BY <1>13, <2>1, MoveFits DEF bulk_unauthorized, Calling, TypeInv
<1>14. CASE save_pending_event
  <2>1. pending' \in Event
    BY <1>14, <1>a
    DEF save_pending_event, Calling, Event, TypeInv, TypeOK
  <2>2. JobFits /\ job'.phase = "put"
    BY <1>14, <1>a, <1>b DEF save_pending_event, Goto, JobFits, Job, Phase
  <2> QED BY <1>14, <2>1, <2>2
          DEF save_pending_event, TypeInv, TypeOK, JobFits, apiVars
<1>15. CASE put_events
  <2>1. pending \in Event /\ bus' \subseteq Event
    BY <1>15 DEF put_events, Calling, TypeInv, TypeOK
  <2>2. JobFits /\ job'.phase = "clear"
    BY <1>15, <1>a, <1>b DEF put_events, Goto, JobFits, Job, Phase
  <2> QED BY <1>15, <2>1, <2>2
          DEF put_events, TypeInv, TypeOK, JobFits, apiVars
<1>16. CASE put_fails
  <2>1. pending \in Event /\ bus' \subseteq Event
    BY <1>16 DEF put_fails, Calling, TypeInv, TypeOK
  <2>2. JobFits /\ job'.phase \in {"idle", "put"}
    <3>1. Fail("put", "put")
      BY <1>16 DEF put_fails
    <3>2. CASE job.attempt < MaxAttempts
      <4>1. job' = [job EXCEPT !.phase = "put", !.attempt = job.attempt + 1,
                               !.page = NoRows]
        BY <3>1, <3>2 DEF Fail, Goto
      <4> QED BY <3>1, <4>1, <1>a, FailFits DEF Job
    <3>3. CASE ~(job.attempt < MaxAttempts)
      BY <3>1, <3>3, StopFits DEF Fail, GiveUp
    <3> QED BY <3>2, <3>3
  <2> QED BY <1>16, <2>1, <2>2
          DEF put_fails, TypeInv, TypeOK, JobFits, apiVars
<1>17. CASE clear_pending_event
  <2>1. JobFits /\ job'.phase \in {"idle", "start"}
    <3>1. CASE job.resuming
      BY <1>17, <3>1, <1>a, IdleFits
      DEF clear_pending_event, Goto, JobFits, Job, Phase
    <3>2. CASE ~job.resuming
      BY <1>17, <3>2, StopFits DEF clear_pending_event
    <3> QED BY <3>1, <3>2
  <2> QED BY <1>17, <2>1
          DEF clear_pending_event, TypeInv, TypeOK, JobFits, apiVars
<1>18. CASE Lingers
  <2>1. PICK items \in late, s \in EvaluableStatus : LateUpdate(items, s)
    BY <1>18 DEF Lingers
  <2> DEFINE rest == Drop(items, Of(s, items))
  <2>2. items \in Updates /\ rest \in Updates
    BY Splitting DEF TypeInv, TypeOK
  <2>3. table' \in [RecordId -> Row \union {None}]
    BY <2>1, UpdateFits DEF LateUpdate
  <2>4. /\ late' \subseteq Updates /\ IsFiniteSet(late')
        /\ Cardinality(late') <= MaxLate
    <3> HIDE DEF rest
    <3>1. /\ IsFiniteSet(late) /\ Cardinality(late) <= MaxLate
          /\ Cardinality(late) \in Nat
      BY FS_CardinalityType DEF TypeInv, TypeOK
    <3>2. /\ IsFiniteSet(late \ {items})
          /\ Cardinality(late \ {items}) = Cardinality(late) - 1
      BY <3>1, FS_RemoveElement
    <3>3. /\ IsFiniteSet((late \ {items}) \union {rest})
          /\ Cardinality((late \ {items}) \union {rest})
               \in {Cardinality(late) - 1, Cardinality(late)}
      BY <3>1, <3>2, FS_AddElement
    <3>4. late' = ((late \ {items}) \union {rest}) \ {NoRows}
      BY <2>1 DEF LateUpdate, rest
    <3>5. IsFiniteSet(late') /\ Cardinality(late') \in Nat
          /\ Cardinality(late') <= Cardinality((late \ {items}) \union {rest})
      BY <3>3, <3>4, FS_Subset, FS_CardinalityType
    <3> QED BY <3>1, <3>3, <3>4, <3>5, <2>2, JobConstantsOK
            DEF TypeInv, TypeOK
  <2> QED BY <2>1, <2>3, <2>4, <1>a
          DEF LateUpdate, Disturb, TypeInv, TypeOK
<1>19. CASE Crash
  <2>1. JobFits /\ job'.phase = "idle"
    BY <1>19, StopFits DEF Crash
  <2>2. /\ late' \subseteq Updates /\ IsFiniteSet(late')
        /\ Cardinality(late') <= MaxLate
    BY <1>19, <1>c, AbandonFits DEF Crash
  <2> QED BY <1>19, <2>1, <2>2, NoRowsFits
          DEF Crash, TypeInv, TypeOK, JobFits, outVars
<1>20. CASE ClientWrites
  <2>1. ASSUME NEW id \in RecordId, NEW d \in ExpiryDates,
               Create(id, d) \/ Correct(id, d)
        PROVE  TypeInv'
    <3>1. Dated(d) \in Row
      BY StatusRule DEF Dated, Row, Status
    <3> QED BY <2>1, <3>1, PutFits DEF Create, Correct
  <2>2. ASSUME NEW id \in RecordId, NEW s \in TerminalStatus, Close(id, s)
        PROVE  TypeInv'
    <3>1. [table[id] EXCEPT !.status = s] \in Row
      BY <2>2, RowFits DEF Close, Live, Row, Status
    <3> QED BY <2>2, <3>1, PutFits DEF Close
  <2> QED BY <1>20, <2>1, <2>2 DEF ClientWrites
<1>21. CASE NextDay
  BY <1>21, <1>a DEF NextDay, Disturb, TypeInv, TypeOK
<1>22. CASE UNCHANGED vars
  BY <1>22 DEF vars, TypeInv, TypeOK
<1> QED
  BY <1>1, <1>2, <1>3, <1>4, <1>5, <1>6, <1>7, <1>8, <1>9, <1>10, <1>11,
     <1>12, <1>13, <1>14, <1>15, <1>16, <1>17, <1>18, <1>19, <1>20, <1>21,
     <1>22
  DEF Next, Works, Fails

THEOREM TypesKept == Spec => []TypeInv
<1>1. Init => TypeInv
  BY InitTyped
<1>2. TypeInv /\ [Next]_vars => TypeInv'
  BY StepTyped
<1> QED BY <1>1, <1>2, PTL DEF Spec

(* The job's locals, the pending file, the bus and the table hold what     *)
(* they are meant to hold, in every state.                                 *)
THEOREM JobTypes == Spec => []TypeOK
<1>1. TypeInv => TypeOK
  BY DEF TypeInv
<1> QED BY <1>1, TypesKept, PTL

-----------------------------------------------------------------------------
(* Phases, locals and events.                                              *)

LEMMA InitRun == Init => RunInv
BY NoRowsFits
DEF Init, RunInv, EventInv, LocalsInv, Idle, Unreported, Fetching, Patching

(* The process ends and leaves the event as it is.                         *)
LEMMA StopRun ==
  ASSUME RunInv, Stop, serving' = NoRows, UNCHANGED outVars
  PROVE  RunInv'
BY IdleFits
DEF Stop, RunInv, EventInv, LocalsInv, Unreported, Fetching, Patching, outVars

(* The run goes on with the next batch, or with its event.                 *)
LEMMA BatchRun ==
  ASSUME RunInv, job.phase \in Unreported, NEW j \in Job, NextBatch(j),
         j.page = NoRows, j.snapshot = NoRows, ~j.resuming,
         serving' = NoRows, UNCHANGED outVars
  PROVE  RunInv'
<1>1. /\ job'.phase \in {"save", "patch"}
      /\ job'.phase = "save" => job'.batch = NoRows
      /\ job'.page = NoRows /\ job'.snapshot = NoRows /\ ~job'.resuming
  <2>1. CASE job' = [j EXCEPT !.phase = "save", !.batch = NoRows]
    BY <2>1 DEF Job
  <2>2. ASSUME NEW ids,
               job' = [j EXCEPT !.phase = "patch", !.attempt = 1,
                                !.again = FALSE, !.batch = Keep(j.todo, ids),
                                !.todo = Drop(j.todo, ids)]
        PROVE  /\ job'.phase = "patch"
               /\ job'.page = NoRows /\ job'.snapshot = NoRows
               /\ ~job'.resuming
    BY <2>2 DEF Job
  <2> QED BY <2>1, <2>2, NextBatchIs
<1> QED BY <1>1
        DEF RunInv, EventInv, LocalsInv, Unreported, Fetching, Patching,
            outVars

(* A call that is given up while batches are sent costs that batch.        *)
LEMMA GiveUpRun ==
  ASSUME TypeInv, RunInv, NEW call, GiveUp(call),
         call = "patch" => Patching,
         serving' = NoRows, UNCHANGED outVars
  PROVE  RunInv'
<1>1. CASE call = "patch"
  <2> DEFINE j == [job EXCEPT !.failed = TRUE]
  <2>1. Patching
    BY <1>1
  <2>2. /\ job \in Job /\ job.phase \in Unreported
        /\ job.page = NoRows /\ job.snapshot = NoRows /\ ~job.resuming
    BY <2>1
    DEF Patching, Fetching, Unreported, RunInv, LocalsInv, TypeInv, TypeOK,
        Job
  <2>3. /\ j \in Job
        /\ j.page = NoRows /\ j.snapshot = NoRows /\ ~j.resuming
    BY <2>2 DEF Job
  <2>4. NextBatch(j)
    BY <1>1 DEF GiveUp
  <2> HIDE DEF j
  <2> QED BY <2>2, <2>3, <2>4, BatchRun
<1>2. CASE call # "patch"
  BY <1>2, StopRun DEF GiveUp
<1> QED BY <1>1, <1>2

(* The same call, or one the run can go back to, is made again.            *)
LEMMA FailRun ==
  ASSUME TypeInv, RunInv, NEW p, NEW call, Fail(p, call),
         \/ p = "login" /\ job.phase = "login"
         \/ p = "fetch" /\ job.phase \in {"fetch", "count"}
         \/ p = "patch" /\ job.phase \in {"patch", "serve"}
         \/ p = "put" /\ job.phase = "put",
         call = "patch" => Patching,
         serving' = NoRows,
         pending' = pending, runId' = runId,
         p # "put" => bus' = bus
  PROVE  RunInv'
<1>1. CASE job.attempt < MaxAttempts
  <2>1. job' = [job EXCEPT !.phase = p, !.attempt = job.attempt + 1,
                           !.page = NoRows]
    BY <1>1 DEF Fail, Goto
  <2>2. job \in Job
    BY DEF TypeInv, TypeOK
  <2>3. /\ job'.phase = p /\ job'.page = NoRows
        /\ job'.snapshot = job.snapshot /\ job'.batch = job.batch
        /\ job'.caller = job.caller /\ job'.resuming = job.resuming
        /\ job'.successful = job.successful /\ job'.failed = job.failed
    BY <2>1, <2>2 DEF Job
  <2> QED BY <2>3
          DEF RunInv, EventInv, LocalsInv, Unreported, Fetching, Patching
<1>2. CASE ~(job.attempt < MaxAttempts)
  <2>1. GiveUp(call)
    BY <1>2 DEF Fail
  <2>2. CASE p = "put"
    <3>1. Stop
      BY <2>1, <2>2 DEF GiveUp, Patching
    <3> QED BY <2>2, <3>1, IdleFits
            DEF Stop, RunInv, EventInv, LocalsInv, Unreported, Fetching,
                Patching
  <2>3. CASE p # "put"
    BY <2>1, <2>3, GiveUpRun DEF outVars
  <2> QED BY <2>2, <2>3
<1> QED BY <1>1, <1>2

LEMMA UnauthorizedRun ==
  ASSUME TypeInv, RunInv, NEW call, Unauthorized(call),
         \/ call = "fetch" /\ job.phase = "fetch"
         \/ call = "patch" /\ job.phase = "patch",
         serving' = NoRows, UNCHANGED outVars
  PROVE  RunInv'
<1>1. CASE job.again
  BY <1>1, GiveUpRun DEF Unauthorized, Patching
<1>2. CASE ~job.again
  <2>1. job' = [job EXCEPT !.phase = "login", !.attempt = 1, !.again = TRUE,
                           !.caller = call]
    BY <1>2 DEF Unauthorized, Goto
  <2>2. job \in Job
    BY DEF TypeInv, TypeOK
  <2>3. /\ job'.phase = "login" /\ job'.caller = call
        /\ job'.page = job.page
        /\ job'.snapshot = job.snapshot /\ job'.batch = job.batch
        /\ job'.resuming = job.resuming
        /\ job'.successful = job.successful /\ job'.failed = job.failed
    BY <2>1, <2>2 DEF Job
  <2> QED BY <2>3
          DEF RunInv, EventInv, LocalsInv, Unreported, Fetching, Patching,
              outVars
<1> QED BY <1>1, <1>2

(* Only the API's own updates move while a batch is served.                *)
LEMMA ServingIdle ==
  ASSUME RunInv, job.phase # "serve"
  PROVE  serving = NoRows
BY DEF RunInv, LocalsInv

(* One step keeps phase, locals and event in tune.                         *)
LEMMA StepRun == TypeInv /\ RunInv /\ [Next]_vars => RunInv'
<1> SUFFICES ASSUME TypeInv, RunInv, [Next]_vars PROVE RunInv'
  OBVIOUS
<1> USE DEF Calling
<1>a. job \in Job
  BY DEF TypeInv, TypeOK
<1>b. job.caller \in {"fetch", "patch"}
  BY <1>a DEF Job
<1>c. job.phase # "serve" => serving = NoRows
  BY ServingIdle
<1>1. CASE StartRun
  <2>1. CASE pending = NoEvent
    <3>1. job' = [Idle EXCEPT !.phase = "start"]
          /\ UNCHANGED <<serving, outVars>>
      BY <1>1, <2>1 DEF StartRun, Goto, apiVars
    <3>2. /\ job'.phase = "start" /\ job'.page = NoRows
          /\ job'.snapshot = NoRows /\ job'.batch = NoRows
          /\ ~job'.resuming
      BY <3>1, IdleFits DEF Job
    <3>3. serving = NoRows
      BY <1>1, <1>c DEF StartRun
    <3> QED BY <2>1, <3>1, <3>2, <3>3
            DEF RunInv, EventInv, LocalsInv, Unreported, outVars
  <2>2. CASE pending # NoEvent
    <3>1. job' = [Idle EXCEPT !.phase = "put", !.resuming = TRUE]
          /\ UNCHANGED <<serving, outVars>>
      BY <1>1, <2>2 DEF StartRun, Goto, apiVars
    <3>2. /\ job'.phase = "put" /\ job'.page = NoRows
          /\ job'.snapshot = NoRows /\ job'.batch = NoRows
          /\ job'.successful = {} /\ ~job'.failed
      BY <3>1, IdleFits DEF Job
    <3>3. serving = NoRows
      BY <1>1, <1>c DEF StartRun
    <3> QED BY <3>1, <3>2, <3>3
            DEF RunInv, EventInv, LocalsInv, Unreported, outVars
  <2> QED BY <2>1, <2>2
<1>2. CASE Begin
  <2>1. /\ job'.phase = "login" /\ job'.page = NoRows
        /\ job'.snapshot = NoRows /\ job'.batch = NoRows /\ ~job'.resuming
    BY <1>2, IdleFits DEF Begin, Job
  <2>2. \A e \in bus' : e.run # runId'
    BY <1>2 DEF Begin
  <2>3. serving' = NoRows
    BY <1>2, <1>c DEF Begin, apiVars
  <2>4. pending' = NoEvent
    BY <1>2 DEF Begin, RunInv, EventInv
  <2> QED BY <2>1, <2>2, <2>3, <2>4 DEF RunInv, EventInv, LocalsInv
<1>3. CASE login
  <2>1. /\ job'.phase = job.caller /\ job'.caller = job.caller
        /\ job'.page = job.page /\ job'.snapshot = job.snapshot
        /\ job'.batch = job.batch /\ job'.resuming = job.resuming
        /\ job'.successful = job.successful /\ job'.failed = job.failed
    BY <1>3, <1>a DEF login, Goto, Job
  <2> QED BY <1>3, <2>1, <1>b, <1>c
          DEF login, RunInv, EventInv, LocalsInv, Unreported, Fetching,
              Patching, apiVars, outVars
<1>4. CASE login_fails
  <2>1. job.caller = "patch" => Patching
    BY <1>4 DEF login_fails, Patching
  <2>2. serving' = NoRows /\ UNCHANGED outVars
    BY <1>4, <1>c DEF login_fails, apiVars
  <2>3. CASE Fail("login", job.caller)
    BY <1>4, <2>1, <2>2, <2>3, FailRun DEF login_fails, outVars
  <2>4. CASE GiveUp(job.caller)
    BY <2>1, <2>2, <2>4, GiveUpRun
  <2> QED BY <1>4, <2>3, <2>4 DEF login_fails
<1>5. CASE fetch_rows
  <2>1. /\ job'.phase = "count"
        /\ job'.snapshot = job.snapshot
        /\ job'.batch = job.batch /\ job'.resuming = job.resuming
        /\ job'.successful = job.successful /\ job'.failed = job.failed
    BY <1>5, <1>a DEF fetch_rows, Goto, Job
  <2> QED BY <1>5, <2>1, <1>c
          DEF fetch_rows, RunInv, EventInv, LocalsInv, Unreported, Fetching,
              Patching, apiVars, outVars
<1>6. CASE fetch_count
  <2>1. \E ph \in {"evaluate", "fetch"} : \E next, rows :
          job' = [job EXCEPT !.phase = ph, !.offset = next,
                             !.snapshot = rows, !.page = NoRows,
                             !.attempt = 1, !.again = FALSE]
    BY <1>6 DEF fetch_count, Goto
  <2>2. /\ job'.phase \in {"evaluate", "fetch"}
        /\ job'.page = NoRows
        /\ job'.batch = job.batch /\ job'.resuming = job.resuming
        /\ job'.successful = job.successful /\ job'.failed = job.failed
    BY <2>1, <1>a DEF Job
  <2> QED BY <1>6, <2>2, <1>c
          DEF fetch_count, RunInv, EventInv, LocalsInv, Unreported, Fetching,
              Patching, apiVars, outVars
<1>7. CASE fetch_fails
  <2>1. serving' = NoRows /\ UNCHANGED outVars
    BY <1>7, <1>c DEF fetch_fails, apiVars
  <2>2. CASE Fail("fetch", "fetch")
    BY <1>7, <2>1, <2>2, FailRun DEF fetch_fails, outVars
  <2>3. CASE job.phase = "fetch" /\ Unauthorized("fetch")
    BY <2>1, <2>3, UnauthorizedRun
  <2> QED BY <1>7, <2>2, <2>3 DEF fetch_fails
<1>8. CASE evaluate_records
  <2>1. NextBatch(Evaluated) /\ UNCHANGED <<serving, outVars>>
        /\ job.phase = "evaluate"
    BY <1>8 DEF evaluate_records, Evaluated, Found, apiVars
  <2>2. /\ Evaluated.page = NoRows /\ Evaluated.snapshot = NoRows
        /\ ~Evaluated.resuming /\ serving' = NoRows
    BY <2>1, <1>c, EvaluatedFits DEF RunInv, LocalsInv
  <2> QED BY <2>1, <2>2, EvaluatedFits, BatchRun DEF Unreported
<1>9. CASE bulk_status_update
  <2>1. job.phase = "patch" /\ UNCHANGED outVars
        /\ job' = [job EXCEPT !.phase = "serve"]
    BY <1>9 DEF bulk_status_update, Goto
  <2>2. /\ job'.phase = "serve"
        /\ job'.page = job.page /\ job'.snapshot = job.snapshot
        /\ job'.batch = job.batch /\ job'.resuming = job.resuming
        /\ job'.successful = job.successful /\ job'.failed = job.failed
    BY <2>1, <1>a DEF Job
  <2> QED BY <2>1, <2>2
          DEF RunInv, EventInv, LocalsInv, Unreported, Fetching, Patching,
              outVars
<1>10. ASSUME NEW s \in EvaluableStatus, bulk_apply(s) PROVE RunInv'
  BY <1>10
  DEF bulk_apply, RunInv, EventInv, LocalsInv, Unreported, Fetching, Patching,
      outVars
<1>11. CASE bulk_answer
  <2>1. NextBatch(Answered) /\ UNCHANGED <<serving, outVars>>
        /\ job.phase = "serve" /\ serving = NoRows
    BY <1>11 DEF bulk_answer, Answered, apiVars
  <2>2. /\ Answered.page = NoRows /\ Answered.snapshot = NoRows
        /\ ~Answered.resuming /\ serving' = NoRows
    BY <2>1, AnsweredFits DEF RunInv, LocalsInv, Fetching
  <2> QED BY <2>1, <2>2, AnsweredFits, BatchRun DEF Unreported
<1>12. CASE bulk_fails
  <2>1. Patching /\ serving' = NoRows /\ UNCHANGED outVars
    BY <1>12 DEF bulk_fails, Patching
  <2> QED BY <1>12, <2>1, FailRun DEF bulk_fails, outVars
<1>13. CASE bulk_unauthorized
  BY <1>13, <1>c, UnauthorizedRun DEF bulk_unauthorized, apiVars
<1>14. CASE save_pending_event
  <2>1. /\ job.phase = "save" /\ UNCHANGED <<serving, bus, runId>>
        /\ job' = [job EXCEPT !.phase = "put", !.attempt = 1,
                              !.again = FALSE]
    BY <1>14 DEF save_pending_event, Goto, apiVars
  <2>2. /\ job'.phase = "put"
        /\ job'.page = job.page /\ job'.snapshot = job.snapshot
        /\ job'.batch = job.batch /\ job'.resuming = job.resuming
    BY <2>1, <1>a DEF Job
  <2> QED BY <2>1, <2>2, <1>c
          DEF RunInv, EventInv, LocalsInv, Unreported, Fetching, Patching
<1>15. CASE put_events
  <2>1. /\ job.phase = "put" /\ UNCHANGED <<serving, pending, runId>>
        /\ bus' = bus \union {pending}
        /\ job' = [job EXCEPT !.phase = "clear", !.attempt = 1]
    BY <1>15 DEF put_events, Goto, apiVars
  <2>2. /\ job'.phase = "clear"
        /\ job'.page = job.page /\ job'.snapshot = job.snapshot
        /\ job'.batch = job.batch /\ job'.resuming = job.resuming
        /\ job'.successful = job.successful /\ job'.failed = job.failed
    BY <2>1, <1>a DEF Job
  <2> QED BY <2>1, <2>2, <1>c
          DEF RunInv, EventInv, LocalsInv, Unreported, Fetching, Patching
<1>16. CASE put_fails
  <2>1. ~Patching /\ serving' = NoRows
    BY <1>16, <1>c DEF put_fails, Patching, apiVars
  <2> QED BY <1>16, <2>1, FailRun DEF put_fails
<1>17. CASE clear_pending_event
  <2>1. /\ job.phase = "clear" /\ UNCHANGED <<bus, runId>>
        /\ pending' = NoEvent /\ serving' = NoRows
    BY <1>17, <1>c DEF clear_pending_event, apiVars
  <2>2. CASE job.resuming
    <3>1. job' = [Idle EXCEPT !.phase = "start"]
      BY <1>17, <2>2 DEF clear_pending_event, Goto
    <3>2. /\ job'.phase = "start" /\ job'.page = NoRows
          /\ job'.snapshot = NoRows /\ job'.batch = NoRows
          /\ ~job'.resuming
      BY <3>1, IdleFits DEF Job
    <3> QED BY <2>1, <3>1, <3>2
            DEF RunInv, EventInv, LocalsInv, Unreported
  <2>3. CASE ~job.resuming
    BY <1>17, <2>1, <2>3, IdleFits
    DEF clear_pending_event, Stop, RunInv, EventInv, LocalsInv, Unreported
  <2> QED BY <2>2, <2>3
<1>18. CASE Lingers
  BY <1>18
  DEF Lingers, LateUpdate, RunInv, EventInv, LocalsInv, Unreported, Fetching,
      Patching
<1>19. CASE Crash
  BY <1>19, StopRun DEF Crash
<1>20. CASE ClientWrites
  BY <1>20
  DEF ClientWrites, Create, Correct, Close, Put, RunInv, EventInv, LocalsInv,
      Unreported, Fetching, Patching
<1>21. CASE NextDay
  BY <1>21
  DEF NextDay, RunInv, EventInv, LocalsInv, Unreported, Fetching, Patching
<1>22. CASE UNCHANGED vars
  BY <1>22
  DEF vars, RunInv, EventInv, LocalsInv, Unreported, Fetching, Patching
<1> QED
  BY <1>1, <1>2, <1>3, <1>4, <1>5, <1>6, <1>7, <1>8, <1>9, <1>10, <1>11,
     <1>12, <1>13, <1>14, <1>15, <1>16, <1>17, <1>18, <1>19, <1>20, <1>21,
     <1>22
  DEF Next, Works, Fails

THEOREM RunKept == Spec => []RunInv
<1>1. Init => RunInv
  BY InitRun
<1>2. TypeInv /\ RunInv /\ [Next]_vars => RunInv'
  BY StepRun
<1> QED BY <1>1, <1>2, TypesKept, PTL DEF Spec

(* What the job does to the pending file and the bus are steps of the      *)
(* outbox: an event is written when none waits and none of its run was     *)
(* sent, is sent as it was written, and is forgotten once the bus has it.  *)
THEOREM OutboxSteps == Spec => Outbox!Init /\ [][Outbox!Next]_(Outbox!vars)
<1>1. Init => Outbox!Init
  BY DEF Init, Outbox!Init
<1>2. TypeInv /\ RunInv /\ [Next]_vars => [Outbox!Next]_(Outbox!vars)
  <2> SUFFICES ASSUME TypeInv, RunInv, [Next]_vars
               PROVE  [Outbox!Next]_(Outbox!vars)
    OBVIOUS
  <2> USE DEF Outbox!Next, Outbox!vars
  <2>1. CASE Begin
    <3>1. 1 - runId \in RunId
      BY DEF TypeInv, TypeOK, RunId
    <3>2. pending = NoEvent
      BY <2>1 DEF Begin, Calling, RunInv, EventInv
    <3> QED BY <2>1, <3>1, <3>2 DEF Begin, Outbox!Name
  <2>2. CASE save_pending_event
    <3>1. pending' \in Event /\ pending'.run = runId
      BY <2>2 DEF save_pending_event, Calling, Event, TypeInv, TypeOK,
                  Unreported, Job
    <3>2. pending = NoEvent /\ \A e \in bus : e.run # runId
      BY <2>2 DEF save_pending_event, Calling, RunInv, EventInv, Unreported
    <3> QED BY <2>2, <3>1, <3>2 DEF save_pending_event, Outbox!Write
  <2>3. CASE put_events \/ put_fails
    <3>1. pending # NoEvent
      BY <2>3
      DEF put_events, put_fails, Calling, TypeInv, Event, NoEvent, RunId
    <3> QED BY <2>3, <3>1 DEF put_events, put_fails, Outbox!Deliver
  <2>4. CASE clear_pending_event
    BY <2>4
    DEF clear_pending_event, Calling, RunInv, EventInv, Outbox!Forget
  <2>5. CASE \/ StartRun \/ login \/ fetch_rows \/ fetch_count
             \/ evaluate_records \/ bulk_status_update \/ bulk_answer
             \/ \E s \in EvaluableStatus : bulk_apply(s)
             \/ login_fails \/ fetch_fails \/ bulk_fails
             \/ bulk_unauthorized \/ Lingers \/ Crash \/ ClientWrites
             \/ NextDay \/ UNCHANGED vars
    BY <2>5
    DEF StartRun, login, fetch_rows, fetch_count, evaluate_records,
        bulk_status_update, bulk_answer, bulk_apply, login_fails,
        fetch_fails, bulk_fails, bulk_unauthorized, Lingers, LateUpdate,
        Crash, ClientWrites, Create, Correct, Close, Put, NextDay, vars,
        outVars
  <2> QED BY <2>1, <2>2, <2>3, <2>4, <2>5 DEF Next, Works, Fails
<1> QED BY <1>1, <1>2, TypesKept, RunKept, PTL DEF Spec

-----------------------------------------------------------------------------
(* Updates and dates.                                                      *)

LEMMA RankFits == \A s : Rank(s) \in Nat
BY DEF Rank

Table == [RecordId -> Row \union {None}]

(* Rows stay, with their dates, but for those that clients correct.        *)
KeepsDates(old, new) ==
  \A id \in RecordId \ Correctable :
    old[id] # None => new[id] # None /\ new[id].expiry = old[id].expiry

LEMMA TimelyLater ==
  ASSUME NEW s, NEW row \in Row, NEW row2 \in Row, row2.expiry = row.expiry,
         NEW d \in Days, NEW e \in Days, d <= e, Timely(s, row, d)
  PROVE  Timely(s, row2, e)
<1>1. row.expiry \in Nat /\ d \in Nat /\ e \in Nat /\ Buffer \in Nat
  BY JobConstantsOK DEF Row
<1>2. Rank(computeComplianceStatus(row.expiry, d, Buffer))
        <= Rank(computeComplianceStatus(row.expiry, e, Buffer))
  BY <1>1, StatusAdvances
<1>3. \A a, b, c \in Nat : a <= b /\ b <= c => a <= c
  OBVIOUS
<1>4. /\ Rank(s) \in Nat
      /\ Rank(computeComplianceStatus(row.expiry, d, Buffer)) \in Nat
      /\ Rank(computeComplianceStatus(row.expiry, e, Buffer)) \in Nat
  BY RankFits
<1>5. Rank(s) <= Rank(computeComplianceStatus(row.expiry, d, Buffer))
  BY DEF Timely
<1>6. Rank(s) <= Rank(computeComplianceStatus(row.expiry, e, Buffer))
  BY <1>2, <1>3, <1>4, <1>5
<1> QED BY <1>6 DEF Timely

LEMMA JustifiedLater ==
  ASSUME NEW tbl \in Table, NEW tbl2 \in Table, KeepsDates(tbl, tbl2),
         NEW d \in Days, NEW e \in Days, d <= e,
         NEW u \in Updates, Justified(u, tbl, d)
  PROVE  Justified(u, tbl2, e)
<1> SUFFICES ASSUME NEW id \in DOMAIN u \ Correctable
             PROVE  tbl2[id] # None /\ Timely(u[id], tbl2[id], e)
  BY DEF Justified
<1>1. id \in RecordId
  BY UpdatesAre
<1>2. /\ tbl[id] # None /\ Timely(u[id], tbl[id], d)
      /\ tbl2[id] # None /\ tbl2[id].expiry = tbl[id].expiry
  BY <1>1 DEF Justified, KeepsDates
<1>3. tbl[id] \in Row /\ tbl2[id] \in Row
  BY <1>1, <1>2 DEF Table
<1> QED BY <1>2, <1>3, TimelyLater

LEMMA DatesKnownLater ==
  ASSUME NEW tbl, NEW tbl2, KeepsDates(tbl, tbl2),
         NEW rows \in Rows, DatesKnown(rows, tbl)
  PROVE  DatesKnown(rows, tbl2)
BY RowsAre DEF DatesKnown, KeepsDates

LEMMA TimelyJobLater ==
  ASSUME NEW tbl \in Table, NEW tbl2 \in Table, KeepsDates(tbl, tbl2),
         NEW d \in Days, NEW e \in Days, d <= e,
         NEW j \in Job, TimelyJob(j, tbl, d)
  PROVE  TimelyJob(j, tbl2, e)
<1>1. /\ j.page \in Rows /\ j.snapshot \in Rows
      /\ j.todo \in Updates /\ j.batch \in Updates
      /\ j.date \in Days \union {NoDay}
  BY DEF Job
<1>2. Justified(j.todo, tbl2, e) /\ Justified(j.batch, tbl2, e)
  BY <1>1, JustifiedLater DEF TimelyJob
<1>3. DatesKnown(j.page, tbl2) /\ DatesKnown(j.snapshot, tbl2)
  BY <1>1, DatesKnownLater DEF TimelyJob
<1>4. ASSUME j.date # NoDay PROVE j.date <= e
  <2>1. j.date \in Nat /\ d \in Nat /\ e \in Nat
    BY <1>1, <1>4, JobConstantsOK
  <2>2. j.date <= d
    BY <1>4 DEF TimelyJob
  <2> QED BY <2>1, <2>2
<1> QED BY <1>2, <1>3, <1>4 DEF TimelyJob

LEMMA NothingTimely ==
  ASSUME NEW tbl, NEW d
  PROVE  Justified(NoRows, tbl, d) /\ DatesKnown(NoRows, tbl)
BY NoRowsFits DEF Justified, DatesKnown

LEMMA IdleTimely ==
  ASSUME NEW tbl, NEW d
  PROVE  TimelyJob(Idle, tbl, d)
BY IdleFits, NothingTimely DEF TimelyJob

(* A part of a justified batch is justified.                               *)
LEMMA PartTimely ==
  ASSUME NEW u \in Updates, NEW S, NEW tbl, NEW d, Justified(u, tbl, d)
  PROVE  Justified(Keep(u, S), tbl, d) /\ Justified(Drop(u, S), tbl, d)
<1>1. DOMAIN Keep(u, S) = DOMAIN u \intersect S
  BY Splitting
<1>2. DOMAIN Drop(u, S) = DOMAIN u \ S
  BY Splitting
<1>3. \A id \in DOMAIN Keep(u, S) : Keep(u, S)[id] = u[id]
  BY Splitting
<1>4. \A id \in DOMAIN Drop(u, S) : Drop(u, S)[id] = u[id]
  BY Splitting
<1>5. Justified(Keep(u, S), tbl, d)
  BY <1>1, <1>3 DEF Justified
<1>6. Justified(Drop(u, S), tbl, d)
  BY <1>2, <1>4 DEF Justified
<1> QED BY <1>5, <1>6

LEMMA NextBatchTimely ==
  ASSUME NEW j \in Job, NEW tbl, NEW d, TimelyJob(j, tbl, d), NextBatch(j)
  PROVE  TimelyJob(job', tbl, d)
<1>1. j.todo \in Updates
  BY DEF Job
<1>2. CASE job' = [j EXCEPT !.phase = "save", !.batch = NoRows]
  <2>1. /\ job'.date = j.date /\ job'.page = j.page
        /\ job'.snapshot = j.snapshot /\ job'.todo = j.todo
        /\ job'.batch = NoRows
    BY <1>2 DEF Job
  <2> QED BY <2>1, NothingTimely DEF TimelyJob
<1>3. ASSUME NEW ids,
             job' = [j EXCEPT !.phase = "patch", !.attempt = 1,
                              !.again = FALSE, !.batch = Keep(j.todo, ids),
                              !.todo = Drop(j.todo, ids)]
      PROVE  TimelyJob(job', tbl, d)
  <2>1. /\ job'.date = j.date /\ job'.page = j.page
        /\ job'.snapshot = j.snapshot
        /\ job'.batch = Keep(j.todo, ids) /\ job'.todo = Drop(j.todo, ids)
    BY <1>3 DEF Job
  <2> QED BY <1>1, <2>1, PartTimely DEF TimelyJob
<1> QED BY <1>2, <1>3, NextBatchIs

LEMMA GiveUpTimely ==
  ASSUME job \in Job, NEW tbl, NEW d, TimelyJob(job, tbl, d),
         NEW call, GiveUp(call)
  PROVE  TimelyJob(job', tbl, d)
<1>1. CASE call = "patch"
  <2> DEFINE j == [job EXCEPT !.failed = TRUE]
  <2>1. /\ j \in Job /\ j.date = job.date /\ j.page = job.page
        /\ j.snapshot = job.snapshot /\ j.todo = job.todo
        /\ j.batch = job.batch
    BY DEF Job
  <2>2. NextBatch(j)
    BY <1>1 DEF GiveUp
  <2> HIDE DEF j
  <2>3. TimelyJob(j, tbl, d)
    BY <2>1 DEF TimelyJob
  <2> QED BY <2>1, <2>2, <2>3, NextBatchTimely
<1>2. CASE call # "patch"
  BY <1>2, IdleTimely DEF GiveUp, Stop
<1> QED BY <1>1, <1>2

LEMMA FailTimely ==
  ASSUME job \in Job, NEW tbl, NEW d, TimelyJob(job, tbl, d),
         NEW p, NEW call, Fail(p, call)
  PROVE  TimelyJob(job', tbl, d)
<1>1. CASE job.attempt < MaxAttempts
  <2>1. job' = [job EXCEPT !.phase = p, !.attempt = job.attempt + 1,
                           !.page = NoRows]
    BY <1>1 DEF Fail, Goto
  <2>2. /\ job'.date = job.date /\ job'.page = NoRows
        /\ job'.snapshot = job.snapshot /\ job'.todo = job.todo
        /\ job'.batch = job.batch
    BY <2>1 DEF Job
  <2> QED BY <2>2, NothingTimely DEF TimelyJob
<1>2. CASE ~(job.attempt < MaxAttempts)
  BY <1>2, GiveUpTimely DEF Fail
<1> QED BY <1>1, <1>2

LEMMA UnauthorizedTimely ==
  ASSUME job \in Job, NEW tbl, NEW d, TimelyJob(job, tbl, d),
         NEW call, Unauthorized(call)
  PROVE  TimelyJob(job', tbl, d)
<1>1. CASE job.again
  BY <1>1, GiveUpTimely DEF Unauthorized
<1>2. CASE ~job.again
  <2>1. job' = [job EXCEPT !.phase = "login", !.attempt = 1, !.again = TRUE,
                           !.caller = call]
    BY <1>2 DEF Unauthorized, Goto
  <2>2. /\ job'.date = job.date /\ job'.page = job.page
        /\ job'.snapshot = job.snapshot /\ job'.todo = job.todo
        /\ job'.batch = job.batch
    BY <2>1 DEF Job
  <2> QED BY <2>2 DEF TimelyJob
<1> QED BY <1>1, <1>2

(* An UPDATE of a bulk request moves statuses and nothing else.            *)
LEMMA UpdateKeeps ==
  ASSUME TypeInv, NEW s \in EvaluableStatus, NEW items, UpdateTo(s, items)
  PROVE  /\ KeepsDates(table, table')
         /\ \A id \in RecordId :
              \/ table'[id] = table[id]
              \/ /\ id \in Writable(items) /\ items[id] = s
                 /\ table'[id] # None
                 /\ table'[id].expiry = table[id].expiry
                 /\ table'[id].status = s
<1> SUFFICES ASSUME NEW id \in RecordId
             PROVE  \/ table'[id] = table[id]
                    \/ /\ id \in Writable(items) /\ items[id] = s
                       /\ table'[id] # None
                       /\ table'[id].expiry = table[id].expiry
                       /\ table'[id].status = s
  BY DEF KeepsDates
<1>1. CASE id \in Writable(items) /\ items[id] = s
  <2>1. table[id] \in Row
    BY <1>1, RowFits DEF Writable, Live
  <2>2. table'[id] = [table[id] EXCEPT !.status = s]
    BY <1>1 DEF UpdateTo
  <2>3. table'[id] \in Row
    BY <2>1, <2>2 DEF Row, Status
  <2>4. table'[id] # None
    BY <2>3, JobConstantsOK DEF Row
  <2> QED BY <1>1, <2>1, <2>2, <2>4 DEF Row
<1>2. CASE ~(id \in Writable(items) /\ items[id] = s)
  BY <1>2 DEF UpdateTo
<1> QED BY <1>1, <1>2

LEMMA UpdateTimely ==
  ASSUME TypeInv, NeverEarly, NEW s \in EvaluableStatus,
         NEW items, Justified(items, table, today),
         UpdateTo(s, items), today' = today
  PROVE  NeverEarly'
<1> SUFFICES ASSUME NEW id \in RecordId \ Correctable, Live(id)'
             PROVE  (Rank(table[id].status) <= Rank(Due(id)))'
  BY DEF NeverEarly
<1>1. CASE table'[id] = table[id]
  <2>1. Live(id)
    BY <1>1 DEF Live
  <2>2. Rank(table[id].status) <= Rank(Due(id))
    BY <2>1 DEF NeverEarly
  <2> QED BY <1>1, <2>2 DEF Due
<1>2. CASE /\ id \in Writable(items) /\ items[id] = s
           /\ table'[id].expiry = table[id].expiry
           /\ table'[id].status = s
  <2>1. id \in DOMAIN items
    BY <1>2 DEF Writable
  <2>2. Timely(s, table[id], today)
    BY <1>2, <2>1 DEF Justified
  <2> QED BY <1>2, <2>2 DEF Timely, Due
<1> QED BY <1>1, <1>2, UpdateKeeps

(* What clients and the clock do to the table.                             *)
LEMMA ClientsKeep ==
  ASSUME TypeInv, ClientWrites
  PROVE  /\ KeepsDates(table, table') /\ today' = today
         /\ \A id \in RecordId \ Correctable :
              \/ table'[id] = table[id]
              \/ table'[id].status = Due(id)'
              \/ ~Live(id)'
<1>1. ASSUME NEW id \in RecordId, NEW d \in ExpiryDates,
             Create(id, d) \/ Correct(id, d)
      PROVE  /\ KeepsDates(table, table') /\ today' = today
             /\ \A x \in RecordId \ Correctable :
                  \/ table'[x] = table[x]
                  \/ table'[x].status = Due(x)'
                  \/ ~Live(x)'
  <2>1. /\ table' = [table EXCEPT ![id] = Dated(d)] /\ today' = today
        /\ table[id] = None \/ id \in Correctable
    BY <1>1 DEF Create, Correct, Put
  <2>2. Dated(d).expiry = d
        /\ Dated(d).status = computeComplianceStatus(d, today, Buffer)
    BY DEF Dated
  <2>3. table \in [RecordId -> Row \union {None}]
    BY DEF TypeInv, TypeOK
  <2>4. \A x \in RecordId \ Correctable :
          \/ table'[x] = table[x]
          \/ table[x] = None /\ table'[x] = Dated(d)
    BY <2>1, <2>3
  <2> HIDE DEF Dated
  <2> QED BY <2>1, <2>2, <2>4 DEF KeepsDates, Due
<1>2. ASSUME NEW id \in RecordId, NEW s \in TerminalStatus, Close(id, s)
      PROVE  /\ KeepsDates(table, table') /\ today' = today
             /\ \A x \in RecordId \ Correctable :
                  \/ table'[x] = table[x]
                  \/ table'[x].status = Due(x)'
                  \/ ~Live(x)'
  <2> DEFINE row == [table[id] EXCEPT !.status = s]
  <2>1. /\ table' = [table EXCEPT ![id] = row] /\ today' = today
        /\ table[id] \in Row
    BY <1>2, RowFits DEF Close, Put, Live
  <2>2. row \in Row /\ row.expiry = table[id].expiry /\ row.status = s
    BY <2>1 DEF Row, Status
  <2>3. row # None /\ s \notin EvaluableStatus
    BY <2>2, JobConstantsOK DEF Row, TerminalStatus, EvaluableStatus
  <2>4. table \in [RecordId -> Row \union {None}]
    BY DEF TypeInv, TypeOK
  <2> HIDE DEF row
  <2>5. \A x \in RecordId : \/ table'[x] = table[x]
                            \/ x = id /\ table'[x] = row
    BY <2>1, <2>4
  <2> QED BY <2>1, <2>2, <2>3, <2>5 DEF KeepsDates, Live
<1> QED BY <1>1, <1>2 DEF ClientWrites

(* Days pass forwards, rows stay.                                          *)
LEMMA TableSteps ==
  ASSUME TypeInv, [Next]_vars
  PROVE  KeepsDates(table, table') /\ today <= today'
<1>1. today \in Nat
  BY JobConstantsOK DEF TypeInv, TypeOK
<1>2. CASE ClientWrites
  BY <1>1, <1>2, ClientsKeep
<1>3. CASE Lingers
  BY <1>1, <1>3, UpdateKeeps DEF Lingers, LateUpdate
<1>4. ASSUME NEW s \in EvaluableStatus, bulk_apply(s)
      PROVE  KeepsDates(table, table') /\ today <= today'
  BY <1>1, <1>4, UpdateKeeps DEF bulk_apply
<1>5. CASE NextDay
  <2>1. today' \in Nat /\ today < today'
    BY <1>1, <1>5, JobConstantsOK DEF NextDay
  <2> QED BY <1>1, <1>5, <2>1 DEF NextDay, KeepsDates
<1>6. CASE UNCHANGED <<table, today>>
  BY <1>1, <1>6 DEF KeepsDates
<1>7. \/ ClientWrites \/ Lingers \/ NextDay \/ UNCHANGED <<table, today>>
      \/ \E s \in EvaluableStatus : bulk_apply(s)
  BY DEF Next, Works, Fails, vars, StartRun, Begin, login, fetch_rows,
         fetch_count, evaluate_records, bulk_status_update, bulk_answer,
         save_pending_event, put_events, clear_pending_event, login_fails,
         fetch_fails, bulk_fails, bulk_unauthorized, put_fails, Crash,
         apiVars
<1> QED BY <1>2, <1>3, <1>4, <1>5, <1>6, <1>7

LEMMA InitTimely == Init => TimelyInv
<1> SUFFICES ASSUME Init PROVE TimelyInv
  OBVIOUS
<1>1. NeverEarly
  BY DEF Init, NeverEarly, Live
<1> QED BY <1>1, IdleTimely, NothingTimely DEF Init, TimelyInv

(* evaluate_records finds what the record's date justified on the run's    *)
(* day, and justifies since.                                               *)
LEMMA FoundTimely ==
  ASSUME TypeInv, TimelyInv, job.date \in Days
  PROVE  Justified(Found, table, today)
<1> SUFFICES ASSUME NEW id \in DOMAIN Found \ Correctable
             PROVE  table[id] # None /\ Timely(Found[id], table[id], today)
  BY DEF Justified
<1>1. /\ id \in DOMAIN job.snapshot
      /\ Found[id] = computeComplianceStatus(job.snapshot[id].expiry,
                                             job.date, Buffer)
  BY DEF Found, Outdated, Computed
<1>2. table[id] # None /\ table[id].expiry = job.snapshot[id].expiry
  BY <1>1 DEF TimelyInv, TimelyJob, DatesKnown
<1>3. id \in RecordId
  <2>1. job.snapshot \in Rows
    BY DEF TypeInv, TypeOK, Job
  <2> QED BY <1>1, <2>1, RowsAre
<1>4. table[id].expiry \in Nat
  BY <1>2, <1>3, RowFits, JobConstantsOK
<1>5. job.date \in Nat /\ today \in Nat /\ Buffer \in Nat
  BY JobConstantsOK DEF TypeInv, TypeOK
<1>6. job.date <= today
  BY <1>5 DEF TimelyInv, TimelyJob, NoDay
<1>7. Rank(computeComplianceStatus(table[id].expiry, job.date, Buffer))
        <= Rank(computeComplianceStatus(table[id].expiry, today, Buffer))
  BY <1>4, <1>5, <1>6, StatusAdvances
<1> QED BY <1>1, <1>2, <1>7 DEF Timely

(* The locals stay timely against the table the step began with.           *)
LEMMA LocalsTimely ==
  ASSUME TypeInv, TimelyInv, [Next]_vars
  PROVE  TimelyJob(job', table, today)
<1>a. job \in Job /\ TimelyJob(job, table, today) /\ today \in Nat
  BY JobConstantsOK DEF TypeInv, TypeOK, TimelyInv
<1>1. CASE StartRun \/ Begin
  <2>1. /\ job'.date \in {NoDay, today}
        /\ job'.page = NoRows /\ job'.snapshot = NoRows
        /\ job'.todo = NoRows /\ job'.batch = NoRows
    BY <1>1 DEF StartRun, Begin, Goto, Idle
  <2> QED BY <1>a, <2>1, NothingTimely DEF TimelyJob
<1>2. CASE \/ login \/ bulk_status_update \/ save_pending_event
           \/ put_events
  <2>1. /\ job'.date = job.date /\ job'.page = job.page
        /\ job'.snapshot = job.snapshot /\ job'.todo = job.todo
        /\ job'.batch = job.batch
    BY <1>2, <1>a
    DEF login, bulk_status_update, save_pending_event, put_events, Goto, Job
  <2> QED BY <1>a, <2>1 DEF TimelyJob
<1>3. CASE fetch_rows
  <2> DEFINE rows == [id \in PageOf(job.offset) |-> table[id]]
  <2>1. job' = [job EXCEPT !.phase = "count", !.page = rows]
    BY <1>3 DEF fetch_rows, Goto
  <2>2. DatesKnown(rows, table)
    BY DEF DatesKnown, PageOf, Selected
  <2> HIDE DEF rows
  <2>3. /\ job'.date = job.date /\ job'.page = rows
        /\ job'.snapshot = job.snapshot /\ job'.todo = job.todo
        /\ job'.batch = job.batch
    BY <2>1, <1>a DEF Job
  <2> QED BY <1>a, <2>2, <2>3 DEF TimelyJob
<1>4. CASE fetch_count
  <2> DEFINE seen == DOMAIN job.snapshot \union DOMAIN job.page
             rows == [id \in seen |-> IF id \in DOMAIN job.page
                                       THEN job.page[id] ELSE job.snapshot[id]]
  <2>1. \E ph, next :
          job' = [job EXCEPT !.phase = ph, !.offset = next,
                             !.snapshot = rows, !.page = NoRows,
                             !.attempt = 1, !.again = FALSE]
    BY <1>4 DEF fetch_count, Goto
  <2>2. DatesKnown(rows, table)
    BY <1>a DEF TimelyJob, DatesKnown
  <2> HIDE DEF rows
  <2>3. /\ job'.date = job.date /\ job'.page = NoRows
        /\ job'.snapshot = rows /\ job'.todo = job.todo
        /\ job'.batch = job.batch
    BY <2>1, <1>a DEF Job
  <2> QED BY <1>a, <2>2, <2>3, NothingTimely DEF TimelyJob
<1>5. CASE evaluate_records
  <2>1. NextBatch(Evaluated) /\ job.date \in Days
    BY <1>5
    DEF evaluate_records, Calling, Evaluated, Found, TypeInv, Unreported
  <2>2. TimelyJob(Evaluated, table, today)
    BY <1>a, <2>1, FoundTimely, EvaluatedFits, NothingTimely DEF TimelyJob
  <2> QED BY <2>1, <2>2, EvaluatedFits, NextBatchTimely
<1>6. CASE bulk_answer
  <2>1. NextBatch(Answered)
    BY <1>6 DEF bulk_answer, Answered
  <2>2. TimelyJob(Answered, table, today)
    BY <1>a, AnsweredFits DEF TimelyJob
  <2> QED BY <2>1, <2>2, AnsweredFits, NextBatchTimely
<1>7. CASE Fails
  BY <1>7, <1>a, FailTimely, GiveUpTimely, UnauthorizedTimely
  DEF Fails, login_fails, fetch_fails, bulk_fails, bulk_unauthorized,
      put_fails
<1>8. CASE clear_pending_event
  <2>1. CASE job.resuming
    <3>1. job' = [Idle EXCEPT !.phase = "start"]
      BY <1>8, <2>1 DEF clear_pending_event, Goto
    <3>2. /\ job'.date = NoDay
          /\ job'.page = NoRows /\ job'.snapshot = NoRows
          /\ job'.todo = NoRows /\ job'.batch = NoRows
      BY <3>1, IdleFits DEF Job
    <3> QED BY <3>2, NothingTimely DEF TimelyJob
  <2>2. CASE ~job.resuming
    BY <1>8, <2>2, IdleTimely DEF clear_pending_event, Stop
  <2> QED BY <2>1, <2>2
<1>9. CASE Crash
  BY <1>9, IdleTimely DEF Crash, Stop
<1>10. CASE job' = job
  BY <1>10, <1>a
<1>11. \/ StartRun \/ Begin \/ login \/ bulk_status_update
       \/ save_pending_event \/ put_events \/ fetch_rows \/ fetch_count
       \/ evaluate_records \/ bulk_answer \/ Fails \/ clear_pending_event
       \/ Crash \/ job' = job
  BY DEF Next, Works, bulk_apply, Lingers, LateUpdate, ClientWrites, Create,
         Correct, Close, Put, NextDay, vars
<1> QED BY <1>1, <1>2, <1>3, <1>4, <1>5, <1>6, <1>7, <1>8, <1>9, <1>10, <1>11

(* One step keeps every update on its way justified.                       *)
LEMMA StepTimely == TypeInv /\ TimelyInv /\ [Next]_vars => TimelyInv'
<1> SUFFICES ASSUME TypeInv, TimelyInv, [Next]_vars PROVE TimelyInv'
  OBVIOUS
<1>a. TypeInv'
  BY StepTyped
<1>b. /\ table \in Table /\ table' \in Table /\ KeepsDates(table, table')
      /\ today \in Days /\ today' \in Days /\ today <= today'
      /\ job' \in Job /\ serving' \in Updates /\ late' \subseteq Updates
      /\ serving \in Updates /\ late \subseteq Updates
      /\ job.batch \in Updates
  BY <1>a, TableSteps DEF TypeInv, TypeOK, Table, Job
<1>c. /\ Justified(serving, table, today)
      /\ \A u \in late : Justified(u, table, today)
      /\ Justified(job.batch, table, today)
  BY DEF TimelyInv, TimelyJob
<1>1. TimelyJob(job', table', today')
  BY <1>b, LocalsTimely, TimelyJobLater
<1>2. Justified(serving', table', today')
  <2>1. Justified(serving', table, today)
    <3>1. CASE bulk_status_update
      BY <3>1, <1>b, <1>c, PartTimely DEF bulk_status_update
    <3>2. ASSUME NEW s \in EvaluableStatus, bulk_apply(s)
          PROVE  Justified(serving', table, today)
      BY <3>2, <1>b, <1>c, PartTimely DEF bulk_apply
    <3>3. CASE serving' = NoRows
      BY <3>3, NothingTimely
    <3>4. CASE serving' = serving
      BY <3>4, <1>c
    <3>5. \/ bulk_status_update \/ serving' = NoRows \/ serving' = serving
          \/ \E s \in EvaluableStatus : bulk_apply(s)
      BY DEF Next, Works, Fails, vars, StartRun, Begin, login, fetch_rows,
             fetch_count, evaluate_records, bulk_answer, save_pending_event,
             put_events, clear_pending_event, login_fails, fetch_fails,
             bulk_fails, bulk_unauthorized, put_fails, Crash, apiVars,
             Lingers, LateUpdate, ClientWrites, Create, Correct, Close, Put,
             NextDay
    <3> QED BY <3>1, <3>2, <3>3, <3>4, <3>5
  <2> QED BY <1>b, <2>1, JustifiedLater
<1>3. \A u \in late' : Justified(u, table', today')
  <2>1. \A u \in late' : Justified(u, table, today)
    <3>1. ASSUME NEW items \in late, NEW s \in EvaluableStatus,
                 LateUpdate(items, s)
          PROVE  \A u \in late' : Justified(u, table, today)
      <4> DEFINE rest == Drop(items, Of(s, items))
      <4>1. Justified(rest, table, today)
        BY <1>b, <1>c, PartTimely
      <4>2. late' \subseteq late \union {rest}
        BY <3>1 DEF LateUpdate
      <4> HIDE DEF rest
      <4> QED BY <1>c, <4>1, <4>2
    <3>2. CASE Abandon(InFlight)
      <4>1. Justified(InFlight, table, today)
        BY <1>c DEF InFlight
      <4>2. late' \subseteq late \union {InFlight}
        BY <3>2 DEF Abandon
      <4> HIDE DEF InFlight
      <4> QED BY <1>c, <4>1, <4>2
    <3>3. CASE late' = late
      BY <3>3, <1>c
    <3>4. \/ Abandon(InFlight) \/ late' = late
          \/ \E items \in late, s \in EvaluableStatus : LateUpdate(items, s)
      BY DEF Next, Works, Fails, vars, StartRun, Begin, login, fetch_rows,
             fetch_count, evaluate_records, bulk_status_update, bulk_apply,
             bulk_answer, save_pending_event, put_events,
             clear_pending_event, login_fails, fetch_fails, bulk_fails,
             bulk_unauthorized, put_fails, Crash, apiVars, Lingers,
             ClientWrites, Create, Correct, Close, Put, NextDay
    <3> QED BY <3>1, <3>2, <3>3, <3>4
  <2> QED BY <1>b, <2>1, JustifiedLater
<1>4. NeverEarly'
  <2>1. ASSUME NEW items \in late, NEW s \in EvaluableStatus,
               LateUpdate(items, s)
        PROVE  NeverEarly'
    BY <2>1, <1>c, UpdateTimely DEF LateUpdate, TimelyInv
  <2>2. ASSUME NEW s \in EvaluableStatus, bulk_apply(s)
        PROVE  NeverEarly'
    BY <2>2, <1>c, UpdateTimely DEF bulk_apply, TimelyInv
  <2>3. CASE ClientWrites
    <3> SUFFICES ASSUME NEW id \in RecordId \ Correctable, Live(id)'
                 PROVE  (Rank(table[id].status) <= Rank(Due(id)))'
      BY DEF NeverEarly
    <3>1. today' = today
      BY <2>3, ClientsKeep
    <3>2. CASE table'[id] = table[id]
      <4>1. Live(id)
        BY <3>2 DEF Live
      <4>2. Rank(table[id].status) <= Rank(Due(id))
        BY <4>1 DEF TimelyInv, NeverEarly
      <4> QED BY <3>1, <3>2, <4>2 DEF Due
    <3>3. CASE table'[id].status = Due(id)'
      <4>1. Rank(table'[id].status) \in Nat
        BY RankFits
      <4> QED BY <3>3, <4>1
    <3> QED BY <2>3, <3>2, <3>3, ClientsKeep
  <2>4. CASE table' = table
    <3> SUFFICES ASSUME NEW id \in RecordId \ Correctable, Live(id)'
                 PROVE  (Rank(table[id].status) <= Rank(Due(id)))'
      BY DEF NeverEarly
    <3>1. Live(id) /\ table[id] \in Row
      BY <2>4, RowFits DEF Live
    <3>2. Rank(table[id].status) <= Rank(Due(id))
      BY <3>1 DEF TimelyInv, NeverEarly
    <3>3. Timely(table[id].status, table[id], today)
      BY <3>2 DEF Due, Timely
    <3>4. Timely(table[id].status, table[id], today')
      BY <1>b, <3>1, <3>3, TimelyLater
    <3> QED BY <2>4, <3>4 DEF Due, Timely
  <2>5. \/ ClientWrites \/ table' = table
        \/ \E s \in EvaluableStatus : bulk_apply(s)
        \/ \E items \in late, s \in EvaluableStatus : LateUpdate(items, s)
    BY DEF Next, Works, Fails, vars, StartRun, Begin, login, fetch_rows,
           fetch_count, evaluate_records, bulk_status_update, bulk_answer,
           save_pending_event, put_events, clear_pending_event, login_fails,
           fetch_fails, bulk_fails, bulk_unauthorized, put_fails, Crash,
           apiVars, Lingers, NextDay
  <2> QED BY <2>1, <2>2, <2>3, <2>4, <2>5
<1> QED BY <1>1, <1>2, <1>3, <1>4 DEF TimelyInv

THEOREM TimelyKept == Spec => []TimelyInv
<1>1. Init => TimelyInv
  BY InitTimely
<1>2. TypeInv /\ TimelyInv /\ [Next]_vars => TimelyInv'
  BY StepTimely
<1> QED BY <1>1, <1>2, TypesKept, PTL DEF Spec

(* No status runs ahead of the calendar, but for records whose date was    *)
(* corrected: what the job computed on its day stays true on later days,   *)
(* so that batches may be late, repeated or half applied.                  *)
THEOREM StatusNeverEarly == Spec => []NeverEarly
<1>1. TimelyInv => NeverEarly
  BY DEF TimelyInv
<1> QED BY <1>1, TimelyKept, PTL

-----------------------------------------------------------------------------
(* The report.                                                             *)

(* What LocalsInv says of the locals in the phases of a batch and of an    *)
(* event.                                                                  *)
LEMMA LocalsUnused ==
  ASSUME RunInv
  PROVE  /\ ~Patching => job.batch = NoRows
         /\ Patching => /\ job.page = NoRows /\ job.snapshot = NoRows
                        /\ ~job.resuming
         /\ job.phase # "serve" => serving = NoRows
BY DEF RunInv, LocalsInv, Patching, Fetching

(* Nothing read, nothing to send, nothing to report.                       *)
Blank(j) == /\ j.page = NoRows /\ j.snapshot = NoRows /\ j.todo = NoRows
            /\ j.batch = NoRows /\ j.successful = {} /\ ~j.failed

LEMMA BlankAlone ==
  ASSUME NEW j, Blank(j), NEW tbl, NEW done
  PROVE  AloneJob(j, tbl, done)
BY NoRowsFits DEF Blank, AloneJob, AloneReady, Current

(* Where the process or its run starts and ends, nothing was changed.      *)
LEMMA BlankReport ==
  ASSUME RunInv, BookInv, Blank(job'), serving' = NoRows,
         changed' = {}, job'.phase # "serve",
         job'.phase = "put" => job'.resuming
  PROVE  ReportInv'
<1>1. BookInv'
  BY NoRowsFits DEF Blank, BookInv
<1>2. AloneInv'
  BY BlankAlone DEF AloneInv
<1> QED BY <1>1, <1>2 DEF ReportInv

LEMMA IdleBlank == /\ Blank(Idle)
                   /\ Blank([Idle EXCEPT !.phase = "start"])
                   /\ Blank([Idle EXCEPT !.phase = "put", !.resuming = TRUE])
                   /\ \A d : Blank([Idle EXCEPT !.phase = "login", !.date = d])
BY IdleFits DEF Blank, Job

LEMMA StopReport ==
  ASSUME RunInv, BookInv, Stop, serving' = NoRows
  PROVE  ReportInv'
BY IdleBlank, IdleFits, BlankReport DEF Stop

(* The next batch is apart from what is left to send.                      *)
LEMMA NextBatchReport ==
  ASSUME NEW j \in Job, NextBatch(j), serving' = NoRows, table' = table,
         ~j.failed => changed \subseteq j.successful,
         clean => AloneReady(j, table, changed)
  PROVE  ReportInv'
<1>1. changed' = changed /\ clean' = clean /\ j.todo \in Updates
  BY NextBatchIs DEF Job
<1>2. CASE job' = [j EXCEPT !.phase = "save", !.batch = NoRows]
  <2>1. /\ job'.phase = "save" /\ job'.batch = NoRows /\ job'.page = j.page
        /\ job'.snapshot = j.snapshot /\ job'.todo = j.todo
        /\ job'.successful = j.successful /\ job'.failed = j.failed
    BY <1>2 DEF Job
  <2>2. BookInv'
    BY <1>1, <2>1, NoRowsFits DEF BookInv
  <2>3. AloneInv'
    BY <1>1, <2>1, NoRowsFits DEF AloneInv, AloneJob, AloneReady
  <2> QED BY <2>2, <2>3 DEF ReportInv
<1>3. ASSUME NEW ids,
             job' = [j EXCEPT !.phase = "patch", !.attempt = 1,
                              !.again = FALSE, !.batch = Keep(j.todo, ids),
                              !.todo = Drop(j.todo, ids)]
      PROVE  ReportInv'
  <2> DEFINE batch == Keep(j.todo, ids)
             rest == Drop(j.todo, ids)
  <2>1. /\ job'.phase = "patch" /\ job'.batch = batch /\ job'.todo = rest
        /\ job'.page = j.page /\ job'.snapshot = j.snapshot
        /\ job'.successful = j.successful /\ job'.failed = j.failed
    BY <1>3 DEF Job
  <2>2. /\ DOMAIN batch = DOMAIN j.todo \intersect ids
        /\ DOMAIN rest = DOMAIN j.todo \ ids
    BY <1>1, Splitting
  <2>3. \A id \in DOMAIN batch : batch[id] = j.todo[id]
    BY <1>1, Splitting
  <2>4. \A id \in DOMAIN rest : rest[id] = j.todo[id]
    BY <1>1, Splitting
  <2> HIDE DEF batch, rest
  <2>5. BookInv'
    BY <1>1, <2>1, <2>2, NoRowsFits DEF BookInv
  <2>6. AloneInv'
    <3> SUFFICES ASSUME clean' PROVE AloneJob(job', table', changed')
      BY <2>1 DEF AloneInv
    <3>1. AloneReady(j, table, changed)
      BY <1>1
    <3>2. \A id \in DOMAIN batch : Lacks(table, batch, id)
      BY <3>1, <2>2, <2>3 DEF AloneReady, Lacks
    <3>3. \A id \in DOMAIN rest : Lacks(table, rest, id)
      BY <3>1, <2>2, <2>4 DEF AloneReady, Lacks
    <3> QED BY <1>1, <2>1, <3>1, <3>2, <3>3 DEF AloneReady, AloneJob
  <2> QED BY <2>5, <2>6 DEF ReportInv
<1> QED BY <1>2, <1>3, NextBatchIs

(* Giving up a batch is written down, giving up a run clears the page.     *)
LEMMA GiveUpReport ==
  ASSUME TypeInv, RunInv, ReportInv, NEW call, GiveUp(call),
         serving' = NoRows, table' = table
  PROVE  ReportInv'
<1>1. CASE call = "patch"
  <2> DEFINE j == [job EXCEPT !.failed = TRUE]
  <2>1. /\ j \in Job /\ j.failed /\ j.page = job.page
        /\ j.snapshot = job.snapshot /\ j.todo = job.todo
        /\ j.successful = job.successful
    BY DEF Job, TypeInv, TypeOK
  <2>2. NextBatch(j)
    BY <1>1 DEF GiveUp
  <2> HIDE DEF j
  <2>3. clean => AloneReady(j, table, changed)
    BY <2>1 DEF ReportInv, AloneInv, AloneJob, AloneReady
  <2> QED BY <2>1, <2>2, <2>3, NextBatchReport
<1>2. CASE call # "patch"
  BY <1>2, StopReport DEF GiveUp, ReportInv
<1> QED BY <1>1, <1>2

(* Steps that leave what the run holds as it is.                           *)
SameLocals ==
  /\ job'.page \in {job.page, NoRows} /\ job'.snapshot = job.snapshot
  /\ job'.todo = job.todo /\ job'.batch = job.batch
  /\ job'.successful = job.successful /\ job'.failed = job.failed

LEMMA SameReport ==
  ASSUME RunInv, ReportInv, SameLocals, serving' = NoRows,
         UNCHANGED <<table, changed, clean>>, job'.phase # "serve",
         job'.phase = "put" /\ ~job'.resuming =>
           pending'.changed = job'.successful
  PROVE  ReportInv'
<1>1. BookInv'
  BY NoRowsFits DEF SameLocals, ReportInv, BookInv
<1>2. AloneInv'
  BY NoRowsFits
  DEF SameLocals, ReportInv, AloneInv, AloneJob, AloneReady, Current
<1> QED BY <1>1, <1>2 DEF ReportInv

LEMMA FailReport ==
  ASSUME TypeInv, RunInv, ReportInv, NEW p, NEW call, Fail(p, call),
         p # "serve", p = "put" => job.phase = "put",
         serving' = NoRows, table' = table, pending' = pending
  PROVE  ReportInv'
<1>1. CASE job.attempt < MaxAttempts
  <2>1. job' = [job EXCEPT !.phase = p, !.attempt = job.attempt + 1,
                           !.page = NoRows]
        /\ changed' = changed /\ clean' = clean
    BY <1>1 DEF Fail, Goto
  <2>2. job'.phase = p /\ job'.resuming = job.resuming /\ SameLocals
    BY <2>1 DEF SameLocals, TypeInv, TypeOK, Job
  <2>3. p = "put" /\ ~job'.resuming => pending'.changed = job'.successful
    BY <2>2 DEF SameLocals, ReportInv, BookInv
  <2> QED BY <2>1, <2>2, <2>3, SameReport
<1>2. CASE ~(job.attempt < MaxAttempts)
  BY <1>2, GiveUpReport DEF Fail
<1> QED BY <1>1, <1>2

LEMMA UnauthorizedReport ==
  ASSUME TypeInv, RunInv, ReportInv, NEW call, Unauthorized(call),
         serving' = NoRows, table' = table
  PROVE  ReportInv'
<1>1. CASE job.again
  BY <1>1, GiveUpReport DEF Unauthorized
<1>2. CASE ~job.again
  <2>1. job' = [job EXCEPT !.phase = "login", !.attempt = 1, !.again = TRUE,
                           !.caller = call]
        /\ changed' = changed /\ clean' = clean
    BY <1>2 DEF Unauthorized, Goto
  <2>2. job'.phase = "login" /\ SameLocals
    BY <2>1 DEF SameLocals, TypeInv, TypeOK, Job
  <2> QED BY <2>1, <2>2, SameReport
<1> QED BY <1>1, <1>2

LEMMA InitReport == Init => ReportInv
<1> SUFFICES ASSUME Init PROVE ReportInv
  OBVIOUS
<1>1. /\ job = Idle /\ serving = NoRows /\ changed = {}
  BY DEF Init
<1>2. BookInv
  BY <1>1, IdleFits, NoRowsFits DEF BookInv
<1>3. AloneInv
  BY <1>1, IdleFits, IdleBlank, BlankAlone DEF AloneInv
<1> QED BY <1>2, <1>3 DEF ReportInv

(* An UPDATE of the batch moves what it changes from lacking to changed.   *)
LEMMA ApplyReport ==
  ASSUME TypeInv, RunInv, ReportInv, NEW s \in EvaluableStatus, bulk_apply(s)
  PROVE  ReportInv'
<1> DEFINE hit == Of(s, serving)
<1>1. /\ job.phase = "serve" /\ UpdateTo(s, serving)
      /\ serving' = Drop(serving, hit)
      /\ changed' = changed \union (hit \intersect Writable(serving))
      /\ UNCHANGED <<pending, job, clean>>
  BY DEF bulk_apply, Calling, outVars
<1>2. /\ job.page = NoRows /\ job.snapshot = NoRows
  BY <1>1, LocalsUnused DEF Patching
<1>3. /\ serving \in Updates /\ job.batch \in Updates /\ job.todo \in Updates
  BY DEF TypeInv, TypeOK, Job
<1>4. /\ DOMAIN serving \subseteq DOMAIN job.batch
      /\ \A id \in DOMAIN serving : serving[id] = job.batch[id]
      /\ DOMAIN job.todo \intersect DOMAIN job.batch = {}
      /\ hit \subseteq DOMAIN serving
      /\ \A id \in hit : serving[id] = s
      /\ \A id \in DOMAIN serving : serving[id] = s => id \in hit
  BY DEF ReportInv, BookInv, Of
<1>5. DOMAIN serving' = DOMAIN serving \ hit
  BY <1>1, <1>3, Splitting
<1>6. \A id \in DOMAIN serving' : serving'[id] = serving[id]
  <2>1. \A id \in DOMAIN Drop(serving, hit) :
          Drop(serving, hit)[id] = serving[id]
    BY <1>3, Splitting
  <2> QED BY <1>1, <2>1
<1>7. \A id \in RecordId :
        table'[id] = table[id] \/ id \in hit \intersect Writable(serving)
  BY <1>1, UpdateKeeps DEF Writable, Of
<1> HIDE DEF hit
<1>8. BookInv'
  BY <1>1, <1>4, <1>5, <1>6 DEF ReportInv, BookInv
<1>9. AloneInv'
  <2> SUFFICES ASSUME clean
               PROVE  /\ AloneJob(job, table', changed')
                      /\ DOMAIN job.batch
                           \subseteq changed' \union DOMAIN serving'
    BY <1>1 DEF AloneInv
  <2>1. /\ AloneJob(job, table, changed)
        /\ DOMAIN job.batch \subseteq changed \union DOMAIN serving
    BY <1>1 DEF ReportInv, AloneInv
  <2>2. /\ DOMAIN job.todo \subseteq RecordId
        /\ DOMAIN job.batch \subseteq RecordId
    BY <1>3, UpdatesAre
  <2>3. \A id \in DOMAIN job.todo : Lacks(table', job.todo, id)
    <3>1. \A id \in DOMAIN job.todo : table'[id] = table[id]
      BY <1>4, <1>7, <2>2
    <3> QED BY <2>1, <3>1 DEF AloneJob, AloneReady, Lacks
  <2>4. \A id \in DOMAIN job.batch :
          id \in changed' \/ Lacks(table', job.batch, id)
    <3> SUFFICES ASSUME NEW id \in DOMAIN job.batch, id \notin changed'
                 PROVE  Lacks(table', job.batch, id)
      OBVIOUS
    <3>1. table'[id] = table[id]
      BY <1>1, <1>7, <2>2
    <3>2. Lacks(table, job.batch, id)
      BY <1>1, <2>1 DEF AloneJob
    <3> QED BY <3>1, <3>2 DEF Lacks
  <2>5. DOMAIN job.batch \subseteq changed' \union DOMAIN serving'
    <3> SUFFICES ASSUME NEW id \in DOMAIN job.batch,
                        id \notin changed', id \notin DOMAIN serving'
                 PROVE  FALSE
      OBVIOUS
    <3>1. id \in hit /\ id \notin changed
      BY <1>1, <1>5, <2>1
    <3>2. Lacks(table, job.batch, id)
      BY <2>1, <3>1 DEF AloneJob
    <3>3. id \in Writable(serving)
      BY <1>4, <3>1, <3>2 DEF Writable, Live, Lacks, Open
    <3> QED BY <1>1, <3>1, <3>3
  <2>6. Current(NoRows, table')
    BY NoRowsFits DEF Current
  <2>7. job.successful \subseteq changed'
    BY <1>1, <2>1 DEF AloneJob, AloneReady
  <2> QED BY <1>2, <2>3, <2>4, <2>5, <2>6, <2>7 DEF AloneJob, AloneReady
<1> QED BY <1>8, <1>9 DEF ReportInv

(* Whoever else writes ends the run's being alone.                         *)
LEMMA DisturbReport ==
  ASSUME RunInv, ReportInv, Disturb,
         UNCHANGED <<serving, pending, job, changed>>
  PROVE  ReportInv'
<1>1. BookInv'
  BY DEF ReportInv, BookInv
<1>2. AloneInv'
  <2> SUFFICES ASSUME job.phase = "idle"
               PROVE  AloneJob(job, table', changed')
    BY DEF Disturb, AloneInv
  <2>1. job = Idle
    BY DEF RunInv, LocalsInv
  <2> QED BY <2>1, IdleBlank, BlankAlone
<1> QED BY <1>1, <1>2 DEF ReportInv

(* One step keeps the report complete.                                     *)
LEMMA StepReport ==
  TypeInv /\ RunInv /\ ReportInv /\ [Next]_vars => ReportInv'
<1> SUFFICES ASSUME TypeInv, RunInv, ReportInv, [Next]_vars PROVE ReportInv'
  OBVIOUS
<1> USE DEF Calling
<1>a. /\ job \in Job /\ serving \in Updates /\ job.batch \in Updates
  BY DEF TypeInv, TypeOK, Job
<1>b. BookInv /\ AloneInv
  BY DEF ReportInv
<1>c. job.phase # "serve" => serving = NoRows
  BY LocalsUnused
<1>1. CASE StartRun
  <2>1. job = Idle
    BY <1>1 DEF StartRun, RunInv, LocalsInv
  <2>2. changed = {}
    BY <2>1, <1>b, IdleFits, NoRowsFits DEF BookInv
  <2>3. /\ Blank(job') /\ job'.phase # "serve"
        /\ job'.phase = "put" => job'.resuming
    BY <1>1, IdleBlank, IdleFits DEF StartRun, Goto, Job
  <2> QED BY <1>1, <1>b, <1>c, <2>2, <2>3, BlankReport
          DEF StartRun, Goto, apiVars
<1>2. CASE Begin
  <2>1. Blank(job') /\ job'.phase = "login"
    BY <1>2, IdleBlank, IdleFits DEF Begin, Job
  <2> QED BY <1>2, <1>b, <1>c, <2>1, BlankReport DEF Begin, apiVars
<1>3. CASE login
  <2>1. job'.phase \in {"fetch", "patch"} /\ SameLocals
    BY <1>3, <1>a DEF login, Goto, SameLocals, Job
  <2> QED BY <1>3, <1>c, <2>1, SameReport DEF login, Goto, apiVars
<1>4. CASE fetch_rows
  <2> DEFINE rows == [id \in PageOf(job.offset) |-> table[id]]
  <2>1. job' = [job EXCEPT !.phase = "count", !.page = rows]
        /\ UNCHANGED <<table, serving, changed, clean>> /\ serving = NoRows
    BY <1>4, <1>c DEF fetch_rows, Goto, apiVars
  <2>2. Current(rows, table)
    BY DEF Current, PageOf, Selected, Open, EvaluableStatus
  <2> HIDE DEF rows
  <2>3. /\ job'.phase = "count" /\ job'.page = rows
        /\ job'.snapshot = job.snapshot /\ job'.todo = job.todo
        /\ job'.batch = job.batch /\ job'.successful = job.successful
        /\ job'.failed = job.failed
    BY <2>1, <1>a DEF Job
  <2>4. BookInv'
    BY <1>b, <2>1, <2>3 DEF BookInv
  <2>5. AloneInv'
    BY <1>b, <2>1, <2>2, <2>3 DEF AloneInv, AloneJob, AloneReady
  <2> QED BY <2>4, <2>5 DEF ReportInv
<1>5. CASE fetch_count
  <2> DEFINE seen == DOMAIN job.snapshot \union DOMAIN job.page
             rows == [id \in seen |-> IF id \in DOMAIN job.page
                                       THEN job.page[id] ELSE job.snapshot[id]]
  <2>1. /\ \E ph \in {"evaluate", "fetch"} : \E next :
             job' = [job EXCEPT !.phase = ph, !.offset = next,
                                !.snapshot = rows, !.page = NoRows,
                                !.attempt = 1, !.again = FALSE]
        /\ UNCHANGED <<table, serving, changed, clean>> /\ serving = NoRows
    BY <1>5, <1>c DEF fetch_count, Goto, apiVars
  <2>2. Current(job.page, table) /\ Current(job.snapshot, table)
          => Current(rows, table)
    BY DEF Current
  <2> HIDE DEF rows
  <2>3. /\ job'.phase \in {"evaluate", "fetch"} /\ job'.page = NoRows
        /\ job'.snapshot = rows /\ job'.todo = job.todo
        /\ job'.batch = job.batch /\ job'.successful = job.successful
        /\ job'.failed = job.failed
    BY <2>1, <1>a DEF Job
  <2>4. BookInv'
    BY <1>b, <2>1, <2>3 DEF BookInv
  <2>5. Current(NoRows, table)
    BY NoRowsFits DEF Current
  <2>6. AloneInv'
    BY <1>b, <2>1, <2>2, <2>3, <2>5 DEF AloneInv, AloneJob, AloneReady
  <2> QED BY <2>4, <2>6 DEF ReportInv
<1>6. CASE evaluate_records
  <2>1. /\ NextBatch(Evaluated) /\ serving' = NoRows /\ table' = table
        /\ job.batch = NoRows
    BY <1>6, <1>c, LocalsUnused
    DEF evaluate_records, Evaluated, Found, apiVars, Patching
  <2>2. ~Evaluated.failed => changed \subseteq Evaluated.successful
    BY <1>b, <2>1, EvaluatedFits, NoRowsFits DEF BookInv
  <2>3. clean => AloneReady(Evaluated, table, changed)
    <3> SUFFICES ASSUME clean PROVE AloneReady(Evaluated, table, changed)
      OBVIOUS
    <3>1. AloneReady(job, table, changed)
      BY <1>b DEF AloneInv, AloneJob
    <3>2. \A id \in DOMAIN Found : Lacks(table, Found, id)
      BY <3>1 DEF AloneReady, Current, Lacks, Found, Outdated
    <3>3. Current(NoRows, table)
      BY NoRowsFits DEF Current
    <3> QED BY <3>1, <3>2, <3>3, EvaluatedFits DEF AloneReady
  <2> QED BY <2>1, <2>2, <2>3, EvaluatedFits, NextBatchReport
<1>7. CASE bulk_status_update
  <2> DEFINE batch == job.batch
  <2>1. /\ job.phase = "patch" /\ serving' = Keep(batch, Writable(batch))
        /\ job' = [job EXCEPT !.phase = "serve"]
        /\ UNCHANGED <<table, changed, clean>>
    BY <1>7 DEF bulk_status_update, Goto
  <2>2. job'.phase = "serve" /\ SameLocals /\ job'.page = job.page
    BY <2>1, <1>a DEF SameLocals, Job
  <2>3. DOMAIN serving' = DOMAIN batch \intersect Writable(batch)
    BY <2>1, <1>a, Splitting
  <2>4. \A id \in DOMAIN serving' : serving'[id] = batch[id]
    <3>1. \A id \in DOMAIN Keep(batch, Writable(batch)) :
            Keep(batch, Writable(batch))[id] = batch[id]
      BY <1>a, Splitting
    <3> QED BY <2>1, <3>1
  <2>5. BookInv'
    BY <1>b, <2>1, <2>2, <2>3, <2>4 DEF BookInv, SameLocals
  <2>6. AloneInv'
    <3> SUFFICES ASSUME clean
                 PROVE  /\ AloneJob(job', table, changed)
                        /\ DOMAIN batch
                             \subseteq changed \union DOMAIN serving'
      BY <2>1, <2>2 DEF AloneInv, SameLocals
    <3>1. AloneJob(job, table, changed)
      BY <1>b DEF AloneInv
    <3>2. \A id \in DOMAIN batch :
            Lacks(table, batch, id) => id \in Writable(batch)
      BY DEF Lacks, Open, Writable, Live
    <3>3. DOMAIN batch \subseteq changed \union DOMAIN serving'
      BY <3>1, <3>2, <2>3 DEF AloneJob
    <3> QED BY <2>2, <3>1, <3>3 DEF AloneJob, AloneReady, SameLocals
  <2> QED BY <2>5, <2>6 DEF ReportInv
<1>8. CASE bulk_answer
  <2>1. /\ NextBatch(Answered) /\ serving = NoRows /\ serving' = NoRows
        /\ table' = table /\ job.phase = "serve"
    BY <1>8 DEF bulk_answer, Answered, apiVars
  <2>2. ~Answered.failed => changed \subseteq Answered.successful
    BY <1>b, AnsweredFits DEF BookInv
  <2>3. clean => AloneReady(Answered, table, changed)
    BY <1>b, <2>1, AnsweredFits, NoRowsFits DEF AloneInv, AloneJob, AloneReady
  <2> QED BY <2>1, <2>2, <2>3, AnsweredFits, NextBatchReport
<1>9. CASE save_pending_event
  <2>1. /\ job' = [job EXCEPT !.phase = "put", !.attempt = 1,
                              !.again = FALSE]
        /\ pending'.changed = job.successful
        /\ serving' = NoRows /\ UNCHANGED <<table, changed, clean>>
    BY <1>9, <1>c DEF save_pending_event, Goto, apiVars
  <2>2. job'.phase = "put" /\ SameLocals
    BY <2>1, <1>a DEF SameLocals, Job
  <2> QED BY <2>1, <2>2, SameReport DEF SameLocals
<1>10. CASE put_events
  <2>1. /\ job' = [job EXCEPT !.phase = "clear", !.attempt = 1]
        /\ serving' = NoRows /\ UNCHANGED <<table, changed, clean>>
    BY <1>10, <1>c DEF put_events, Goto, apiVars
  <2>2. job'.phase = "clear" /\ SameLocals
    BY <2>1, <1>a DEF SameLocals, Job
  <2> QED BY <2>1, <2>2, SameReport
<1>11. CASE clear_pending_event
  <2>1. serving' = NoRows
    BY <1>11, <1>c DEF clear_pending_event, apiVars
  <2>2. CASE job.resuming
    <3>1. job' = [Idle EXCEPT !.phase = "start"] /\ changed' = changed
      BY <1>11, <2>2 DEF clear_pending_event, Goto
    <3>2. changed = {}
      <4>1. job.successful = {} /\ ~job.failed /\ job.batch = NoRows
        BY <1>11, <2>2, LocalsUnused
        DEF clear_pending_event, RunInv, LocalsInv, Patching
      <4> QED BY <1>b, <4>1, NoRowsFits DEF BookInv
    <3>3. Blank(job') /\ job'.phase = "start"
      BY <3>1, IdleBlank, IdleFits DEF Job
    <3> QED BY <1>b, <2>1, <3>1, <3>2, <3>3, BlankReport
  <2>3. CASE ~job.resuming
    BY <1>11, <1>b, <2>1, <2>3, StopReport DEF clear_pending_event
  <2> QED BY <2>2, <2>3
<1>12. CASE login_fails \/ fetch_fails \/ bulk_unauthorized
  BY <1>12, <1>c, FailReport, GiveUpReport, UnauthorizedReport
  DEF login_fails, fetch_fails, bulk_unauthorized, apiVars, outVars
<1>13. CASE bulk_fails
  BY <1>13, FailReport DEF bulk_fails, outVars
<1>14. CASE put_fails
  BY <1>14, <1>c, FailReport DEF put_fails, apiVars
<1>15. CASE Crash
  BY <1>15, <1>b, StopReport DEF Crash
<1>16. CASE Lingers \/ ClientWrites \/ NextDay
  BY <1>16, DisturbReport
  DEF Lingers, LateUpdate, ClientWrites, Create, Correct, Close, Put, NextDay
<1>17. ASSUME NEW s \in EvaluableStatus, bulk_apply(s) PROVE ReportInv'
  BY <1>17, ApplyReport
<1>18. CASE UNCHANGED vars
  BY <1>18, <1>b DEF vars, ReportInv, BookInv, AloneInv
<1> QED
  BY <1>1, <1>2, <1>3, <1>4, <1>5, <1>6, <1>7, <1>8, <1>9, <1>10, <1>11,
     <1>12, <1>13, <1>14, <1>15, <1>16, <1>17, <1>18
  DEF Next, Works, Fails

THEOREM ReportKept == Spec => []ReportInv
<1>1. Init => ReportInv
  BY InitReport
<1>2. TypeInv /\ RunInv /\ ReportInv /\ [Next]_vars => ReportInv'
  BY StepReport
<1> QED BY <1>1, <1>2, TypesKept, RunKept, PTL DEF Spec

(* The event a run publishes lists every row its requests changed, unless  *)
(* a batch was given up, and no other while nobody else wrote - also when  *)
(* a request was applied, its answer lost, and the request sent again.     *)
THEOREM ReportFaithful == Spec => []FaithfulReport
<1>1. RunInv /\ ReportInv => FaithfulReport
  <2> SUFFICES ASSUME RunInv, ReportInv, job.phase = "put", ~job.resuming
               PROVE  /\ ~job.failed => changed \subseteq pending.changed
                      /\ clean => pending.changed \subseteq changed
    BY DEF FaithfulReport, Calling
  <2>1. job.batch = NoRows
    BY LocalsUnused DEF Patching
  <2>2. pending.changed = job.successful
    BY DEF ReportInv, BookInv
  <2> QED BY <2>1, <2>2, NoRowsFits
          DEF ReportInv, BookInv, AloneInv, AloneJob, AloneReady
<1> QED BY <1>1, RunKept, ReportKept, PTL

-----------------------------------------------------------------------------
(* Pages.                                                                  *)

(* A set of keys that is not empty has a least one.                        *)
LEMMA LeastKey ==
  ASSUME NEW U \in SUBSET RecordId, U # {}
  PROVE  \E m \in U : \A y \in U : m <= y
<1> DEFINE Lower(id) == {x \in U : x < id}
           R == StrictSubsetOrdering(RecordId)
           T == {Lower(id) : id \in U}
<1>1. IsWellFoundedOn(R, SUBSET RecordId)
  BY FS_StrictSubsetOrderingWellFounded, FS_FiniteSubsetsOfFinite,
     JobConstantsOK
<1>2. T \subseteq SUBSET RecordId /\ T # {}
  OBVIOUS
<1>3. \E x \in T : \A y \in T : ~(<<y, x>> \in R)
  <2> HIDE DEF R, T
  <2> QED BY <1>1, <1>2, WFMin
<1>4. PICK m \in U : \A y \in U : ~(<<Lower(y), Lower(m)>> \in R)
  BY <1>3
<1>5. ASSUME NEW y \in U, y < m PROVE FALSE
  <2>1. y \in Nat /\ m \in Nat /\ U \subseteq Nat
    BY JobConstantsOK
  <2>2. ASSUME NEW x \in U, x < y PROVE x < m
    <3>1. x \in Nat
      BY <2>1
    <3> QED BY <1>5, <2>1, <2>2, <3>1
  <2>3. y \in Lower(m) /\ y \notin Lower(y)
    BY <1>5, <2>1
  <2>4. Lower(y) \subseteq Lower(m)
    BY <2>2
  <2>5. <<Lower(y), Lower(m)>> \in R
    BY <2>3, <2>4 DEF StrictSubsetOrdering
  <2> QED BY <1>4, <2>5
<1>6. \A y \in U : m <= y
  BY <1>5, JobConstantsOK
<1> QED BY <1>6

LEMMA SelectedFinite ==
  ASSUME NEW S \in SUBSET Selected
  PROVE  IsFiniteSet(S) /\ Cardinality(S) \in Nat
<1>1. S \subseteq RecordId
  BY DEF Selected
<1> QED BY <1>1, FS_Subset, FS_CardinalityType, JobConstantsOK

(* The next page continues the prefix that was read, and is empty only     *)
(* when nothing is left.                                                   *)
LEMMA NextPage ==
  ASSUME NEW D, Prefix(D)
  PROVE  LET page == PageOf(Cardinality(D))
         IN /\ Prefix(D \union page)
            /\ Cardinality(D \union page) = Cardinality(D) + Cardinality(page)
            /\ page = {} => D = Selected
            /\ Cardinality(D \union page) >= Cardinality(Selected)
                 => D \union page = Selected
<1> DEFINE Lower(id) == {other \in Selected : other < id}
           page == PageOf(Cardinality(D))
<1>a. Selected \subseteq Nat /\ Selected \subseteq RecordId
  BY JobConstantsOK DEF Selected
<1>b. /\ IsFiniteSet(D) /\ Cardinality(D) \in Nat /\ D \subseteq Selected
      /\ \A id : IsFiniteSet(Lower(id)) /\ Cardinality(Lower(id)) \in Nat
  BY SelectedFinite DEF Prefix
<1>c. PageSize \in Nat /\ PageSize > 0
  BY JobConstantsOK
<1>1. ASSUME NEW id \in D
      PROVE  Cardinality(Lower(id)) < Cardinality(D)
  <2>1. Lower(id) \subseteq D /\ id \in D /\ id \notin Lower(id)
    <3>1. \A x \in Selected : x < id => x \in D
      BY <1>1 DEF Prefix
    <3>2. id \in Nat /\ ~(id < id)
      BY <1>1, <1>a, <1>b
    <3> QED BY <1>1, <3>1, <3>2
  <2>2. /\ Cardinality(Lower(id)) <= Cardinality(D)
        /\ Cardinality(D) = Cardinality(Lower(id)) => D = Lower(id)
    BY <1>b, <2>1, FS_Subset
  <2> QED BY <1>b, <2>1, <2>2
<1>2. ASSUME NEW id \in Selected \ D
      PROVE  /\ D \subseteq Lower(id)
             /\ Cardinality(D) <= Cardinality(Lower(id))
  <2>1. ASSUME NEW y \in D PROVE y < id
    <3>1. y # id /\ ~(id < y)
      BY <1>2, <2>1 DEF Prefix
    <3>2. y \in Nat /\ id \in Nat
      BY <1>a, <1>b
    <3> QED BY <3>1, <3>2
  <2>2. D \subseteq Lower(id)
    BY <1>b, <2>1
  <2> QED BY <1>b, <2>2, FS_Subset
<1>3. page = {id \in Selected \ D :
                Cardinality(Lower(id)) < Cardinality(D) + PageSize}
  <2>1. page = {id \in Selected :
                  /\ Cardinality(D) <= Cardinality(Lower(id))
                  /\ Cardinality(Lower(id)) < Cardinality(D) + PageSize}
    BY DEF PageOf
  <2>2. \A id \in D : ~(Cardinality(D) <= Cardinality(Lower(id)))
    BY <1>1, <1>b
  <2> HIDE DEF page, Lower
  <2> QED BY <1>2, <2>1, <2>2
<1> HIDE DEF page
<1>4. Prefix(D \union page)
  <2> SUFFICES ASSUME NEW x \in Selected, NEW y \in D \union page, x < y,
                      x \notin D
               PROVE  x \in page
    BY <1>3, <1>b DEF Prefix
  <2>1. y \in page
    BY DEF Prefix
  <2>2. Cardinality(Lower(y)) < Cardinality(D) + PageSize /\ y \in Selected
    BY <1>3, <2>1
  <2>3. Lower(x) \subseteq Lower(y)
    <3> SUFFICES ASSUME NEW z \in Selected, z < x PROVE z < y
      OBVIOUS
    <3>1. x \in Nat /\ y \in Nat /\ z \in Nat
      BY <1>a, <2>2
    <3> QED BY <3>1
  <2>4. Cardinality(Lower(x)) <= Cardinality(Lower(y))
    BY <1>b, <2>3, FS_Subset
  <2>5. Cardinality(Lower(x)) < Cardinality(D) + PageSize
    <3> HIDE DEF Lower
    <3> QED BY <1>b, <1>c, <2>2, <2>4
  <2> QED BY <1>3, <2>5
<1>5. Cardinality(D \union page) = Cardinality(D) + Cardinality(page)
  <2>1. D \intersect page = {} /\ page \subseteq Selected
    BY <1>3
  <2>2. IsFiniteSet(page) /\ Cardinality(page) \in Nat
    BY <2>1, SelectedFinite
  <2>3. Cardinality(D \union page)
          = Cardinality(D) + Cardinality(page) - Cardinality(D \intersect page)
    BY <1>b, <2>2, FS_Union
  <2>4. Cardinality(D \intersect page) = 0
    BY <2>1, FS_EmptySet
  <2> QED BY <1>b, <2>2, <2>3, <2>4
<1>6. ASSUME page = {}, D # Selected PROVE FALSE
  <2>1. Selected \ D # {} /\ Selected \ D \in SUBSET RecordId
    BY <1>6, <1>a, <1>b
  <2>2. PICK m \in Selected \ D : \A y \in Selected \ D : m <= y
    BY <2>1, LeastKey
  <2>3. Lower(m) \subseteq D
    <3> SUFFICES ASSUME NEW y \in Lower(m), y \notin D PROVE FALSE
      OBVIOUS
    <3>1. y \in Selected \ D /\ y < m /\ m <= y
      BY <2>2
    <3>2. y \in Nat /\ m \in Nat
      BY <1>a, <3>1
    <3> QED BY <3>1, <3>2
  <2>4. Cardinality(Lower(m)) <= Cardinality(D)
    BY <1>b, <2>3, FS_Subset
  <2>5. Cardinality(Lower(m)) < Cardinality(D) + PageSize
    <3> HIDE DEF Lower
    <3> QED BY <1>b, <1>c, <2>4
  <2> QED BY <1>3, <1>6, <2>5
<1>7. ASSUME Cardinality(D \union page) >= Cardinality(Selected)
      PROVE  D \union page = Selected
  <2>1. D \union page \subseteq Selected
    BY <1>4 DEF Prefix
  <2>2. IsFiniteSet(Selected) /\ Cardinality(Selected) \in Nat
        /\ Cardinality(D \union page) \in Nat
    BY <2>1, SelectedFinite
  <2>3. /\ Cardinality(D \union page) <= Cardinality(Selected)
        /\ Cardinality(Selected) = Cardinality(D \union page)
             => Selected = D \union page
    BY <2>1, <2>2, FS_Subset
  <2> QED BY <1>7, <2>2, <2>3
<1> QED BY <1>4, <1>5, <1>6, <1>7 DEF page

LEMMA InitPages == Init => PagesInv
BY IdleFits DEF Init, PagesInv, Unreported, Fetching

(* Outside the phases that read pages only the day is left to keep.        *)
LEMMA PagesRead ==
  ASSUME PagesInv,
         \/ job'.phase \in {"idle", "start", "put", "clear"}
         \/ /\ job.phase \in Unreported /\ job'.date = job.date
            /\ today' = today /\ clean' = clean /\ ~Fetching'
  PROVE  PagesInv'
BY DEF PagesInv, Unreported, Fetching

LEMMA GiveUpPages ==
  ASSUME TypeInv, PagesInv, NEW call, GiveUp(call), today' = today,
         call = "patch" => job.phase \in Unreported
  PROVE  PagesInv'
<1>1. CASE call = "patch"
  <2> DEFINE j == [job EXCEPT !.failed = TRUE]
  <2>1. j \in Job /\ j.date = job.date
    BY DEF Job, TypeInv, TypeOK
  <2>2. NextBatch(j)
    BY <1>1 DEF GiveUp
  <2> HIDE DEF j
  <2>3. /\ job'.phase \in {"save", "patch"} /\ job'.date = job.date
        /\ clean' = clean
    BY <2>1, <2>2, NextBatchFits, NextBatchIs
  <2> QED BY <1>1, <2>3, PagesRead DEF Fetching
<1>2. CASE call # "patch"
  BY <1>2, IdleFits, PagesRead DEF GiveUp, Stop
<1> QED BY <1>1, <1>2

(* What a page is read into when a call is made again.                     *)
LEMMA FailPages ==
  ASSUME TypeInv, RunInv, PagesInv, NEW p, NEW call, Fail(p, call),
         \/ p = "login" /\ job.phase = "login"
         \/ p = "fetch" /\ job.phase \in {"fetch", "count"}
         \/ p = "patch" /\ job.phase \in {"patch", "serve"}
         \/ p = "put" /\ job.phase = "put",
         call = "patch" => Patching,
         UNCHANGED <<table, today>>
  PROVE  PagesInv'
<1>1. CASE job.attempt < MaxAttempts
  <2>1. job' = [job EXCEPT !.phase = p, !.attempt = job.attempt + 1,
                           !.page = NoRows]
        /\ changed' = changed /\ clean' = clean
    BY <1>1 DEF Fail, Goto
  <2>2. /\ job'.phase = p /\ job'.date = job.date
        /\ job'.snapshot = job.snapshot /\ job'.offset = job.offset
        /\ job'.caller = job.caller
    BY <2>1 DEF TypeInv, TypeOK, Job
  <2> QED BY <2>1, <2>2
          DEF PagesInv, Unreported, Fetching, Prefix, Selected
<1>2. CASE ~(job.attempt < MaxAttempts)
  BY <1>2, GiveUpPages DEF Fail, Patching, Unreported
<1> QED BY <1>1, <1>2

LEMMA UnauthorizedPages ==
  ASSUME TypeInv, PagesInv, NEW call, Unauthorized(call),
         \/ call = "fetch" /\ job.phase = "fetch"
         \/ call = "patch" /\ job.phase = "patch",
         UNCHANGED <<table, today>>
  PROVE  PagesInv'
<1>1. CASE job.again
  BY <1>1, GiveUpPages DEF Unauthorized, Unreported
<1>2. CASE ~job.again
  <2>1. job' = [job EXCEPT !.phase = "login", !.attempt = 1, !.again = TRUE,
                           !.caller = call]
        /\ changed' = changed /\ clean' = clean
    BY <1>2 DEF Unauthorized, Goto
  <2>2. /\ job'.phase = "login" /\ job'.date = job.date
        /\ job'.snapshot = job.snapshot /\ job'.offset = job.offset
        /\ job'.caller = call
    BY <2>1 DEF TypeInv, TypeOK, Job
  <2> QED BY <2>1, <2>2
          DEF PagesInv, Unreported, Fetching, Prefix, Selected
<1> QED BY <1>1, <1>2

(* One step keeps the pages of a run that is alone in order.               *)
LEMMA StepPages ==
  TypeInv /\ RunInv /\ PagesInv /\ [Next]_vars => PagesInv'
<1> SUFFICES ASSUME TypeInv, RunInv, PagesInv, [Next]_vars PROVE PagesInv'
  OBVIOUS
<1> USE DEF Calling
<1>a. job \in Job /\ job.caller \in {"fetch", "patch"}
  BY DEF TypeInv, TypeOK, Job
<1>1. CASE \/ StartRun \/ save_pending_event \/ put_events
           \/ clear_pending_event \/ Crash
  <2>1. job'.phase \in {"idle", "start", "put", "clear"}
    BY <1>1, <1>a, IdleFits
    DEF StartRun, save_pending_event, put_events, clear_pending_event, Crash,
        Stop, Goto, Job
  <2> QED BY <2>1, PagesRead
<1>2. CASE Begin
  <2>1. /\ job' = [Idle EXCEPT !.phase = "login", !.date = today]
        /\ today' = today
    BY <1>2 DEF Begin, apiVars
  <2>2. /\ job'.phase = "login" /\ job'.date = today
        /\ job'.snapshot = NoRows /\ job'.offset = 0
    BY <2>1, IdleFits DEF Job, Idle
  <2>3. Cardinality(DOMAIN NoRows) = 0 /\ DOMAIN NoRows = {}
    BY NoRowsFits, FS_EmptySet
  <2> QED BY <2>1, <2>2, <2>3 DEF PagesInv, Prefix
<1>3. CASE login
  <2>1. /\ job'.phase = job.caller /\ job'.caller = job.caller
        /\ job'.date = job.date
        /\ job'.snapshot = job.snapshot /\ job'.offset = job.offset
    BY <1>3, <1>a DEF login, Goto, Job
  <2> QED BY <1>3, <1>a, <2>1
          DEF login, Goto, apiVars, PagesInv, Unreported, Fetching, Prefix,
              Selected
<1>4. CASE login_fails
  BY <1>4, FailPages, GiveUpPages
  DEF login_fails, apiVars, Patching, Unreported
<1>5. CASE fetch_rows
  <2> DEFINE rows == [id \in PageOf(job.offset) |-> table[id]]
  <2>1. /\ job' = [job EXCEPT !.phase = "count", !.page = rows]
        /\ UNCHANGED <<table, today, clean>>
    BY <1>5 DEF fetch_rows, Goto, apiVars
  <2>2. DOMAIN rows = PageOf(job.offset)
    OBVIOUS
  <2> HIDE DEF rows
  <2>3. /\ job'.phase = "count" /\ job'.date = job.date
        /\ job'.page = rows
        /\ job'.snapshot = job.snapshot /\ job'.offset = job.offset
    BY <2>1, <1>a DEF Job
  <2>4. PageOf(job.offset)' = PageOf(job.offset)
    BY <2>1, <2>3 DEF PageOf, Selected
  <2>5. \A S : Prefix(S) => Prefix(S)'
    BY <2>1 DEF Prefix, Selected
  <2>6. job.phase = "fetch"
    BY <1>5 DEF fetch_rows
  <2> QED BY <2>1, <2>2, <2>3, <2>4, <2>5, <2>6
          DEF PagesInv, Unreported, Fetching
<1>6. CASE fetch_count
  <2> DEFINE next == job.offset + Cardinality(DOMAIN job.page)
             seen == DOMAIN job.snapshot \union DOMAIN job.page
             rows == [id \in seen |-> IF id \in DOMAIN job.page
                                       THEN job.page[id] ELSE job.snapshot[id]]
             last == next >= Cardinality(Selected) \/ job.page = NoRows
  <2>1. /\ job' = [job EXCEPT !.phase = IF last THEN "evaluate" ELSE "fetch",
                              !.offset = next, !.snapshot = rows,
                              !.page = NoRows, !.attempt = 1, !.again = FALSE]
        /\ UNCHANGED <<table, today, clean>> /\ job.phase = "count"
    BY <1>6 DEF fetch_count, Goto, apiVars
  <2>2. DOMAIN rows = seen
    OBVIOUS
  <2> HIDE DEF next, seen, rows, last
  <2>3. /\ job'.phase = IF last THEN "evaluate" ELSE "fetch"
        /\ job'.date = job.date
        /\ job'.snapshot = rows /\ job'.offset = next
    BY <2>1, <1>a DEF Job
  <2> SUFFICES ASSUME clean PROVE PagesInv'
    BY <2>1 DEF PagesInv
  <2>4. /\ job.date = today /\ Prefix(DOMAIN job.snapshot)
        /\ job.offset = Cardinality(DOMAIN job.snapshot)
        /\ DOMAIN job.page = PageOf(Cardinality(DOMAIN job.snapshot))
    BY <2>1 DEF PagesInv, Unreported, Fetching
  <2>5. Prefix(seen) /\ next = Cardinality(seen)
    BY <2>4, NextPage DEF seen, next
  <2>6. last => seen = Selected
    <3>1. CASE next >= Cardinality(Selected)
      BY <2>4, <2>5, <3>1, NextPage DEF seen
    <3>2. CASE job.page = NoRows
      <4>1. PageOf(Cardinality(DOMAIN job.snapshot)) = {}
        BY <2>4, <3>2, NoRowsFits
      <4>2. DOMAIN job.snapshot = Selected
        BY <2>4, <4>1, NextPage
      <4> QED BY <2>4, <4>1, <4>2 DEF seen
    <3> QED BY <3>1, <3>2 DEF last
  <2>7. Selected' = Selected
    BY <2>1 DEF Selected
  <2>8. /\ DOMAIN job'.snapshot = seen
        /\ job'.offset = Cardinality(DOMAIN job'.snapshot)
    BY <2>2, <2>3, <2>5
  <2>9. Prefix(DOMAIN job.snapshot)'
    BY <2>5, <2>7, <2>8 DEF Prefix
  <2>10. CASE last
    <3>1. job'.phase = "evaluate"
      BY <2>3, <2>10
    <3> QED BY <2>1, <2>3, <2>4, <2>6, <2>7, <2>8, <2>10, <3>1
            DEF PagesInv, Fetching
  <2>11. CASE ~last
    <3>1. job'.phase = "fetch"
      BY <2>3, <2>11
    <3> QED BY <2>1, <2>3, <2>4, <2>8, <2>9, <3>1 DEF PagesInv, Fetching
  <2> QED BY <2>10, <2>11
<1>7. CASE fetch_fails
  BY <1>7, FailPages, UnauthorizedPages DEF fetch_fails, apiVars
<1>8. CASE evaluate_records
  <2>1. /\ NextBatch(Evaluated) /\ today' = today
        /\ job.phase = "evaluate"
    BY <1>8 DEF evaluate_records, Evaluated, Found, apiVars
  <2>2. /\ job'.phase \in {"save", "patch"} /\ job'.date = job.date
        /\ clean' = clean
    BY <2>1, EvaluatedFits, NextBatchFits, NextBatchIs
  <2> QED BY <2>1, <2>2, PagesRead DEF Unreported, Fetching
<1>9. CASE bulk_status_update
  <2>1. job'.phase = "serve" /\ job'.date = job.date
    BY <1>9, <1>a DEF bulk_status_update, Goto, Job
  <2> QED BY <1>9, <2>1, PagesRead
          DEF bulk_status_update, Goto, Unreported, Fetching
<1>10. ASSUME NEW s \in EvaluableStatus, bulk_apply(s) PROVE PagesInv'
  BY <1>10, PagesRead DEF bulk_apply, Unreported, Fetching
<1>11. CASE bulk_answer
  <2>1. /\ NextBatch(Answered) /\ today' = today /\ job.phase = "serve"
    BY <1>11 DEF bulk_answer, Answered, apiVars
  <2>2. /\ job'.phase \in {"save", "patch"} /\ job'.date = job.date
        /\ clean' = clean
    BY <2>1, AnsweredFits, NextBatchFits, NextBatchIs
  <2> QED BY <2>1, <2>2, PagesRead DEF Unreported, Fetching
<1>12. CASE bulk_fails
  BY <1>12, FailPages DEF bulk_fails, Patching
<1>13. CASE bulk_unauthorized
  BY <1>13, UnauthorizedPages DEF bulk_unauthorized, apiVars
<1>14. CASE put_fails
  BY <1>14, FailPages DEF put_fails, apiVars
<1>15. CASE Lingers \/ ClientWrites \/ NextDay
  BY <1>15
  DEF Lingers, LateUpdate, ClientWrites, Create, Correct, Close, Put, NextDay,
      Disturb, PagesInv, Unreported, Fetching
<1>16. CASE UNCHANGED vars
  BY <1>16
  DEF vars, PagesInv, Unreported, Fetching, Prefix, PageOf, Selected
<1> QED
  BY <1>1, <1>2, <1>3, <1>4, <1>5, <1>6, <1>7, <1>8, <1>9, <1>10, <1>11,
     <1>12, <1>13, <1>14, <1>15, <1>16
  DEF Next, Works, Fails

THEOREM PagesKept == Spec => []PagesInv
<1>1. Init => PagesInv
  BY InitPages
<1>2. TypeInv /\ RunInv /\ PagesInv /\ [Next]_vars => PagesInv'
  BY StepPages
<1> QED BY <1>1, <1>2, TypesKept, RunKept, PTL DEF Spec

-----------------------------------------------------------------------------
(* The work of a run that was alone.                                       *)

LEMMA InitSettled == Init => SettledInv
BY IdleFits DEF Init, SettledInv, Patching

LEMMA NothingLeft ==
  ASSUME NEW j \in Job, NextBatch(j), job'.phase = "save"
  PROVE  /\ j.todo = NoRows
         /\ job' = [j EXCEPT !.phase = "save", !.batch = NoRows]
<1>1. \A ids : [j EXCEPT !.phase = "patch", !.attempt = 1,
                        !.again = FALSE, !.batch = Keep(j.todo, ids),
                        !.todo = Drop(j.todo, ids)].phase # "save"
  BY DEF Job
<1> QED BY <1>1 DEF NextBatch, Goto

(* What has yet to be settled is cut into the next batch and the rest.     *)
LEMMA NextBatchSettled ==
  ASSUME TypeInv, NEW j \in Job, NextBatch(j), UNCHANGED <<table, today>>,
         clean /\ ~j.failed => Settling(j.todo)
  PROVE  SettledInv'
<1>1. clean' = clean /\ j.todo \in Updates
  BY NextBatchIs DEF Job
<1>2. Selected' = Selected /\ \A id : Due(id)' = Due(id)
  BY DEF Selected, Due
<1>3. CASE job'.phase = "save"
  <2>1. /\ job'.todo = j.todo /\ job'.batch = NoRows
        /\ job'.failed = j.failed /\ j.todo = NoRows
    BY <1>3, NothingLeft DEF Job
  <2> QED BY <1>1, <1>2, <1>3, <2>1, NoRowsFits DEF SettledInv, Settling
<1>4. ASSUME NEW ids,
             job' = [j EXCEPT !.phase = "patch", !.attempt = 1,
                              !.again = FALSE, !.batch = Keep(j.todo, ids),
                              !.todo = Drop(j.todo, ids)]
      PROVE  SettledInv'
  <2> DEFINE batch == Keep(j.todo, ids)
             rest == Drop(j.todo, ids)
  <2>1. /\ job'.phase = "patch" /\ job'.batch = batch /\ job'.todo = rest
        /\ job'.failed = j.failed
    BY <1>4 DEF Job
  <2>2. /\ DOMAIN batch = DOMAIN j.todo \intersect ids
        /\ DOMAIN rest = DOMAIN j.todo \ ids
    BY <1>1, Splitting
  <2>3. \A id \in DOMAIN batch : batch[id] = j.todo[id]
    BY <1>1, Splitting
  <2>4. \A id \in DOMAIN rest : rest[id] = j.todo[id]
    BY <1>1, Splitting
  <2> HIDE DEF batch, rest
  <2> QED BY <1>1, <1>2, <2>1, <2>2, <2>3, <2>4 DEF SettledInv, Settling
<1>5. \/ job'.phase = "save"
      \/ \E ids :
           job' = [j EXCEPT !.phase = "patch", !.attempt = 1,
                            !.again = FALSE, !.batch = Keep(j.todo, ids),
                            !.todo = Drop(j.todo, ids)]
  BY NextBatchIs DEF Job
<1> QED BY <1>3, <1>4, <1>5

LEMMA GiveUpSettled ==
  ASSUME TypeInv, NEW call, GiveUp(call), UNCHANGED <<table, today>>
  PROVE  SettledInv'
<1>1. CASE call = "patch"
  <2> DEFINE j == [job EXCEPT !.failed = TRUE]
  <2>1. j \in Job /\ j.failed
    BY DEF Job, TypeInv, TypeOK
  <2>2. NextBatch(j)
    BY <1>1 DEF GiveUp
  <2> HIDE DEF j
  <2> QED BY <2>1, <2>2, NextBatchSettled
<1>2. CASE call # "patch"
  BY <1>2, IdleFits DEF GiveUp, Stop, SettledInv, Patching
<1> QED BY <1>1, <1>2

LEMMA FailSettled ==
  ASSUME TypeInv, SettledInv, NEW p, NEW call, Fail(p, call),
         \/ p \in {"fetch", "put"}
         \/ p = "login" /\ job.phase = "login"
         \/ p = "patch" /\ job.phase \in {"patch", "serve"},
         UNCHANGED <<table, today>>
  PROVE  SettledInv'
<1>1. CASE job.attempt < MaxAttempts
  <2>1. job' = [job EXCEPT !.phase = p, !.attempt = job.attempt + 1,
                           !.page = NoRows]
        /\ changed' = changed /\ clean' = clean
    BY <1>1 DEF Fail, Goto
  <2>2. /\ job'.phase = p /\ job'.todo = job.todo /\ job'.batch = job.batch
        /\ job'.caller = job.caller /\ job'.failed = job.failed
    BY <2>1 DEF TypeInv, TypeOK, Job
  <2>3. Selected' = Selected /\ \A id : Due(id)' = Due(id)
    BY DEF Selected, Due
  <2> QED BY <2>1, <2>2, <2>3 DEF SettledInv, Patching
<1>2. CASE ~(job.attempt < MaxAttempts)
  BY <1>2, GiveUpSettled DEF Fail
<1> QED BY <1>1, <1>2

LEMMA UnauthorizedSettled ==
  ASSUME TypeInv, SettledInv, NEW call, Unauthorized(call),
         call \in {"fetch", "patch"}, call = "patch" => job.phase = "patch",
         UNCHANGED <<table, today>>
  PROVE  SettledInv'
<1>1. CASE job.again
  BY <1>1, GiveUpSettled DEF Unauthorized
<1>2. CASE ~job.again
  <2>1. job' = [job EXCEPT !.phase = "login", !.attempt = 1, !.again = TRUE,
                           !.caller = call]
        /\ changed' = changed /\ clean' = clean
    BY <1>2 DEF Unauthorized, Goto
  <2>2. /\ job'.phase = "login" /\ job'.todo = job.todo
        /\ job'.batch = job.batch /\ job'.caller = call
        /\ job'.failed = job.failed
    BY <2>1 DEF TypeInv, TypeOK, Job
  <2>3. Selected' = Selected /\ \A id : Due(id)' = Due(id)
    BY DEF Selected, Due
  <2> QED BY <2>1, <2>2, <2>3 DEF SettledInv, Patching
<1> QED BY <1>1, <1>2

(* A snapshot of all that is listed yields all that is not settled.        *)
LEMMA FoundSettles ==
  ASSUME TypeInv, PagesInv, ReportInv, job.phase = "evaluate", clean
  PROVE  Settling(Found)
<1>1. /\ job.date = today /\ DOMAIN job.snapshot = Selected
      /\ \A id \in DOMAIN job.snapshot : job.snapshot[id] = table[id]
  BY DEF PagesInv, Unreported, ReportInv, AloneInv, AloneJob, AloneReady,
         Current
<1>2. DOMAIN Found = Outdated
  BY DEF Found
<1>3. ASSUME NEW id \in Selected
      PROVE  Computed(job.snapshot[id]) = Due(id)
  BY <1>1, <1>3 DEF Computed, Due
<1>4. Outdated = {id \in Selected : Due(id) # table[id].status}
  BY <1>1, <1>3 DEF Outdated
<1>5. \A id \in Outdated : Found[id] = Due(id)
  BY <1>3, <1>4 DEF Found
<1> QED BY <1>2, <1>4, <1>5 DEF Settling

(* An UPDATE of the batch settles what it writes.                          *)
LEMMA ApplySettled ==
  ASSUME TypeInv, ReportInv, SettledInv, NEW s \in EvaluableStatus,
         bulk_apply(s)
  PROVE  SettledInv'
<1> DEFINE hit == Of(s, serving)
<1>1. /\ job.phase = "serve" /\ UpdateTo(s, serving)
      /\ serving' = Drop(serving, hit)
      /\ UNCHANGED <<job, clean, today>>
  BY DEF bulk_apply, Calling, outVars
<1>2. /\ \A id \in DOMAIN serving : id \in DOMAIN job.batch
      /\ \A id \in DOMAIN serving : serving[id] = job.batch[id]
      /\ \A id \in hit : serving[id] = s /\ id \in DOMAIN serving
  BY DEF ReportInv, BookInv, Of
<1>3. DOMAIN serving' = DOMAIN serving \ hit
  BY <1>1, Splitting DEF TypeInv, TypeOK
<1>4. \A id \in RecordId :
        \/ table'[id] = table[id]
        \/ /\ id \in Writable(serving) /\ serving[id] = s
           /\ table'[id].expiry = table[id].expiry
           /\ table'[id].status = s
  BY <1>1, UpdateKeeps
<1> HIDE DEF hit
<1> SUFFICES ASSUME clean, ~job.failed PROVE SettledInv'
  BY <1>1 DEF SettledInv
<1>5. /\ \A id \in DOMAIN job.todo : job.todo[id] = Due(id)
      /\ \A id \in DOMAIN job.batch : job.batch[id] = Due(id)
      /\ \A id \in Selected : \/ table[id].status = Due(id)
                              \/ id \in DOMAIN job.todo \union DOMAIN job.batch
      /\ \A id \in Selected \intersect DOMAIN job.batch :
           table[id].status = Due(id) \/ id \in DOMAIN serving
  BY <1>1 DEF SettledInv, Patching
<1>6. \A id \in RecordId : Due(id)' = Due(id)
  BY <1>1, <1>4 DEF Due
<1>7. DOMAIN job.todo \subseteq RecordId /\ DOMAIN job.batch \subseteq RecordId
  <2>1. job.todo \in Updates /\ job.batch \in Updates
    BY DEF TypeInv, TypeOK, Job
  <2> QED BY <2>1, UpdatesAre
<1>8. ASSUME NEW id \in Selected'
      PROVE  /\ id \in RecordId
             /\ \/ id \in Selected /\ table'[id] = table[id]
                \/ table'[id].status = Due(id)
  <2>1. id \in RecordId
    BY <1>8 DEF Selected
  <2>2. CASE table'[id] = table[id]
    BY <1>8, <2>1, <2>2 DEF Selected
  <2>3. CASE id \in Writable(serving) /\ serving[id] = s
             /\ table'[id].status = s
    <3>1. id \in DOMAIN serving
      BY <2>3 DEF Writable
    <3> QED BY <2>1, <2>3, <3>1, <1>2, <1>5
  <2> QED BY <2>1, <2>2, <2>3, <1>4
<1>9. ASSUME NEW id \in Selected', id \in DOMAIN job.batch,
             id \notin DOMAIN serving'
      PROVE  table'[id].status = Due(id)
  <2>1. CASE id \in Selected /\ table'[id] = table[id] /\ id \in hit
    <3>1. s = Due(id)
      BY <2>1, <1>2, <1>5
    <3>2. table[id] # None /\ table[id].status \in EvaluableStatus
      BY <2>1 DEF Selected, EvaluableStatus
    <3>3. CASE id \in Writable(serving)
      <4>1. table' [id] = [table[id] EXCEPT !.status = s]
        BY <1>1, <1>2, <1>8, <1>9, <2>1, <3>3 DEF UpdateTo
      <4>2. table[id] \in Row
        BY <1>8, <1>9, <3>2, RowFits
      <4> QED BY <3>1, <4>1, <4>2 DEF Row
    <3>4. CASE id \notin Writable(serving)
      BY <2>1, <3>1, <3>2, <3>4, <1>2 DEF Writable, Live
    <3> QED BY <3>3, <3>4
  <2>2. CASE id \in Selected /\ table'[id] = table[id] /\ id \notin hit
    BY <2>2, <1>3, <1>5, <1>9
  <2> QED BY <2>1, <2>2, <1>8, <1>9
<1>a. \A id \in Selected' :
        \/ table'[id].status = Due(id)'
        \/ id \in DOMAIN job.todo \union DOMAIN job.batch
  BY <1>5, <1>6, <1>8
<1>b. \A id \in Selected' \intersect DOMAIN job.batch :
        table'[id].status = Due(id)' \/ id \in DOMAIN serving'
  BY <1>6, <1>8, <1>9
<1>c. /\ \A id \in DOMAIN job.todo : job.todo[id] = Due(id)'
      /\ \A id \in DOMAIN job.batch : job.batch[id] = Due(id)'
  BY <1>5, <1>6, <1>7
<1> QED BY <1>1, <1>a, <1>b, <1>c DEF SettledInv

(* One step of a run that is alone leaves nothing behind.                  *)
LEMMA StepSettled ==
  TypeInv /\ RunInv /\ ReportInv /\ PagesInv /\ SettledInv /\ [Next]_vars
    => SettledInv'
<1> SUFFICES ASSUME TypeInv, RunInv, ReportInv, PagesInv, SettledInv,
                    [Next]_vars
             PROVE  SettledInv'
  OBVIOUS
<1> USE DEF Calling
<1>a. job \in Job /\ job.caller \in {"fetch", "patch"} /\ job.batch \in Updates
  BY DEF TypeInv, TypeOK, Job
<1>1. CASE \/ StartRun \/ Begin \/ fetch_rows \/ fetch_count
           \/ save_pending_event \/ put_events \/ clear_pending_event
           \/ Crash
  <2>1. \/ job'.phase \in {"idle", "start", "fetch", "count", "evaluate",
                           "put", "clear"}
        \/ job'.phase = "login" /\ job'.caller = "fetch"
    <3>1. CASE StartRun \/ Begin
      BY <1>1, <3>1 DEF StartRun, Begin, Goto, Idle
    <3>2. CASE fetch_rows \/ fetch_count
      BY <1>1, <1>a, <3>2 DEF fetch_rows, fetch_count, Goto, Job
    <3>3. CASE save_pending_event \/ put_events
      BY <1>1, <1>a, <3>3 DEF save_pending_event, put_events, Goto, Job
    <3>4. CASE clear_pending_event \/ Crash
      BY <1>1, <3>4 DEF clear_pending_event, Crash, Stop, Goto, Idle
    <3> QED BY <1>1, <3>1, <3>2, <3>3, <3>4
  <2> QED BY <2>1 DEF SettledInv, Patching
<1>2. CASE login
  <2>1. /\ job'.phase = job.caller /\ job'.caller = job.caller
        /\ job'.todo = job.todo /\ job'.batch = job.batch
        /\ job'.failed = job.failed
    BY <1>2, <1>a DEF login, Goto, Job
  <2>2. Selected' = Selected /\ \A id : Due(id)' = Due(id)
    BY <1>2 DEF login, apiVars, Selected, Due
  <2>3. table' = table /\ clean' = clean /\ job.phase = "login"
    BY <1>2 DEF login, Goto, apiVars
  <2>4. SettledInv'
           <=> (clean /\ ~job.failed /\ job.caller = "patch" =>
                  /\ \A id \in DOMAIN job.todo : job.todo[id] = Due(id)
                  /\ \A id \in DOMAIN job.batch : job.batch[id] = Due(id)
                  /\ \A id \in Selected :
                       \/ table[id].status = Due(id)
                       \/ id \in DOMAIN job.todo \union DOMAIN job.batch)
    BY <1>a, <2>1, <2>2, <2>3 DEF SettledInv, Patching
  <2> QED BY <2>3, <2>4 DEF SettledInv, Patching
<1>3. CASE login_fails
  BY <1>3, FailSettled, GiveUpSettled DEF login_fails, apiVars
<1>4. CASE fetch_fails
  BY <1>4, FailSettled, UnauthorizedSettled DEF fetch_fails, apiVars
<1>5. CASE evaluate_records
  <2>1. /\ NextBatch(Evaluated) /\ UNCHANGED <<table, today>>
        /\ job.phase = "evaluate"
    BY <1>5 DEF evaluate_records, Evaluated, Found, apiVars
  <2> QED BY <2>1, EvaluatedFits, FoundSettles, NextBatchSettled
<1>6. CASE bulk_status_update
  <2> DEFINE batch == job.batch
  <2>1. /\ job.phase = "patch" /\ serving' = Keep(batch, Writable(batch))
        /\ job' = [job EXCEPT !.phase = "serve"]
        /\ UNCHANGED <<table, today, clean>>
    BY <1>6 DEF bulk_status_update, Goto
  <2>2. /\ job'.phase = "serve" /\ job'.todo = job.todo
        /\ job'.batch = batch /\ job'.failed = job.failed
    BY <2>1, <1>a DEF Job
  <2>3. DOMAIN serving' = DOMAIN batch \intersect Writable(batch)
    BY <2>1, <1>a, Splitting
  <2>4. Selected' = Selected /\ \A id : Due(id)' = Due(id)
    BY <2>1 DEF Selected, Due
  <2> SUFFICES ASSUME clean, ~job.failed PROVE SettledInv'
    BY <2>1, <2>2 DEF SettledInv
  <2>5. ASSUME NEW id \in Selected, id \in DOMAIN batch,
               table[id].status # Due(id)
        PROVE  id \in Writable(batch)
    BY <2>1, <2>5
    DEF SettledInv, Patching, Selected, Writable, Live, EvaluableStatus
  <2> QED BY <2>1, <2>2, <2>3, <2>4, <2>5 DEF SettledInv, Patching
<1>7. ASSUME NEW s \in EvaluableStatus, bulk_apply(s) PROVE SettledInv'
  BY <1>7, ApplySettled
<1>8. CASE bulk_answer
  <2>1. /\ NextBatch(Answered) /\ serving = NoRows
        /\ UNCHANGED <<table, today>> /\ job.phase = "serve"
    BY <1>8 DEF bulk_answer, Answered, apiVars
  <2>2. clean /\ ~job.failed => Settling(job.todo)
    BY <2>1, NoRowsFits DEF SettledInv, Settling, Patching
  <2> QED BY <2>1, <2>2, AnsweredFits, NextBatchSettled
<1>9. CASE bulk_fails
  BY <1>9, FailSettled DEF bulk_fails
<1>10. CASE bulk_unauthorized
  BY <1>10, UnauthorizedSettled DEF bulk_unauthorized, apiVars
<1>11. CASE put_fails
  BY <1>11, FailSettled DEF put_fails, apiVars
<1>12. CASE Lingers \/ ClientWrites \/ NextDay
  BY <1>12
  DEF Lingers, LateUpdate, ClientWrites, Create, Correct, Close, Put, NextDay,
      Disturb, SettledInv, Patching
<1>13. CASE UNCHANGED vars
  <2>1. Selected' = Selected /\ \A id : Due(id)' = Due(id)
    BY <1>13 DEF vars, Selected, Due
  <2> QED BY <1>13, <2>1 DEF vars, SettledInv, Patching
<1> QED
  BY <1>1, <1>2, <1>3, <1>4, <1>5, <1>6, <1>7, <1>8, <1>9, <1>10, <1>11,
     <1>12, <1>13
  DEF Next, Works, Fails

THEOREM SettledKept == Spec => []SettledInv
<1>1. Init => SettledInv
  BY InitSettled
<1>2. /\ TypeInv /\ RunInv /\ ReportInv /\ PagesInv /\ SettledInv
      /\ [Next]_vars
      => SettledInv'
  BY StepSettled
<1> QED
  BY <1>1, <1>2, TypesKept, RunKept, ReportKept, PagesKept, PTL DEF Spec

(* A run that was alone and gave up no batch has given every active or     *)
(* expiring record the status of its date by the time it saves its event,  *)
(* whatever the sizes of pages and batches and however often it had to try *)
(* again.                                                                  *)
THEOREM CleanRunLeavesNothing == Spec => []CleanRunSettles
<1>1. RunInv /\ SettledInv => CleanRunSettles
  <2>1. RunInv /\ job.phase = "save" => job.batch = NoRows
    BY LocalsUnused DEF Patching
  <2> QED BY <2>1, NoRowsFits DEF SettledInv, CleanRunSettles, Calling
<1> QED BY <1>1, RunKept, SettledKept, PTL

=============================================================================
