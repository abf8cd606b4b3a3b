------------------------------ MODULE ExpiryJob -----------------------------
(***************************************************************************)
(* The scheduled expiry job (expiry-job/src) against the API's table,      *)
(* which clients go on writing, and the event bus.                         *)
(*                                                                         *)
(* A run republishes the event an earlier run left behind, logs in, reads  *)
(* every active and expiring record page by page, evaluates the snapshot   *)
(* against the day it started on, sends the updates in batches and         *)
(* publishes one event.  Every call can fail, be refused or be answered    *)
(* too late, and is tried again a bounded number of times; the process can *)
(* die at any step.  What survives it is the table, the pending file, the  *)
(* bus and the requests the API is still working on.                       *)
(*                                                                         *)
(* Runs do not overlap: the schedule starts one at a time.                 *)
(***************************************************************************)
EXTENDS FiniteSets, ComplianceStatus

CONSTANTS
  RecordId,     \* primary keys, in the order the list endpoint sorts by
  Days,         \* bound: the calendar days the model runs through
  ExpiryDates,  \* bound: the dates clients enter
  Correctable,  \* bound: the records whose date clients correct
  Buffer,       \* COMPLIANCE_EXPIRING_BUFFER_DAYS
  PageSize,     \* FETCH_PAGE_SIZE
  BatchSize,    \* PATCH_BATCH_SIZE
  MaxAttempts,  \* 1 + length of RETRY_DELAYS_SECONDS
  MaxLate,      \* bound: abandoned requests the API still works on
  None          \* no row

ASSUME JobConstantsOK ==
  /\ RecordId \subseteq Nat /\ IsFiniteSet(RecordId)
  /\ Days \subseteq Nat /\ Days # {}
  /\ ExpiryDates \subseteq Nat
  /\ Correctable \subseteq RecordId
  /\ Buffer \in Nat
  /\ PageSize \in Nat \ {0}
  /\ BatchSize \in Nat \ {0}
  /\ MaxAttempts \in Nat \ {0}
  /\ MaxLate \in Nat
  /\ None \notin [expiry : ExpiryDates, status : Status]

VARIABLES
  table,    \* compliance_records: the row of each key, or None
  today,    \* the day on every clock
  serving,  \* updates the API has yet to make of the batch being sent
  late,     \* the same for each request the job no longer waits for
  pending,  \* the pending-event file
  bus,      \* events EventBridge took from the runs still in view
  runId,    \* name of the latest run
  job,      \* local variables of the running process
  changed,  \* history: ids whose row this run's requests changed
  clean     \* history: nobody else wrote since the run began

vars ==
  <<table, today, serving, late, pending, bus, runId, job, changed, clean>>

-----------------------------------------------------------------------------
(* Data.                                                                   *)

Row     == [expiry : ExpiryDates, status : Status]
RunId   == {0, 1}      \* a uuid each: only two runs need telling apart
Event   == [run : RunId, date : Days, changed : SUBSET RecordId]
NoEvent == [run |-> -1]
NoDay   == -1
NoRows  == [id \in {} |-> None]
Updates == UNION {[ids -> EvaluableStatus] : ids \in SUBSET RecordId}
Rows    == UNION {[ids -> Row] : ids \in SUBSET RecordId}
Phase   == {"idle", "start", "login", "fetch", "count", "evaluate", "patch",
            "serve", "save", "put", "clear"}

(* phase: the call made next.  attempt, again: how often it was tried, and *)
(* whether it follows a second login.  caller: the call that login serves. *)
(* resuming: the event being published is an earlier run's.  updates: what *)
(* evaluate_records returned; todo: the part not yet sent.                 *)
Job == [phase : Phase, attempt : 1..MaxAttempts, again : BOOLEAN,
        caller : {"fetch", "patch"}, resuming : BOOLEAN,
        date : Days \union {NoDay}, offset : Nat,
        page : Rows, snapshot : Rows, todo : Updates, batch : Updates,
        successful : SUBSET RecordId, failed : BOOLEAN]

Idle == [phase |-> "idle", attempt |-> 1, again |-> FALSE,
         caller |-> "fetch", resuming |-> FALSE, date |-> NoDay, offset |-> 0,
         page |-> NoRows, snapshot |-> NoRows, todo |-> NoRows,
         batch |-> NoRows, successful |-> {}, failed |-> FALSE]

TypeOK ==
  /\ table \in [RecordId -> Row \union {None}]
  /\ today \in Days
  /\ serving \in Updates
  /\ late \subseteq Updates /\ Cardinality(late) <= MaxLate
  /\ pending \in Event \union {NoEvent}
  /\ bus \subseteq Event
  /\ runId \in RunId
  /\ job \in Job
  /\ changed \subseteq RecordId
  /\ clean \in BOOLEAN

Live(id)    == table[id] # None /\ table[id].status \in EvaluableStatus
Due(id)     == computeComplianceStatus(table[id].expiry, today, Buffer)
Keep(f, S)  == [id \in DOMAIN f \intersect S |-> f[id]]
Drop(f, S)  == [id \in DOMAIN f \ S |-> f[id]]

Init ==
  /\ table = [id \in RecordId |-> None]
  /\ today \in Days /\ \A d \in Days : today <= d
  /\ serving = NoRows
  /\ late = {}
  /\ pending = NoEvent
  /\ bus = {}
  /\ runId = 0
  /\ job = Idle
  /\ changed = {}
  /\ clean = TRUE

-----------------------------------------------------------------------------
(* The API as the job sees it; ComplianceApi has its statements.           *)

(* Mutant: what is expiring already is not asked for.                      *)
SelectedActive ==
  {id \in RecordId : table[id] # None /\ table[id].status = "active"}

(* What GET /compliance-records?status=active,expiring selects, and the    *)
(* part of it on one page: the list is ordered by id.                      *)
Selected ==
  {id \in RecordId : table[id] # None
                     /\ table[id].status \in {"active", "expiring"}}

PageOf(from) ==
  {id \in Selected :
     LET rank == Cardinality({other \in Selected : other < id})
     IN from <= rank /\ rank < from + PageSize}

(* The rows a bulk-status request may still write.                         *)
Writable(items) ==
  {id \in DOMAIN items : Live(id) /\ table[id].status # items[id]}

(* One UPDATE of PATCH /compliance-records/bulk-status: every row of items *)
(* asked to take status s that is neither closed nor there already.        *)
UpdateTo(s, items) ==
  table' = [id \in RecordId |->
              IF id \in Writable(items) /\ items[id] = s
                THEN [table[id] EXCEPT !.status = s] ELSE table[id]]

Of(s, items) == {id \in DOMAIN items : items[id] = s}

(* Somebody else writes: the run under way, if any, is no longer alone.    *)
Disturb == clean' = (job.phase = "idle")

(* Requests of other clients: the rows they write, each in one step.  The  *)
(* API computes the status from the new date.                              *)
Put(id, row) ==
  /\ table' = [table EXCEPT ![id] = row]
  /\ Disturb
  /\ UNCHANGED <<today, serving, late, pending, bus, runId, job, changed>>

Dated(d) ==
  [expiry |-> d, status |-> computeComplianceStatus(d, today, Buffer)]

Create(id, d) == table[id] = None /\ Put(id, Dated(d))

Correct(id, d) ==
  id \in Correctable /\ Live(id) /\ d # table[id].expiry /\ Put(id, Dated(d))

Close(id, s) == Live(id) /\ Put(id, [table[id] EXCEPT !.status = s])

ClientWrites ==
  \E id \in RecordId :
    \/ \E d \in ExpiryDates : Create(id, d) \/ Correct(id, d)
    \/ \E s \in TerminalStatus : Close(id, s)

NextDay ==
  /\ today' \in {d \in Days : d > today}
  /\ \A d \in Days : d > today => today' <= d
  /\ Disturb
  /\ UNCHANGED <<table, serving, late, pending, bus, runId, job, changed>>

(* An UPDATE of a request whose caller has gone.                           *)
LateUpdate(items, s) ==
  /\ Of(s, items) # {}
  /\ UpdateTo(s, items)
  /\ late' = ((late \ {items}) \union {Drop(items, Of(s, items))}) \ {NoRows}
  /\ Disturb
  /\ UNCHANGED <<today, serving, pending, bus, runId, job, changed>>

(* The request an abandoned call leaves behind: dropped, or still served.  *)
Abandon(items) ==
  \/ UNCHANGED late
  \/ /\ items # NoRows
     /\ Cardinality(late \union {items}) <= MaxLate
     /\ late' = late \union {items}

-----------------------------------------------------------------------------
(* The run.  Each call of the job is made in the phase of its name.        *)

Calling(p) == job.phase = p

apiVars == <<table, today, serving, late>>
outVars == <<pending, bus, runId>>

(* The process ends, in good order or not.                                 *)
Stop == job' = Idle /\ changed' = {} /\ clean' = TRUE

Goto(j) == job' = j /\ UNCHANGED <<changed, clean>>

(* The batches the updates of todo can be cut into: full ones, and last    *)
(* the rest.  Which ids share a batch depends on the order of the snapshot.*)
Chunks(todo) ==
  {ids \in SUBSET DOMAIN todo :
     \/ Cardinality(ids) = BatchSize
     \/ ids = DOMAIN todo /\ Cardinality(ids) < BatchSize}

(* apply_status_updates goes on with the next batch, or is done.           *)
NextBatch(j) ==
  IF j.todo = NoRows
    THEN Goto([j EXCEPT !.phase = "save", !.batch = NoRows])
    ELSE \E ids \in Chunks(j.todo) :
           Goto([j EXCEPT !.phase = "patch", !.attempt = 1, !.again = FALSE,
                          !.batch = Keep(j.todo, ids),
                          !.todo = Drop(j.todo, ids)])

(* Mutant: a failed batch is logged but not counted.                       *)
GiveUpUncounted(call) ==
  IF call = "patch" THEN NextBatch(job) ELSE Stop

(* ApiClientError: a batch is skipped, any other call ends the run.        *)
GiveUp(call) ==
  IF call = "patch" THEN NextBatch([job EXCEPT !.failed = TRUE]) ELSE Stop

(* Mutant: one attempt more than there are delays.                         *)
FailOnceMore(p, call) ==
  IF job.attempt <= MaxAttempts
    THEN Goto([job EXCEPT !.phase = p, !.attempt = @ + 1, !.page = NoRows])
    ELSE GiveUp(call)

(* _request_with_retry and _put_events_with_retry, after a failed attempt. *)
Fail(p, call) ==
  IF job.attempt < MaxAttempts
    THEN Goto([job EXCEPT !.phase = p, !.attempt = @ + 1, !.page = NoRows])
    ELSE GiveUp(call)

(* _authorized_request, after an error that says 401: an expired token, or *)
(* any answer with 401 in its text.                                        *)
Unauthorized(call) ==
  IF job.again
    THEN GiveUp(call)
    ELSE Goto([job EXCEPT !.phase = "login", !.attempt = 1, !.again = TRUE,
                          !.caller = call])

(* Mutant: a new run does not look for a pending event.                    *)
StartRunAfresh ==
  /\ Calling("idle")
  /\ Goto([Idle EXCEPT !.phase = "start"])
  /\ UNCHANGED <<apiVars, outVars>>

(* republish_pending_event comes first: it publishes under the old name.   *)
StartRun ==
  /\ Calling("idle")
  /\ IF pending = NoEvent
       THEN Goto([Idle EXCEPT !.phase = "start"])
       ELSE Goto([Idle EXCEPT !.phase = "put", !.resuming = TRUE])
  /\ UNCHANGED <<apiVars, outVars>>

(* The run takes its name and its day.                                     *)
Begin ==
  /\ Calling("start")
  /\ runId' = 1 - runId
  /\ bus' = {event \in bus : event.run # runId'}
  /\ job' = [Idle EXCEPT !.phase = "login", !.date = today]
  /\ changed' = {}
  /\ clean' = TRUE
  /\ UNCHANGED <<apiVars, pending>>

login ==
  /\ Calling("login")
  /\ Goto([job EXCEPT !.phase = job.caller, !.attempt = 1])
  /\ UNCHANGED <<apiVars, outVars>>

login_fails ==
  /\ Calling("login")
  /\ Fail("login", job.caller) \/ GiveUp(job.caller)
  /\ UNCHANGED <<apiVars, outVars>>

(* A page is read by two queries: its rows, then the total.                *)
fetch_rows ==
  /\ Calling("fetch")
  /\ Goto([job EXCEPT !.phase = "count",
                      !.page = [id \in PageOf(job.offset) |-> table[id]]])
  /\ UNCHANGED <<apiVars, outVars>>

(* Mutant: the loop only ends when the total is reached.                  *)
fetch_countUntilFull ==
  LET next == job.offset + Cardinality(DOMAIN job.page)
      seen == DOMAIN job.snapshot \union DOMAIN job.page
      rows == [id \in seen |-> IF id \in DOMAIN job.page
                                 THEN job.page[id] ELSE job.snapshot[id]]
      last == next >= Cardinality(Selected)
  IN /\ Calling("count")
     /\ Goto([job EXCEPT !.phase = IF last THEN "evaluate" ELSE "fetch",
                         !.offset = next, !.snapshot = rows, !.page = NoRows,
                         !.attempt = 1, !.again = FALSE])
     /\ UNCHANGED <<apiVars, outVars>>

(* Mutant: the last page is taken for one too many.                       *)
fetch_countShort ==
  LET next == job.offset + Cardinality(DOMAIN job.page)
      seen == DOMAIN job.snapshot \union DOMAIN job.page
      rows == [id \in seen |-> IF id \in DOMAIN job.page
                                 THEN job.page[id] ELSE job.snapshot[id]]
      last == next + 1 >= Cardinality(Selected) \/ job.page = NoRows
  IN /\ Calling("count")
     /\ Goto([job EXCEPT !.phase = IF last THEN "evaluate" ELSE "fetch",
                         !.offset = next, !.snapshot = rows, !.page = NoRows,
                         !.attempt = 1, !.again = FALSE])
     /\ UNCHANGED <<apiVars, outVars>>

(* The job extends its snapshot; deduplicate_records keeps the last row    *)
(* seen of each id.                                                        *)
fetch_count ==
  LET next == job.offset + Cardinality(DOMAIN job.page)
      seen == DOMAIN job.snapshot \union DOMAIN job.page
      rows == [id \in seen |-> IF id \in DOMAIN job.page
                                 THEN job.page[id] ELSE job.snapshot[id]]
      last == next >= Cardinality(Selected) \/ job.page = NoRows
  IN /\ Calling("count")
     /\ Goto([job EXCEPT !.phase = IF last THEN "evaluate" ELSE "fetch",
                         !.offset = next, !.snapshot = rows, !.page = NoRows,
                         !.attempt = 1, !.again = FALSE])
     /\ UNCHANGED <<apiVars, outVars>>

fetch_fails ==
  /\ Calling("fetch") \/ Calling("count")
  /\ Fail("fetch", "fetch") \/ (Calling("fetch") /\ Unauthorized("fetch"))
  /\ UNCHANGED <<apiVars, outVars>>

(* Mutant: the last day counts as expired.                                 *)
ComputedStrict(row) ==
  computeComplianceStatus(row.expiry - 1, job.date, Buffer)

(* The status the run's own day gives a row of the snapshot.               *)
Computed(row) == computeComplianceStatus(row.expiry, job.date, Buffer)

(* The ids of the snapshot an update is made for.                          *)
Outdated == {id \in DOMAIN job.snapshot :
               Computed(job.snapshot[id]) # job.snapshot[id].status}

evaluate_records ==
  /\ Calling("evaluate")
  /\ NextBatch([job EXCEPT
       !.snapshot = NoRows, !.offset = 0,
       !.todo = [id \in Outdated |-> Computed(job.snapshot[id])]])
  /\ UNCHANGED <<apiVars, outVars>>

(* The API takes a batch, makes its updates, and answers.                  *)
bulk_status_update ==
  /\ Calling("patch")
  /\ serving' = Keep(job.batch, Writable(job.batch))
  /\ Goto([job EXCEPT !.phase = "serve"])
  /\ UNCHANGED <<table, today, late, outVars>>

bulk_apply(s) ==
  /\ Calling("serve") /\ Of(s, serving) # {}
  /\ UpdateTo(s, serving)
  /\ serving' = Drop(serving, Of(s, serving))
  /\ changed' = changed \union (Of(s, serving) \intersect Writable(serving))
  /\ UNCHANGED <<today, late, outVars, job, clean>>

bulk_answer ==
  /\ Calling("serve") /\ serving = NoRows
  /\ NextBatch([job EXCEPT !.successful = @ \union DOMAIN job.batch])
  /\ UNCHANGED <<apiVars, outVars>>

InFlight == IF Calling("patch") THEN job.batch ELSE serving

bulk_fails ==
  /\ Calling("patch") \/ Calling("serve")
  /\ Abandon(InFlight)
  /\ serving' = NoRows
  /\ Fail("patch", "patch")
  /\ UNCHANGED <<table, today, outVars>>

bulk_unauthorized ==
  /\ Calling("patch")
  /\ Unauthorized("patch")
  /\ UNCHANGED <<apiVars, outVars>>

(* publish_event: the event is in the file before it is on the bus, and in *)
(* the file until it is known to be there.                                 *)
save_pending_event ==
  /\ Calling("save")
  /\ pending' = [run |-> runId, date |-> job.date, changed |-> job.successful]
  /\ Goto([job EXCEPT !.phase = "put", !.attempt = 1, !.again = FALSE])
  /\ UNCHANGED <<apiVars, bus, runId>>

put_events ==
  /\ Calling("put")
  /\ bus' = bus \union {pending}
  /\ Goto([job EXCEPT !.phase = "clear", !.attempt = 1])
  /\ UNCHANGED <<apiVars, pending, runId>>

(* Refused, timed out, or accepted by a bus whose answer was lost.         *)
put_fails ==
  /\ Calling("put")
  /\ bus' = bus \/ bus' = bus \union {pending}
  /\ Fail("put", "put")
  /\ UNCHANGED <<apiVars, pending, runId>>

clear_pending_event ==
  /\ Calling("clear")
  /\ pending' = NoEvent
  /\ IF job.resuming THEN Goto([Idle EXCEPT !.phase = "start"]) ELSE Stop
  /\ UNCHANGED <<apiVars, bus, runId>>

(* The process dies.                                                       *)
Crash ==
  /\ ~Calling("idle")
  /\ Abandon(InFlight)
  /\ serving' = NoRows
  /\ Stop
  /\ UNCHANGED <<table, today, outVars>>

Works ==
  \/ StartRun \/ Begin \/ login \/ fetch_rows \/ fetch_count
  \/ evaluate_records \/ bulk_status_update \/ bulk_answer
  \/ \E s \in EvaluableStatus : bulk_apply(s)
  \/ save_pending_event \/ put_events \/ clear_pending_event

Fails ==
  login_fails \/ fetch_fails \/ bulk_fails \/ bulk_unauthorized \/ put_fails

Lingers == \E items \in late : \E s \in EvaluableStatus : LateUpdate(items, s)

Next == Works \/ Fails \/ Lingers \/ Crash \/ ClientWrites \/ NextDay

Spec == Init /\ [][Next]_vars

(* A started process runs and the schedule starts the next; the API ends   *)
(* what it works on; the bus, asked again and again, takes an event.       *)
FairSpec ==
  /\ Spec
  /\ WF_vars(Works \/ Fails)
  /\ WF_vars(Lingers)
  /\ SF_vars(put_events)

-----------------------------------------------------------------------------
(* Properties.                                                             *)

(* A status never runs ahead of the calendar: while nobody corrects its    *)
(* date, no job, late request or retry marks a record expired, or about to *)
(* expire, before the day its date says.  (evaluate_records against the    *)
(* run's day, bulk-status applied late.)                                   *)
Rank(s) == IF s = "active" THEN 0 ELSE IF s = "expiring" THEN 1 ELSE 2
NeverEarly ==
  \A id \in RecordId \ Correctable :
    Live(id) => Rank(table[id].status) <= Rank(Due(id))

(* A run that was alone, and lost no batch, leaves no record behind: when  *)
(* it saves its event every active or expiring record has the status of    *)
(* its date, however the pages and batches were cut.                       *)
CleanRunSettles ==
  Calling("save") /\ clean /\ ~job.failed =>
    \A id \in Selected : table[id].status = Due(id)

(* The event tells what the run did: a run that lost no batch reports      *)
(* every row its requests changed, also in attempts whose answer was lost, *)
(* and a run that was alone reports no other.                              *)
FaithfulReport ==
  Calling("put") /\ ~job.resuming =>
    /\ ~job.failed => changed \subseteq pending.changed
    /\ clean => pending.changed \subseteq changed

(* Events are written, delivered at least once under one name, forgotten.  *)
Outbox == INSTANCE EventOutbox WITH unsent <- pending
OutboxSpec == Outbox!Spec

(* Every run ends, whatever clients write while it reads its pages.        *)
RunEnds == ~Calling("idle") ~> Calling("idle")

(* Once the clients, the clock and the faults rest, the next runs repair   *)
(* what earlier ones missed: only a record whose date was corrected can    *)
(* stay expired by mistake.                                                *)
Trouble == Fails \/ Crash \/ ClientWrites \/ NextDay
NextRunRepairs ==
  <>[][~Trouble]_vars => <>[](\A id \in RecordId :
    Live(id) /\ (id \in Correctable => table[id].status # "expired")
      => table[id].status = Due(id))

(* ... and even that record is healed.                                     *)
CorrectedDateHeals ==
  <>[][~Trouble]_vars => <>[](\A id \in RecordId :
    Live(id) => table[id].status = Due(id))
=============================================================================
