# Employee compliance tracking: specifications, model checks and proofs

The system keeps compliance records (visas, licences, trainings...) of the
employees of a company. A NestJS API over MySQL serves a Svelte frontend and a
daily Python job that moves records through `active`, `expiring` and `expired`
as days pass and reports the changes as an event. This directory models it in
TLA+, checks small instances with TLC, and proves the properties that matter
most with TLAPS for every value of the constants.

    tlc -workers 2 -config api_serial.cfg MCComplianceApi.tla     # model checking
    tlc -workers 2 -config job_safety.cfg ExpiryJob.tla
    tlc -workers 2 -config frontend.cfg MCFrontend.tla
    tlapm ComplianceApiProofs.tla                                 # proofs
    tlapm ComplianceSerialProofs.tla
    tlapm ComplianceGuardedProofs.tla
    tlapm ExpiryJobProofs.tla
    tlapm DashboardQueriesProofs.tla
    tlapm FrontendProofs.tla

## 1. The system

| Component | State | Operations | Talks to |
|---|---|---|---|
| Compliance records API (`backend/src/compliance/compliance-records`) | table `compliance_records`: employee, type, two dates, status, `deletedAt`, `renewedFromId` | create, list, get, update, renew, bulk status, archive | MySQL through TypeORM; called by the frontend and the job |
| Employees API (`backend/src/compliance/employees`) | table `employees`: name, department, `deletedAt` | create, list, get, update, archive with cascade to the records | MySQL; called by the frontend |
| Status rule (`backend/src/common`, `expiry-job/src/status.py`) | none; today's date in `COMPLIANCE_TIMEZONE` and the look-ahead buffer | `computeComplianceStatus`, implemented twice | used by every write of a status |
| Expiry job (`expiry-job/src`) | snapshot, batches, access token, pending-event file | fetch pages, evaluate, PATCH batches with retries, publish | HTTP to the API, EventBridge |
| Dashboard (`backend/src/dashboard`) | none | metrics in one to three queries, expiring window | MySQL |
| Authentication (`backend/src/auth`) | users, stateless JWTs | login, guard | every request |
| Frontend (`frontend/src`) | per page: filters, page, form, pending request; token in storage | load, submit, renew, archive, logout on 401 | HTTP to the API |
| Schema, migrations, seed; wiring; deployment | - | one-shot scripts | - |

What is hard about it:

* **Interleaving.** A handler gives up control at every `await`. Only `renew`
  and the employee archive run in a transaction, and no read takes a lock, so
  a row may change between the statement that read it and the one that writes
  it. TypeORM's `save()` of a loaded entity reads the row again and writes
  *every column in which the two differ*, `deletedAt` included, with no
  condition but the id.
* **Partial failure.** `DELETE /compliance-records/:id` is two saves, a bulk
  request is up to three UPDATEs; the job's run is dozens of requests, a file
  and a publish.
* **Retries and lateness.** The job retries requests that may have been applied,
  and its snapshot is old when it is used.
* **Locks.** A renewal share-locks the record it renews through the foreign key
  and then updates it: two renewals of one record deadlock, and InnoDB rolls one
  back.

What makes each component correct: *records* - closed records stay closed, a
record is renewed once and as a whole, history is never rewritten, dates are
ordered, no live record belongs to an archived employee; *job* - after an
undisturbed run every live record has the status of its date, closed records
are never touched, each change is reported at least once under one `runId`;
*dashboard* - a breakdown sums to its total; *frontend* - what is shown answers
the last question asked.

## 2. Modules

| Module | Kind | Models |
|---|---|---|
| `ComplianceStatus` | operators | status enum, terminal statuses, the rule of `compliance-status.util.ts`. A date is a day number: the ISO strings the code compares are ordered like the days they name |
| `ComplianceApi` | core specification | the handlers of `ComplianceRecordService` and `EmployeeService` over the two tables |
| `RecordLifecycle` | abstract specification | what the API promises: a record is opened, renewed or archived in one step and then never changes; an employee is archived together with its records |
| `MCComplianceApi` | model checking | symmetry for the finite instances |
| `ComplianceApiProofs` | proofs | the API's inductive invariant and its theorems |
| `ComplianceSerialProofs` | proofs | what the API keeps when it serves one request at a time, and that it implements `RecordLifecycle` then |
| `ComplianceGuardedProofs` | proofs | what the API keeps under concurrent requests when the endpoint, or the crash, that is to blame does not occur |
| `ExpiryJob` | core specification | the scheduled job, call by call, against the table that clients write and the event bus |
| `EventOutbox` | abstract specification | what the job promises about events: written down, delivered under one name, then forgotten |
| `ExpiryJobProofs` | proofs | the job's invariants and its theorems |
| `ApiClient` | component | token, navigation and requests in flight: `api.ts`, `auth.ts`, the layout, the sign-in page, and the guard of the API as they meet it |
| `DashboardQueries` | operators | `getMetrics` and `getExpiring` as functions of the table, and their paging |
| `DashboardQueriesProofs` | proofs | what the two queries answer, for every finite table |
| `DashboardPage` | component | `routes/+page.svelte`: two numbered loads, breakdowns, windows, pages |
| `RecordsPage` | component | `routes/records/+page.svelte`: the list, two forms, the archive dialog |
| `Frontend` | composition | the pages over the shared session, the user, the API's answers, fairness |
| `MCFrontend` | model checking | three records the dashboard counts |
| `FrontendProofs` | proofs | the web client's inductive invariant and its theorems |

`ComplianceApi` and `ExpiryJob` share `ComplianceStatus`. `ExpiryJob` does not
instantiate `ComplianceApi`: it takes the other clients' requests as one step
per row they write (`Create`, `Correct`, `Close`), because what the job reads
and overwrites is rows, and keeps the statements of the one endpoint it calls
(`bulk_status_update`, `bulk_apply`). `Frontend` leaves the records to the API
in the same way: an answer may come, fail, or find its page gone.

### State and actions of `ComplianceApi`

`records[id]` is the committed row (`None`: no such row), `employees[e]` is
`absent`, `live` or `archived` (`deletedAt`), `nextId` is the AUTO_INCREMENT
counter, which a rollback does not give back, `today` the calendar day. Each of
`Workers` is a request in service: `pc[w]` names the database statement it
executes next, `ctx[w]` its handler's locals. What an open transaction has
written stays in `ctx` until the step that commits it, so the tables always
show what other connections can read.

| Endpoint | Actions | Code (`compliance-record.service.ts`, `employee.service.ts`) |
|---|---|---|
| `POST /compliance-records` | `create` (employee check, date check, status), `create_insert` | `create` |
| `PATCH /compliance-records/:id` | `update` (findOne, guards, new dates and status), `update_reload`, `update_write` (the SELECT and the UPDATE of `save()`) | `update` |
| `POST /compliance-records/:id/renew` | `renew` (findOne, guards), `renew_insert`, `renew_close` (save, soft delete, COMMIT), `renew_deadlock` | `renew` |
| `PATCH /compliance-records/bulk-status` | `bulkStatusUpdate` (SELECT and filter), `bulk_apply` once per status asked for | `bulkStatusUpdate` |
| `DELETE /compliance-records/:id` | `archive`, `archive_reload`, `archive_write`, `archive_softDelete` | `archive` |
| `POST /employees` | `createEmployee` | `EmployeeService.create` |
| `PATCH /employees/:id` | `updateEmployee`, `updateEmployee_reload`, `updateEmployee_write` | `EmployeeService.update` |
| `DELETE /employees/:id` | `archiveEmployee`, `archiveEmployee_softRemove`, `archiveEmployee_cascade` (UPDATE and COMMIT) | `EmployeeService.archive` |
| - | `crash(w)`: the request dies between two statements; `midnight`; `insert_fails`: no id is left | - |

Steps that are merged are merged because nothing can come between them: the
save, the soft delete and the commit of a renewal all follow the exclusive lock
of the old row, and are invisible before the commit; the same holds for the
cascade and the commit of an employee archive.

A request that is refused (404, 400) changes nothing, and is left out: its
guard is simply false. Reads and wording are left out.

**External parts**, modelled from how the code uses them: TypeORM's `save()`
(`Reload`, `ChangedColumns`, `WriteColumns`, `WriteBack`), and InnoDB's row
locks under its default isolation level (`CanWriteRecord`, `CanShareEmployee`,
`CanWriteEmployee`, `renew_deadlock`). Plain SELECTs read committed rows.
Inside `renew` the reload done by `save()` reads the transaction's own
snapshot, hence the row that `findOne` returned: only `status` differs, and the
UPDATE of it falls on the row as it is by then.

### State and actions of `ExpiryJob`

`table` is what the list endpoint reads, `serving` the updates the API has yet
to make of the batch being sent, `late` the same for requests whose caller has
given up, `pending` the pending-event file, `bus` what EventBridge took, `job`
the locals of the process. `changed` and `clean` are history: what this run's
requests changed, and whether anybody else wrote since it began.

| Step of the code | Actions |
|---|---|
| `republish_pending_event` before anything else | `StartRun`, then `put_events`, `clear_pending_event` with `resuming` |
| a new `runId`, the day of the run | `Begin` |
| `login`, also a second time after an error whose text holds 401 | `login`, `login_fails`, `Unauthorized` |
| `fetch_all_active_expiring`: the rows of a page, its total, the end of the loop | `fetch_rows`, `fetch_count`, `fetch_fails` |
| `deduplicate_records`, `evaluate_records` | `evaluate_records` (the last row seen of an id wins) |
| `apply_status_updates`, one PATCH after another | `bulk_status_update` (the API's SELECT), `bulk_apply(s)` (one UPDATE per status), `bulk_answer`, `bulk_fails`, `bulk_unauthorized` |
| `publish_event` | `save_pending_event`, `put_events`, `put_fails`, `clear_pending_event` |
| - | `LateUpdate` (an abandoned request is served all the same), `Crash`, `NextDay`, `ClientWrites` |

A failed call (`Fail`) is tried again up to `MaxAttempts` times; then a batch is
skipped and the run goes on, any other call ends the run (`GiveUp`). A PATCH or
a publish that failed may have been applied, in part or not at all, or may still
be. Runs do not overlap.

### State and actions of the web client

`requests` are the calls the browser waits for, oldest first; each keeps the
token and the page it was sent from. `Frontend!Answer(i)` takes any of them:
success, an error, a 401 (`Unauthorized`: drop the token, leave for the sign-in
page), or an answer to code whose page is gone (`Forgotten`). `TokenEnds` ends
the token of some of them before the API looks. `Leave` is a navigation, with the
layout's redirects (`Arrival`) and the calls of the new page's `onMount`.

* The dashboard numbers its loads. `dash.metrics` and `dash.shown` hold the
  choice that the numbers and rows on screen answer; `latest` in a request is
  whether its number is the current one. What an answer says of the records is
  `DashboardQueries`: `getMetrics` with three separate statements, `getExpiring`
  with its window, order, limit and offset, `goNext` for the pager.
* The records page does not number its loads, and its forms can be closed while
  their request is under way: `editing`, `origin` (the record the fields were
  filled from), `renewing`, `archiveTarget` and the three busy flags are kept,
  the rows on screen are not. The `finally` clause that releases a button runs
  when the list that follows the request has come (`busy`).

### Properties of the API

| Property | Says | Holds |
|---|---|---|
| `TypeOK` | types of tables and locals | always (proved) |
| `RenewalLinks` | a record names as the one it renews an older, existing record of the same employee and type | always (proved) |
| `RenewedHasSuccessor` | a renewed record has a record that replaces it | always (proved) |
| `HistoryKept` | no row disappears; employee, type and renewal link never change | always (proved) |
| `ClosedForGood` | a closed record and an archived employee stay so | without `update`, `archive`, `updateEmployee` (proved); violated with them |
| `DeletedMatchesStatus` | `deletedAt` only on closed records, and on every renewed one | one request at a time (proved); without `update` and `archive` (proved) |
| `DatesOrdered` | a record expires after it was issued | one request at a time (proved); without `update` (proved); violated by two PATCHes |
| `NoOrphans` | no live record of an archived employee | one request at a time (proved); violated by a POST or a renewal beside an employee archive |
| `OneSuccessor` | a record is renewed once | one request at a time (proved); violated by two renewals |
| `ArchivedIsDeleted` | an archived record is soft-deleted once its DELETE has ended | violated by a crash between the two saves; without crashes and `update` (proved) |
| `ImplementsLifecycle` | the handlers implement `RecordLifecycle` | one request at a time, crashes included (proved) |

### Properties of the job

| Property | Says | Holds |
|---|---|---|
| `TypeOK` | types | always (proved) |
| `NeverEarly` | a status never runs ahead of a date nobody corrects, whatever is stale, retried or late | always (proved) |
| `CleanRunSettles` | a run that was alone and lost no batch leaves every active or expiring record with the status of its date | always (proved) |
| `FaithfulReport` | the event names every record the run's requests changed, unless a batch was given up, and no other if the run was alone | always (proved) |
| `OutboxSpec` | the job implements `EventOutbox`: written before sent, one event per `runId`, forgotten only once delivered; and what was written is delivered | steps: always (proved); delivery: under fairness |
| `RunEnds` | every run ends, though clients add and remove records while it turns pages | under fairness |
| `NextRunRepairs` | when clients, clock and faults rest, later runs mend what earlier ones missed, except an expired record whose date was corrected | under fairness |
| `CorrectedDateHeals` | ... and that one too | violated |

### Properties of the web client

| Property | Says | Holds |
|---|---|---|
| `TypeOK` | types; a page that is not on screen leaves no state behind | always (proved) |
| `ShowsLatest` | numbers and rows on the dashboard are those last asked for, or it says that it is loading or failed | always (proved) |
| `MetricsAgree` | types add up to the totals, departments to the totals without archived employees' records, for every table, if nobody writes between the queries | always (proved) |
| `PagesComplete` | turning pages shows every record of the window once, in order, for every table, window and page size | always (proved) |
| `PresetIsExpiring` | the window and the status rule agree on "within so many days" | always (proved) |
| `UpdateOwn` | an update goes to the record its form was filled from | always (proved) |
| `ArchiveOwn` | the archive dialog stays, and keeps its record, until its one request has ended | always (proved) |
| `SingleRenew` | one renewal under way at a time, though the form can be closed and reopened | always (proved) |
| `LoggedOutLeaves` | without a token one ends up on the sign-in page | under fairness |
| `SettlesDown` | once the user pauses, no request, spinner or busy button is left | under fairness |

### The refinements

`RecordLifecycle` for the API: the refinement maps a record with an evaluable
status to phase `open` and the closed statuses to themselves, and employees to `staff`; a handler's reads,
inserts inside a transaction, status changes and the second half of a DELETE are
stuttering steps. `EventOutbox` for the job: `unsent` is the pending file, the
bus is the bus; naming a run is `Begin`, writing is `save_pending_event`,
delivering is `put_events` or a `put_fails` whose event got through; all else
stutters, a crash included.

## 3. Runs

| Run | Instance | Result |
|---|---|---|
| `api_serial` | 1 worker, all endpoints, crashes, 3 records, 2 employees, issued on day 0 or 2, expiring on day 2 or 3 | passes: `DeletedMatchesStatus`, `DatesOrdered`, `NoOrphans`, `OneSuccessor`, `ImplementsLifecycle` |
| `api_concurrent` | 2 workers, all endpoints, crashes, 2 records, 2 employees, 2 types | passes: `TypeOK`, `RenewalLinks`, `RenewedHasSuccessor`, `HistoryKept` |
| `api_guarded` | 2 workers, create, renew, bulk, employee create and archive; crashes, 3 records, a midnight, bulk requests of 2 items | passes: `RenewalLinks`, `ClosedForGood` |
| `api_reopened` | a PATCH beside an employee archive | `ClosedForGood` violated |
| `api_orphan` | a POST or a renewal beside an employee archive | `NoOrphans` violated |
| `api_double_renewal` | two renewals of one record | `OneSuccessor` violated |
| `api_dates` | two PATCHes of one record | `DatesOrdered` violated |
| `api_half_archived` | a DELETE that dies between its saves | `ArchivedIsDeleted` violated |
| `job_safety` | `ExpiryJob`, 2 records (one with a date that is corrected), 2 days, 2 dates, pages of 1, batches of up to 2, 2 attempts, 1 late request | passes: `TypeOK`, `NeverEarly`, `CleanRunSettles`, `FaithfulReport` |
| `job_liveness` | the same with batches of 1, 1 attempt, no late request; `FairSpec` | passes: `OutboxSpec`, `RunEnds`, `NextRunRepairs` |
| `job_stuck` | 1 record with a date that is corrected; `FairSpec` | `CorrectedDateHeals` violated |
| `frontend` | `MCFrontend`: 2 requests at a time, 2 windows, 2 pages, one breakdown, 2 rows; 3 records for the queries | passes: the properties of the web client |

*Bounds of the API.* `MaxRecords` caps how many rows are ever inserted: with 3, a chain of
renewals, two successors of one record, and a renewal beside an unrelated record
all occur; when the ids run out, `insert_fails` refuses the insert. Two workers
are enough for every race found here, as each is between one request that
read and one that wrote. Two issue dates and two expiry dates that meet on day 2
make the boundary of the date check reachable from both sides. `MaxBatch` 2
lets a bulk request ask for two statuses, and hence commit in two parts. Only
`api_guarded` lets a day pass (`MaxDay` 1): with `Buffer` 1 a record that expires
on day 2 is active when computed on day 0 and expiring on day 1. `expired` comes
from bulk requests. Workers, employees and types are symmetric: no handler
distinguishes one from another. The system never has to stop, so deadlock is
checked in every run.

*Bounds of the job.* With pages of one row and two records a run needs two
pages, so a row may leave or enter the filter between them, and a page may
come back empty. Batches of two in `job_safety` put both records, with two
different statuses, into one request, which the API then applies in two
UPDATEs, of which one may be late; batches of one in `job_liveness` make a run
send two. Two days with dates on both and `Buffer` 0 reach each status and each
change. Only one record has a date that is corrected, so that `NeverEarly` speaks
of the other. `MaxLate` 1 keeps one abandoned request, which may outlast the run
that sent it and the next. `RunId` has two names: a run's events are dropped from
`bus` when its name is taken again, at which point no file holds them. The
proofs need none of these bounds.

*Bounds of the web client.* Two requests are enough for two loads of a kind to
overtake each other, for an edit that overtakes an edit, and for a 401 beside an
answer; `Room` makes the user wait for a slot beyond that. The three records for
the dashboard give departments and types that cut across each other, and one
record of an archived employee; `MetricsAgree`, `PagesComplete` and
`PresetIsExpiring` quantify over every table of them (statuses active, expiring,
archived; days 1 to 3), every window and page sizes 1 and 2, hence full and
partly full last pages. The proofs need none of these bounds.

*Fairness.* The API's runs assume none: a handler may stop for ever at any
statement, which is how a hung connection looks to the others.
The job assumes `WF(Works \/ Fails)`: a process that has been started goes on,
every call returns or times out (`API_REQUEST_TIMEOUT_SECONDS`), and the schedule
starts it again; `WF(Lingers)`: the API ends what it has taken up; and
`SF(put_events)`: a bus that is asked again and again, by this run or a later
one, accepts at last. No call is assumed to succeed otherwise, and a crash is
always possible; only `NextRunRepairs` supposes that faults, clients and the
clock rest from some point on, and says so in its premise. The web client
assumes `WF(Navigate)`, as `goto` ends, and `WF(AnswerOldest)`, as the browser
ends every request with an answer or an error. Nothing is assumed of the user, nor
of the order of answers.

### What the violations show

1. **A stale PATCH reopens an archived record** (`api_reopened`,
   `compliance-record.service.ts:194`). `docs/api-doc.md:125` calls the employee
   archive "irreversible via the API". `PATCH /employees/:id` brings an archived
   employee back in the same way.
2. **A live record of an archived employee** (`api_orphan`, `:77`), against
   `docs/api-doc.md:199` and `docs/architecture-decisions.md:151`.
3. **A record renewed twice** (`api_double_renewal`, `:205`), against
   `docs/api-doc.md:299`.
4. **A record that expires before it was issued** (`api_dates`, `:182`), against
   `docs/api-doc.md:195`.
5. **An archived record that is not soft-deleted, and that no request can
   archive again** (`api_half_archived`, `:318`), against
   `docs/db-schema.md:85`.
6. **A corrected record that stays expired** (`job_stuck`,
   `expiry-job/src/api_client.py:47`). A date corrected between the job's fetch and
   its PATCH is answered by a stale `expired`; the job lists active and expiring
   records only, so no run looks at it again, against `docs/api-doc.md:257`.

## 4. Proofs

### The API

`ComplianceApiProofs` proves, for every finite or infinite set of workers,
employees and types and every bound:

| Theorem | Statement |
|---|---|
| `Invariance` | `Spec => []IInv` |
| `TypeCorrect` | `Spec => []TypeOK` |
| `RenewalHistory` | `Spec => []RenewalLinks` |
| `RenewalAtomic` | `Spec => []RenewedHasSuccessor` |
| `AuditTrail` | `Spec => HistoryKept` |
| `GuardedClosed` | `Spec => ClosedForGood`, if no client calls `update`, `archive` or `updateEmployee` |

The only assumption is `ConstantsOK` (bounds and dates are naturals, `None` is
neither a row nor an employee). It is evaluated by TLC in every run.

*The inductive invariant.* `RenewalLinks` is not inductive: `renew_close` writes
a row that was prepared two statements earlier, under an id that was handed
out one statement earlier. `IInv` therefore adds what a handler may rely on
between its statements: the row an update, archive or renewal works on still
exists (`SaveOK`, `RenewOK`), the prepared successor still has the employee and
type of the row it renews (`RenewOK`), the id given to a renewal is still free
and larger than the id it renews (`InsertOK`), no two open renewals hold the
same id (`NewIdsDiffer`), and every id in the table is below the counter
(`IdsBelowCounter`). Nothing writes `renewed` but a renewal that creates the
successor in the same step, which is why `SaveOK` records that a loaded entity
never carries that status. With `IInv`, each step does one of four things to a
row (`RowStep`): keeps it, leaves it absent, creates it by an INSERT, or creates
it by a renewal. Every theorem on records is drawn from that lemma
(`RecordsNext`). TLC checked `IInv` on the instances of `api_concurrent` and
`api_guarded` before it was proved.

`GuardedClosed` adds `NoStaleWrite`: with those three endpoints unused, no worker
ever stands at a statement that saves a loaded entity. Bulk updates, renewals and
cascades leave a closed row closed (`ClosedRowKept`), each for a guard of its
own.

### The API, one request at a time

The runs that expect a violation show that two requests are enough to lose
`DatesOrdered`, `NoOrphans` and `OneSuccessor`, and with them the refinement.
`ComplianceSerialProofs` proves that interleaving is all that is to blame: under
`Serial == \A v, w \in Workers : v = w`, for any number of records, employees,
types, days and requests, each of which may die between two statements:

| Theorem | Statement |
|---|---|
| `SerialInvariance` | `Spec => []SInv` |
| `SerialDates` | `Spec => []DatesOrdered` |
| `SerialOrphans` | `Spec => []NoOrphans` |
| `SerialRenewal` | `Spec => []OneSuccessor` |
| `SerialDeletion` | `Spec => []DeletedMatchesStatus` |
| `SerialRefinement` | `Spec => ImplementsLifecycle` |

`SInv` adds to `IInv` what a single handler may rely on (`ServedOK`): the row
and the employee it read are still what it read when its next statement runs,
so a `save()` writes exactly the entity over the row it was made from
(`SavedRow`). None of the properties is inductive alone. That a record is renewed
once needs that whatever has a successor is marked renewed (`SuccessorsClose`);
that live records have live employees needs that no soft-deleted record is open
(`RowSound`), as an update of one would bring it back under an archived
employee. From `SInv` every statement is one of seven operations on whole rows
(`ServedStep`: `Opens`, `Corrects`, `Closes`, `Hides`, `Renews`, `Offboards`,
`Hires`), or changes no table. That one lemma serves twice: the invariants are
preserved by each operation, and each operation is a step of `RecordLifecycle`
or a stutter. `SInv` was checked by TLC on the instance of `api_serial` before
it was proved.

### The API, endpoint by endpoint

`ComplianceGuardedProofs` lets requests interleave and die as they like again, and
proves which endpoint it takes to lose a property, for every value of the
constants:

| Theorem | Statement |
|---|---|
| `GuardedDates` | `Spec => []DatesOrdered`, if no client calls `update` |
| `GuardedDeletion` | `Spec => []DeletedMatchesStatus`, if no client calls `update` or `archive` |
| `GuardedArchive` | `Spec => []ArchivedIsDeleted`, if no client calls `update` and no request dies |

`FateNext` says what a step may do to a row: leave it, add it from a `Fresh` one,
close or relabel it under a guard (`Closing`), or save a loaded entity over it
(`SavedBy`). The last case is the only one that could write old dates back. An
archive does it too, but without PATCH no step changes the dates of a row that
exists, so the entity it holds, however old, still has them (`DatesAgree`). For
`DeletedMatchesStatus` two workers are enough with a PATCH beside a DELETE: the
PATCH, which loaded the record while it was open, makes it active again between
the two saves of the DELETE, and the second save soft-deletes an active record.
Without PATCH it takes three: a DELETE loads the record, an employee archive
closes it, the DELETE finds `deletedAt` alone to differ, a renewal that had read
the open record marks it renewed, and the DELETE's first save empties
`deletedAt` of a renewed record, until its second, if it lives to make it. TLC
finds both, so the theorem leaves both endpoints out.

`GuardedArchive` says what it takes to leave the half archived record of
`api_half_archived`. Without PATCH only the first save of a DELETE writes
`archived` without `deletedAt`, or takes `deletedAt` back, and the worker that
made it then stands before its second save, for that record (`SavedBy`); it
leaves that place by making it, or by dying (`HalfArchivingLasts`). Neither
hypothesis can go: with crashes the run finds the violation, and with PATCH, but
no crash, TLC finds two PATCHes beside two DELETEs of one record, the last
UPDATE taking `deletedAt` back after the second save. The invariants `DatesInv`
and `DeletedInv` were checked by TLC with two workers, `ArchivedInv` with three,
before they were proved.

### The job

`ExpiryJobProofs` proves, for any finite set of record keys, any calendar and
dates, any page size, batch size, number of attempts and number of late requests:

| Theorem | Statement |
|---|---|
| `JobTypes` | `Spec => []TypeOK` |
| `OutboxSteps` | `Spec => Outbox!Init /\ [][Outbox!Next]_(Outbox!vars)` |
| `StatusNeverEarly` | `Spec => []NeverEarly` |
| `ReportFaithful` | `Spec => []FaithfulReport` |
| `CleanRunLeavesNothing` | `Spec => []CleanRunSettles` |

The only assumption is `JobConstantsOK`: keys, days and dates are naturals,
there are finitely many keys, sizes and attempts are positive, `None` is no
row. TLC evaluates it in every run of the job, and checked each invariant below
on the instance of `job_safety` before it was proved.

*Types* (`TypeInv`). A run that has begun has a day; a phase that publishes has
an event to publish.

*Outbox* (`RunInv`). `Write` of the outbox needs that nothing waits and that the
bus has no event of this name. `EventInv` says both of every phase between
`Begin` and `save`, and that an event about to be cleared is on the bus.
`LocalsInv` says which locals are in use in which phase, so that whatever a
process left behind cannot reach the next.

*Never early* (`TimelyInv`). `NeverEarly` is not inductive: a batch written now was
computed from rows read long ago, by a process that may have died. An update is
followed along every station it passes: `todo`, `batch`, `serving`, `late`. At
each it is `Justified`: its status is at most what its record's date gives today.
It is so when it is computed, as the row read has the date its record still has
(`DatesKnown`) and the run's day is not in the future; and it stays so, as the rule
only advances with the days (`StatusAdvances`) and a date outside `Correctable`
does not change.

*Report* (`ReportInv`). `BookInv`: what the requests of a run have changed is in
`successful` or in the batch being sent, unless a batch was given up; hence
nothing is missing. `AloneInv`: while nobody else writes, the rows the job has
read are the table's, and every update not yet made would still change its row;
hence a batch that was answered has changed every record it names, in this
attempt or in one whose answer was lost, and nothing is reported in vain.

*Nothing left* (`PagesInv`, `SettledInv`). While nobody else writes, the ids read
so far are a first part, in key order, of what the list selects, as long as the
next offset; so a page that reaches the total, or is empty, completes it, for
every page size. From a complete snapshot `Outdated` is exactly what is not
settled, and each of those records stays on its way, in `todo`, `batch` or
`serving`, until an UPDATE settles it.

### The web client

`FrontendProofs` proves, for any set of breakdowns, windows, page offsets and rows,
and any bound of two or more on the requests under way:

| Theorem | Statement |
|---|---|
| `FrontendInvariance` | `Spec => []FInv` |
| `FrontendTypes` | `Spec => []TypeOK` |
| `LatestShown` | `Spec => []ShowsLatest` |
| `UpdatesOwn` | `Spec => []UpdateOwn` |
| `ArchivesOwn` | `Spec => []ArchiveOwn` |
| `RenewsOnce` | `Spec => []SingleRenew` |
| `BreakdownsAddUp` | `Spec => []MetricsAgree` |
| `PagesShowAll` | `Spec => []PagesComplete` |
| `PresetMeansExpiring` | `Spec => []PresetIsExpiring` |

The assumptions are those of the modules (`FrontendConstantsOK`,
`DashboardConstantsOK`, `RecordsConstantsOK`, `QueryConstantsOK`), which TLC
evaluates in `frontend`.

*What the API answers* (`DashboardQueriesProofs`). The last three theorems
quantify over tables and hold of the queries themselves: all that is assumed
of the constants is that there are finitely many records.
`PresetMeansExpiring` follows from the definitions (`PresetWindow`). The other two
are about recursion, the fold that adds up a breakdown and the reader who
presses Next, and need induction over data, which the library's induction
theorems cannot give here, as they take an operator as a parameter. They are
proved by the minimal counterexample instead, from the well-foundedness of `<`
and of strict inclusion (`LeastNumber`, `LeastSubset`). In each case a closed
form is named first: the records in the parts added so far (`SumOfParts`), the
rows from an offset on (`PagesRead`). It satisfies the recursive equation, so a
function that does exists; and a function that does agrees with it, as there can
be no smallest set of parts, and no smallest number of rows left, at which the
two differ. With that, the totals are a count of a disjoint union (`TypesSum`,
`DepartmentsSum`), and the pages, put together, are the window in the order of
`Sorted`, which lists each record once (`SortedRows`, `PagesAll`).

The other properties speak of the page, or of the page and the calls under way,
and are not inductive: an answer that comes now was asked for by a state of
the page that is gone. `FInv` says what ties the two together. *Placed*: a page
that is left takes its calls with it, so a call of the dashboard or of the
records page is only under way on that page. *Asked*: the load whose number is
the current one asks for what is chosen now, so its answer may be shown; the
numbering (`Outdated`) is what keeps this true when the choice changes.
*FormOwn*: a form that is open was filled from the record it will be saved to.
*OneUnder*, in `ArchiveInv` and `RenewInv`: of a button's own call and the load of
the list that its handler waits for, one at most is under way, and then the
button is busy. The load has to be in it: the flag is released by that load, not
by the call itself, and a second call between the two would be released too
early.

None of this depends on the order of the requests. What a step does to the
sequence is therefore said once, in `Follows(lost, sent)`: which request comes back
and which call is added, the others being the same ones at other places.
The steps of the records page are reduced to `RecsMove`, those of the session
to `SessionMove`, each with what it takes out, what it adds and what it makes of
the page's flags. TLC checked `FInv` on the instance of `frontend` with two
and with three requests before it was proved.

### Only model-checked

* *Liveness*: the job's `RunEnds`, `NextRunRepairs` and the delivery that
  `OutboxSpec` promises; the web client's `LoggedOutLeaves` and `SettlesDown`. They
  rest on fairness, and so on `ENABLED`, which is beyond the prover. Every
  invariant and every action property of a run that passes is proved.

## 5. What is not modelled

* *Wording and layout*: toasts, formatting, styles, labels, log messages, the
  exact JSON. `notes`, names and departments are data that no property is about;
  a PATCH of them alone is modelled, as it saves the entity all the same.
* *How a date is written.* Dates are day numbers. `IsDateString` also lets
  timestamps in, whose string order the code does not foresee; see the hazards.
* *The rows the records page shows*, its filters and page: its loads are not
  numbered, nothing is promised about their order, and a property would only
  restate that. Neither are the field checks of `validation.ts`.
* *Writes between the queries of one answer.* `getMetrics` is given a table for
  each of its statements, but `MetricsAgree` is stated for one table: between
  writes the numbers need not agree, and no document says that they do.
* *Authentication*: tokens hold or have ended, and the sign-in succeeds, is
  refused or fails. Password hashing, user rows and the throttle are left out.
* *The job's environment*: reading settings, `SKIP_EVENT_PUBLISH`, overlapping
  runs. The pending file is taken to outlast the process, which is so where it
  is put on a disk that does; in the default temporary directory of a recycled
  Lambda it is lost.
* *Migrations, seeds, wiring, deployment, scripts*: they run once or hold no
  state. The empty tables the migration leaves are the initial state.

## 6. Plan

1. *Done:* the API, its runs, its invariants, theorems and refinement; the expiry
   job, its outbox, its runs and theorems; the dashboard's queries, the web
   client, its run and theorems.
   Every invariant that a passing run checks is a theorem.
2. *Not planned:* `NoOrphans` under concurrent requests without the archive of
   employees, which says little, as nobody is archived then; the liveness
   properties as theorems, for want of a prover for `ENABLED`.
3. *Worth adding next:* how a session ends in the web client (what `Arrival` lets
   on screen without a token).
