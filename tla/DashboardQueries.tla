-------------------------- MODULE DashboardQueries --------------------------
(***************************************************************************)
(* What the dashboard's two queries answer about a table of records        *)
(* (backend/src/dashboard/dashboard.service.ts), as functions of the table *)
(* they read, and how the client asks for them (frontend/src/lib/query.ts, *)
(* DateRangeFilter and RecordsTable).                                      *)
(*                                                                         *)
(* getMetrics is up to three statements and no transaction, so each reads  *)
(* a table of its own; getExpiring is read here from one.                  *)
(***************************************************************************)
EXTENDS FiniteSets, SequencesExt, ComplianceStatus

CONSTANTS
  RecordId,    \* records that are not deleted
  Orphans,     \* those whose employee is archived
  Department,  \* department of each record's employee
  TypeOf,      \* compliance type of each record
  RowStatus,   \* bound: the statuses in the table
  Day,         \* bound: the calendar
  Limit        \* bound: page sizes

ASSUME QueryConstantsOK ==
  /\ IsFiniteSet(RecordId) /\ RecordId \subseteq Nat
  /\ Orphans \subseteq RecordId
  /\ RowStatus \subseteq Status
  /\ Day \subseteq Nat
  /\ Limit \subseteq Nat \ {0}

Tables      == [RecordId -> [status : RowStatus, expiry : Day]]
Departments == {Department[r] : r \in RecordId}
Types       == {TypeOf[r] : r \in RecordId}
Joined      == RecordId \ Orphans   \* the inner join with employees

-----------------------------------------------------------------------------
(* getMetrics.                                                             *)

(* SELECT status, COUNT(id) ... GROUP BY status, for some of the rows.     *)
CountRows(rows, some) ==
  {[status |-> s, count |-> Cardinality({r \in some : rows[r].status = s})] :
     s \in {rows[r].status : r \in some} \intersect EvaluableStatus}

(* The loop over the raw rows: a status without a row stays zero.          *)
MetricsTotals(raw) ==
  [s \in EvaluableStatus |->
     IF \E row \in raw : row.status = s
       THEN (CHOOSE row \in raw : row.status = s).count ELSE 0]

(* Mutant: the breakdown counts the rows of archived employees too.        *)
mapDepartmentCountsAll(rows) ==
  [d \in Departments |->
     MetricsTotals(CountRows(rows, {r \in RecordId : Department[r] = d}))]

mapDepartmentCounts(rows) ==
  [d \in Departments |->
     MetricsTotals(CountRows(rows, {r \in Joined : Department[r] = d}))]

mapTypeCounts(rows) ==
  [t \in Types |->
     MetricsTotals(CountRows(rows, {r \in RecordId : TypeOf[r] = t}))]

getMetrics(rows, departmentRows, typeRows) ==
  [totals       |-> MetricsTotals(CountRows(rows, RecordId)),
   byDepartment |-> mapDepartmentCounts(departmentRows),
   byType       |-> mapTypeCounts(typeRows)]

-----------------------------------------------------------------------------
(* getExpiring, and the paging of its table.                               *)

PresetFilter(days)     == [mode |-> "preset", days |-> days]
CustomFilter(from, to) == [mode |-> "custom", from |-> from, to |-> to]

isValidCustomRange(from, to) == from <= to

(* Mutant: a window of so many days ends the day before.                   *)
ExpiringWindowShort(filter, today) ==
  IF filter.mode = "custom" THEN [from |-> filter.from, to |-> filter.to]
  ELSE [from |-> today, to |-> addDaysToDateString(today, filter.days - 1)]

ExpiringWindow(filter, today) ==
  IF filter.mode = "custom" THEN [from |-> filter.from, to |-> filter.to]
  ELSE [from |-> today, to |-> addDaysToDateString(today, filter.days)]

Listed(rows, window) ==
  {r \in Joined : /\ rows[r].status \in EvaluableStatus
                  /\ rows[r].expiry >= window.from
                  /\ rows[r].expiry <= window.to}

(* ORDER BY expiryDate, id.                                                *)
InOrder(rows, a, b) ==
  \/ rows[a].expiry < rows[b].expiry
  \/ rows[a].expiry = rows[b].expiry /\ a < b

Sorted(rows, ids) ==
  CHOOSE s \in [1..Cardinality(ids) -> ids] :
    \A i, j \in DOMAIN s : i < j => InOrder(rows, s[i], s[j])

getExpiring(rows, window, limit, offset) ==
  LET sorted == Sorted(rows, Listed(rows, window))
      total  == Len(sorted)
      last   == IF offset + limit < total THEN offset + limit ELSE total
  IN [data |-> SubSeq(sorted, offset + 1, last), total |-> total]

(* Mutant: a last page of full length is followed by no other.             *)
hasNextFull(limit, offset, total) == offset + limit + 1 < total

hasNext(limit, offset, total) == offset + limit < total

(* The rows a user reads who presses Next from the first page on.          *)
goNext(rows, window, limit) ==
  LET read[offset \in Nat] ==
        LET answer == getExpiring(rows, window, limit, offset)
        IN IF hasNext(limit, offset, answer.total)
             THEN answer.data \o read[offset + limit]
             ELSE answer.data
  IN read[0]

-----------------------------------------------------------------------------
(* What the answers say, for every table the service may find.  TypesAddUp *)
(* and DepartmentsAddUp suppose that no one writes between the queries.    *)

SumOf(counts, s) == FoldFunction(LAMBDA c, sum : c[s] + sum, 0, counts)

TypesAddUp ==
  \A rows \in Tables :
    LET metrics == getMetrics(rows, rows, rows)
    IN \A s \in EvaluableStatus :
         SumOf(metrics.byType, s) = metrics.totals[s]

DepartmentsAddUp ==
  \A rows \in Tables :
    LET metrics == getMetrics(rows, rows, rows)
        orphans == MetricsTotals(CountRows(rows, Orphans))
    IN \A s \in EvaluableStatus :
         SumOf(metrics.byDepartment, s) + orphans[s] = metrics.totals[s]

PagesCoverWindow ==
  \A rows \in Tables, from, to \in Day, limit \in Limit :
    isValidCustomRange(from, to) =>
      LET window == ExpiringWindow(CustomFilter(from, to), from)
          read   == goNext(rows, window, limit)
      IN /\ ToSet(read) = Listed(rows, window)
         /\ \A i, j \in DOMAIN read :
              i < j => InOrder(rows, read[i], read[j])

PresetIsStatusRule ==
  \A rows \in Tables, today \in Day, buffer \in Limit :
    LET window == ExpiringWindow(PresetFilter(buffer), today)
        settled(r) == rows[r].status =
          computeComplianceStatus(rows[r].expiry, today, buffer)
    IN (\A r \in RecordId : settled(r)) =>
         Listed(rows, window) = {r \in Joined : rows[r].status = "expiring"}
=============================================================================
