-------------------------- MODULE ComplianceStatus --------------------------
(***************************************************************************)
(* The status rule of a compliance record: the enum of statuses and the    *)
(* pure function that classifies an expiry date against a day and a        *)
(* look-ahead buffer.  The API and the expiry job both apply it.           *)
(*                                                                         *)
(* A calendar date is the number of days since some epoch: the code        *)
(* compares ISO strings (API) or date objects (job), and both orders are   *)
(* the order of the days.                                                  *)
(***************************************************************************)
EXTENDS Integers

EvaluableStatus == {"active", "expiring", "expired"}
TerminalStatus  == {"renewed", "archived"}
Status          == EvaluableStatus \union TerminalStatus

addDaysToDateString(day, days) == day + days

computeComplianceStatus(expiry, today, buffer) ==
  IF expiry < today THEN "expired"
  ELSE IF expiry <= addDaysToDateString(today, buffer) THEN "expiring"
  ELSE "active"
=============================================================================
