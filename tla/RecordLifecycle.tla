--------------------------- MODULE RecordLifecycle --------------------------
(***************************************************************************)
(* What the compliance API promises of its records and employees, without  *)
(* handlers, statements or locks: each operation happens in one step.      *)
(*                                                                         *)
(* A record is open until it is renewed or archived, and then never        *)
(* changes again.  Only a live employee gets records, a renewal replaces   *)
(* one open record by one new record of the same employee, and archiving   *)
(* an employee archives all the open records it has.                       *)
(***************************************************************************)
EXTENDS Integers

CONSTANTS
  Records,     \* record ids
  EmployeeId,  \* employees
  NoId,        \* a record that renews no other
  None         \* the owner of a record that does not exist

VARIABLES
  phase,   \* "none", "open", "renewed" or "archived"
  owner,   \* the employee each record belongs to
  renews,  \* the record each record was made to replace
  staff    \* "absent", "live" or "archived"

vars == <<phase, owner, renews, staff>>

Init ==
  /\ phase  = [id \in Records |-> "none"]
  /\ owner  = [id \in Records |-> None]
  /\ renews = [id \in Records |-> NoId]
  /\ staff  = [e \in EmployeeId |-> "absent"]

Open(id, e) ==
  /\ phase[id] = "none"
  /\ staff[e] = "live"
  /\ phase' = [phase EXCEPT ![id] = "open"]
  /\ owner' = [owner EXCEPT ![id] = e]
  /\ UNCHANGED <<renews, staff>>

Renew(old, new) ==
  /\ phase[old] = "open"
  /\ phase[new] = "none"
  /\ staff[owner[old]] = "live"
  /\ phase'  = [phase EXCEPT ![old] = "renewed", ![new] = "open"]
  /\ owner'  = [owner EXCEPT ![new] = owner[old]]
  /\ renews' = [renews EXCEPT ![new] = old]
  /\ UNCHANGED staff

Archive(id) ==
  /\ phase[id] = "open"
  /\ phase' = [phase EXCEPT ![id] = "archived"]
  /\ UNCHANGED <<owner, renews, staff>>

Hire(e) ==
  /\ staff[e] = "absent"
  /\ staff' = [staff EXCEPT ![e] = "live"]
  /\ UNCHANGED <<phase, owner, renews>>

Offboard(e) ==
  /\ staff[e] = "live"
  /\ staff' = [staff EXCEPT ![e] = "archived"]
  /\ phase' = [id \in Records |-> IF phase[id] = "open" /\ owner[id] = e
                                   THEN "archived" ELSE phase[id]]
  /\ UNCHANGED <<owner, renews>>

Next ==
  \/ \E id \in Records, e \in EmployeeId : Open(id, e)
  \/ \E old, new \in Records : Renew(old, new)
  \/ \E id \in Records : Archive(id)
  \/ \E e \in EmployeeId : Hire(e) \/ Offboard(e)

Spec == Init /\ [][Next]_vars
=============================================================================
