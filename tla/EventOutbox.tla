----------------------------- MODULE EventOutbox ----------------------------
(***************************************************************************)
(* What the expiry job promises about its summary events, without saying   *)
(* how: an event is written down before it is sent, is sent under the      *)
(* name of its run until the bus has it, and only then forgotten.  At most *)
(* one event is ever written for a run, so a consumer that ignores a       *)
(* second message of the same run misses nothing.                          *)
(***************************************************************************)
CONSTANTS
  RunId,     \* the names of runs
  Event,     \* records with at least a field run
  NoEvent    \* nothing is waiting

VARIABLES
  unsent,    \* the event written down and not yet forgotten
  bus        \* the events the bus has received, of the runs still in view

vars == <<unsent, bus>>

Init ==
  /\ unsent = NoEvent
  /\ bus = {}

(* A run takes a name.  Names are drawn again once nobody can tell.        *)
Name(id) ==
  /\ unsent = NoEvent
  /\ bus' = {e \in bus : e.run # id}
  /\ UNCHANGED unsent

Write(e) ==
  /\ unsent = NoEvent
  /\ \A sent \in bus : sent.run # e.run
  /\ unsent' = e
  /\ UNCHANGED bus

Deliver ==
  /\ unsent # NoEvent
  /\ bus' = bus \union {unsent}
  /\ UNCHANGED unsent

Forget ==
  /\ unsent \in bus
  /\ unsent' = NoEvent
  /\ UNCHANGED bus

Next ==
  \/ \E id \in RunId : Name(id)
  \/ \E e \in Event : Write(e)
  \/ Deliver
  \/ Forget

(* Whatever fails in between, a written event is delivered.                *)
Spec == Init /\ [][Next]_vars /\ WF_vars(Deliver)
=============================================================================
