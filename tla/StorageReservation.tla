-------------------------- MODULE StorageReservation --------------------------
(***************************************************************************)
(* What StorageController promises its consumer, without topology, steps   *)
(* or timers: a request is refused, or it reserves a set of drives and     *)
(* volumes that no other request holds, works on it, and ends once, with   *)
(* success only after work; the end releases the reservation.              *)
(***************************************************************************)
CONSTANTS RequestIds, Targets

VARIABLES
  phase,  \* "new", "refused", "accepted", "working", "ok" or "error"
  held    \* the targets each request has reserved

vars == <<phase, held>>

Init ==
  /\ phase = [r \in RequestIds |-> "new"]
  /\ held = [r \in RequestIds |-> {}]

Refuse(r) ==
  /\ phase[r] = "new"
  /\ phase' = [phase EXCEPT ![r] = "refused"]
  /\ UNCHANGED held

Accept(r, scope) ==
  /\ phase[r] = "new"
  /\ scope # {}
  /\ \A q \in RequestIds : held[q] \cap scope = {}
  /\ phase' = [phase EXCEPT ![r] = "accepted"]
  /\ held' = [held EXCEPT ![r] = scope]

Work(r) ==
  /\ phase[r] = "accepted"
  /\ phase' = [phase EXCEPT ![r] = "working"]
  /\ UNCHANGED held

Succeed(r) ==
  /\ phase[r] = "working"
  /\ phase' = [phase EXCEPT ![r] = "ok"]
  /\ held' = [held EXCEPT ![r] = {}]

(* One request fails, or a disconnection fails every open one. *)
Fail(R) ==
  /\ \A r \in R : phase[r] \in {"refused", "accepted", "working"}
  /\ phase' = [r \in RequestIds |-> IF r \in R THEN "error" ELSE phase[r]]
  /\ held' = [r \in RequestIds |-> IF r \in R THEN {} ELSE held[r]]

Next ==
  \/ \E r \in RequestIds : Refuse(r) \/ Work(r) \/ Succeed(r)
  \/ \E r \in RequestIds, scope \in SUBSET Targets : Accept(r, scope)
  \/ \E R \in SUBSET RequestIds : Fail(R)

Spec == Init /\ [][Next]_vars

=============================================================================
