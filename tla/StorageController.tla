-------------------------- MODULE StorageController --------------------------
(***************************************************************************)
(* The transaction layer of the Storage component,                         *)
(* src/storage/StorageController.cpp, over any backend that honours the    *)
(* StorageBackend interface.                                               *)
(*                                                                         *)
(* Everything runs on one Qt event loop, so each handler is one action:    *)
(*   Begin      mount/unmount/eject/powerOff, up to the posted timer       *)
(*   Timer      the QTimer::singleShot(0) that Begin posted                *)
(*   Reply      the backend's operationFinished signal                     *)
(*   Snapshot   the backend's snapshotChanged signal, service available    *)
(*   Disconnect the same signal with available = false                     *)
(* What the model looks for is the interleaving of those: other requests,  *)
(* topology changes and disconnections between two steps of a request.     *)
(*                                                                         *)
(* The backend appears only through "calls", the backend_->execute() calls *)
(* that have not been answered, and through the snapshots it publishes.    *)
(* Lists are sets: the row order of a snapshot only decides the order in   *)
(* which the volumes of a scope are unmounted, which is left open.         *)
(***************************************************************************)
EXTENDS Naturals

CONSTANTS
  RequestIds,   \* the ids freshId() may hand out
  DriveIds,     \* opaque ids of drives
  VolumeIds,    \* opaque ids of volumes
  SiblingIds,   \* nonempty values of StorageDrive::siblingId
  None,         \* the empty id
  Topologies,   \* the snapshots the backend may publish
  Confirmations \* the scopes a consumer may confirm for a power-off

Operations == {"Mount", "Unmount", "Eject", "PowerOff"}

Removals == {"Eject", "PowerOff"}

Targets == DriveIds \cup VolumeIds

Errors == {"Unavailable", "Disappeared", "NotSupported", "ScopeChanged",
           "Busy", "Upstream"}

(* How a backend call ends: "Upstream" stands for every error it reports. *)
Answers == {"none", "Upstream"}

(* One snapshot.  A volume can be mounted or unmounted only when it has the *)
(* Filesystem interface, and is mounted when that lists a mount point.      *)
Topology ==
  [drives      : SUBSET DriveIds,
   volumes     : SUBSET VolumeIds,
   sibling     : [DriveIds -> SiblingIds \cup {None}],
   driveOf     : [VolumeIds -> DriveIds \cup {None}],
   canEject    : SUBSET DriveIds,
   canPowerOff : SUBSET DriveIds,
   filesystem  : SUBSET VolumeIds,
   mounted     : SUBSET VolumeIds]

ASSUME StorageConstants ==
  /\ DriveIds \cap VolumeIds = {}
  /\ None \notin Targets \cup SiblingIds
  /\ Topologies \subseteq Topology
  /\ Confirmations \subseteq SUBSET Targets

(* The cleared models of a disconnected service. *)
NoTopology ==
  [drives      |-> {},
   volumes     |-> {},
   sibling     |-> [d \in DriveIds |-> None],
   driveOf     |-> [v \in VolumeIds |-> None],
   canEject    |-> {},
   canPowerOff |-> {},
   filesystem  |-> {},
   mounted     |-> {}]

VARIABLES
  available,  \* available_
  topology,   \* drives_ and volumes_
  pending,    \* the keys of requests_
  request,    \* the values of requests_, blank outside pending
  timers,     \* singleShot(0) callbacks that have not run
  calls,      \* backend calls that have not been answered
  asked,      \* history: what the consumer asked for, by request
  steps,      \* history: the answers delivered for each request's steps
  outcome     \* what operationFinished reported, "none" until it did

vars == <<available, topology, pending, request, timers, calls, asked, steps,
          outcome>>

Blank == [scope |-> {}, unmounts |-> {}, step |-> 0, issued |-> 0,
          final |-> FALSE]

Unasked == [operation |-> "none", target |-> None, confirmed |-> {}]

-----------------------------------------------------------------------------
(* What the controller computes from its models.                            *)

(* removalScope(): the drive, the drives powered off with it, and every     *)
(* volume on those drives.                                                  *)
removalScope(drive, powerOff) ==
  IF drive \notin topology.drives THEN {}
  ELSE LET affected == {d \in topology.drives :
                          \/ d = drive
                          \/ /\ powerOff
                             /\ topology.sibling[drive] # None
                             /\ topology.sibling[d] = topology.sibling[drive]}
       IN affected \cup {v \in topology.volumes : topology.driveOf[v] \in affected}

(* Mutant: a request reserves its scope from its first call only. *)
busy_started(target) ==
  \E r \in pending : request[r].step # 0 /\ target \in request[r].scope

busy(target) == \E r \in pending : target \in request[r].scope

Present(operation, target) ==
  target \in (IF operation \in Removals THEN topology.drives ELSE topology.volumes)

(* canMount, canUnmount, canEject and canPowerOff of the target. *)
Capable(operation, target) ==
  target \in CASE operation = "Mount"    -> topology.filesystem \ topology.mounted
               [] operation = "Unmount"  -> topology.filesystem \cap topology.mounted
               [] operation = "Eject"    -> topology.canEject
               [] operation = "PowerOff" -> topology.canPowerOff

(* Mutant: the empty driveId of a driveless volume joins the scope. *)
ScopeOf_emptyDrive(operation, target) ==
  IF operation \in Removals
  THEN removalScope(target, operation = "PowerOff")
  ELSE {target} \cup {topology.driveOf[v] : v \in topology.volumes \cap {target}}

(* The targets a request reserves while it is accepted. *)
ScopeOf(operation, target) ==
  IF operation \in Removals
  THEN removalScope(target, operation = "PowerOff")
  ELSE {target} \cup ({topology.driveOf[v] : v \in topology.volumes \cap {target}}
                        \ {None})

(* Mutant: every mounted volume, not only those in the scope. *)
MountedIn_anywhere(scope) == topology.volumes \cap topology.mounted

MountedIn(scope) == scope \cap topology.volumes \cap topology.mounted

(* begin() tests in order and a later test overwrites an earlier failure,   *)
(* so the last one that applies is reported.                                *)
Refusal(operation, target, confirmed) ==
  LET scope == ScopeOf(operation, target)
  IN IF \E t \in scope : busy(t) THEN "Busy"
     ELSE IF operation = "PowerOff" /\ Present(operation, target) /\ confirmed # scope
     THEN "ScopeChanged"
     ELSE IF ~Present(operation, target) THEN "Disappeared"
     ELSE IF ~Capable(operation, target) THEN "NotSupported"
     ELSE IF ~available THEN "Unavailable"
     ELSE "none"

-----------------------------------------------------------------------------
(* Pieces shared by the handlers.                                           *)

(* finish(): the requests leave requests_ and the result is emitted. *)
Finish(R, result) ==
  /\ pending' = pending \ R
  /\ request' = [r \in RequestIds |-> IF r \in R THEN Blank ELSE request[r]]
  /\ outcome' = [r \in RequestIds |-> IF r \in R THEN result ELSE outcome[r]]

(* backend_->execute() with a fresh step id; "others" are the calls that    *)
(* stay unanswered.                                                         *)
Execute(r, operation, target, final, others) ==
  LET n == request[r].issued + 1
  IN /\ request' = [request EXCEPT ![r] =
          [scope |-> request[r].scope, unmounts |-> request[r].unmounts \ {target},
           step |-> n, issued |-> n, final |-> final]]
     /\ calls' = others \cup {[request |-> r, step |-> n,
                               operation |-> operation, target |-> target]}
     /\ UNCHANGED <<pending, outcome>>

FinishOne(r, result, others) == Finish({r}, result) /\ calls' = others

(* The check of the target at the top of advance(). *)
Invalidated(r) ==
  LET operation == asked[r].operation
      target == asked[r].target
  IN IF operation \in Removals
     THEN removalScope(target, operation = "PowerOff") # request[r].scope
     ELSE target \notin topology.volumes

(* Mutant: a volume mounted since the request was accepted goes unnoticed. *)
FinalRefusal_mountedIgnored(r) ==
  IF asked[r].operation \in Removals /\ ~Capable(asked[r].operation, asked[r].target)
  THEN "NotSupported"
  ELSE "none"

(* Why advance() does not issue the final step, or "none". *)
FinalRefusal(r) ==
  LET operation == asked[r].operation
      target == asked[r].target
  IN IF operation \notin Removals THEN "none"
     ELSE IF MountedIn(request[r].scope) # {} THEN "Busy"
     ELSE IF ~Present(operation, target) \/ ~Capable(operation, target)
     THEN "NotSupported"
     ELSE "none"

(* advance(): unmount the next volume, or issue the operation itself, or    *)
(* give the request up.                                                     *)
Advance(r, others) ==
  \/ /\ Invalidated(r)
     /\ FinishOne(r, IF asked[r].operation \in Removals THEN "ScopeChanged"
                                                        ELSE "Disappeared", others)
  \/ /\ ~Invalidated(r)
     /\ \E v \in request[r].unmounts :
          IF v \in topology.volumes /\ Capable("Unmount", v)
          THEN Execute(r, "Unmount", v, FALSE, others)
          ELSE FinishOne(r, "Disappeared", others)
  \/ /\ ~Invalidated(r)
     /\ request[r].unmounts = {}
     /\ IF FinalRefusal(r) = "none"
        THEN Execute(r, asked[r].operation, asked[r].target, TRUE, others)
        ELSE FinishOne(r, FinalRefusal(r), others)

-----------------------------------------------------------------------------
(* The handlers.                                                            *)

Init ==
  /\ available = FALSE
  /\ topology = NoTopology
  /\ pending = {}
  /\ request = [r \in RequestIds |-> Blank]
  /\ timers = {}
  /\ calls = {}
  /\ asked = [r \in RequestIds |-> Unasked]
  /\ steps = [r \in RequestIds |-> {}]
  /\ outcome = [r \in RequestIds |-> "none"]

(* Mutant: a refused request returns early, without the timer. *)
Begin_refusedSilently(r, operation, target, confirmed) ==
  LET refusal == Refusal(operation, target, confirmed)
      scope == ScopeOf(operation, target)
  IN /\ r \notin pending /\ outcome[r] = "none"
     /\ pending' = pending \cup {r}
     /\ request' = [request EXCEPT ![r] =
          [Blank EXCEPT !.scope = IF refusal = "none" THEN scope ELSE {}]]
     /\ timers' = IF refusal = "none" THEN timers \cup {[request |-> r, refusal |-> refusal]}
                                      ELSE timers
     /\ asked' = [asked EXCEPT ![r] = [operation |-> operation, target |-> target,
                                       confirmed |-> confirmed]]
     /\ UNCHANGED <<available, topology, calls, steps, outcome>>

(* Mutant: a refused request keeps the scope it computed. *)
Begin_refusedReserves(r, operation, target, confirmed) ==
  /\ r \notin pending /\ outcome[r] = "none"
  /\ pending' = pending \cup {r}
  /\ request' = [request EXCEPT ![r] = [Blank EXCEPT !.scope = ScopeOf(operation, target)]]
  /\ timers' = timers \cup
       {[request |-> r, refusal |-> Refusal(operation, target, confirmed)]}
  /\ asked' = [asked EXCEPT ![r] = [operation |-> operation, target |-> target,
                                    confirmed |-> confirmed]]
  /\ UNCHANGED <<available, topology, calls, steps, outcome>>

(* A refused request reserves nothing and is answered from the timer too. *)
Begin(r, operation, target, confirmed) ==
  LET refusal == Refusal(operation, target, confirmed)
      scope == ScopeOf(operation, target)
  IN /\ r \notin pending /\ outcome[r] = "none"
     /\ pending' = pending \cup {r}
     /\ request' = [request EXCEPT ![r] =
          [scope |-> IF refusal = "none" THEN scope ELSE {},
           unmounts |-> IF operation \in Removals THEN MountedIn(scope) ELSE {},
           step |-> 0, issued |-> 0, final |-> FALSE]]
     /\ timers' = timers \cup {[request |-> r, refusal |-> refusal]}
     /\ asked' = [asked EXCEPT ![r] = [operation |-> operation, target |-> target,
                                       confirmed |-> confirmed]]
     /\ UNCHANGED <<available, topology, calls, steps, outcome>>

Timer(t) ==
  /\ timers' = timers \ {t}
  /\ IF t.request \notin pending
     THEN UNCHANGED <<pending, request, outcome, calls>>
     ELSE IF t.refusal # "none"
     THEN FinishOne(t.request, t.refusal, calls)
     ELSE Advance(t.request, calls)
  /\ UNCHANGED <<available, topology, asked, steps>>

(* Mutant: the error of an unmount before the final step is not looked at. *)
Reply_errorIgnored(c, error) ==
  LET r == c.request
      others == calls \ {c}
  IN /\ IF r \in pending /\ request[r].step = c.step
        THEN /\ steps' = [steps EXCEPT ![r] = @ \cup
                  {[operation |-> c.operation, target |-> c.target, error |-> error]}]
             /\ IF ~request[r].final THEN Advance(r, others)
                ELSE FinishOne(r, IF error = "none" THEN "ok" ELSE error, others)
        ELSE calls' = others /\ UNCHANGED <<pending, request, outcome, steps>>
     /\ UNCHANGED <<available, topology, timers, asked>>

(* Mutant: the answer of an unmount does not start the next step. *)
Reply_notAdvanced(c, error) ==
  LET r == c.request
  IN /\ IF r \in pending /\ request[r].step = c.step /\ (error # "none" \/ request[r].final)
        THEN FinishOne(r, IF error = "none" THEN "ok" ELSE error, calls \ {c})
        ELSE calls' = calls \ {c} /\ UNCHANGED <<pending, request, outcome>>
     /\ UNCHANGED <<available, topology, timers, asked, steps>>

(* operationFinished: an answer for anything but the current step of a      *)
(* pending request is ignored.                                              *)
Reply(c, error) ==
  LET r == c.request
      others == calls \ {c}
  IN /\ IF r \in pending /\ request[r].step = c.step
        THEN /\ steps' = [steps EXCEPT ![r] = @ \cup
                  {[operation |-> c.operation, target |-> c.target, error |-> error]}]
             /\ IF error # "none" THEN FinishOne(r, error, others)
                ELSE IF request[r].final THEN FinishOne(r, "ok", others)
                ELSE Advance(r, others)
        ELSE /\ calls' = others
             /\ UNCHANGED <<pending, request, outcome, steps>>
     /\ UNCHANGED <<available, topology, timers, asked>>

Snapshot(t) ==
  /\ topology' = t
  /\ available' = TRUE
  /\ UNCHANGED <<pending, request, timers, calls, asked, steps, outcome>>

(* Every request ends when the service goes away, its step answered or not. *)
Disconnect ==
  /\ topology' = NoTopology
  /\ available' = FALSE
  /\ Finish(pending, "Unavailable")
  /\ UNCHANGED <<timers, calls, asked, steps>>

(* The backend drops the calls of a connection it has lost, whose requests  *)
(* the disconnection ended.                                                 *)
Forget(c) ==
  /\ c.request \notin pending
  /\ calls' = calls \ {c}
  /\ UNCHANGED <<available, topology, pending, request, timers, asked, steps, outcome>>

Next ==
  \/ \E r \in RequestIds, v \in VolumeIds, operation \in {"Mount", "Unmount"} :
       Begin(r, operation, v, {})
  \/ \E r \in RequestIds, d \in DriveIds : Begin(r, "Eject", d, {})
  \/ \E r \in RequestIds, d \in DriveIds, confirmed \in Confirmations :
       Begin(r, "PowerOff", d, confirmed)
  \/ \E t \in timers : Timer(t)
  \/ \E c \in calls, error \in Answers : Reply(c, error)
  \/ \E t \in Topologies : Snapshot(t)
  \/ Disconnect
  \/ \E c \in calls : Forget(c)

Spec == Init /\ [][Next]_vars

(* The event loop runs posted timers, and the backend answers every call of *)
(* a connection it keeps (D-Bus answers or times out after 120 s).          *)
FairSpec ==
  /\ Spec
  /\ WF_vars(\E t \in timers : Timer(t))
  /\ \A r \in RequestIds :
       WF_vars(\E c \in calls, error \in Answers :
                 c.request = r /\ Reply(c, error))

-----------------------------------------------------------------------------
(* Properties.                                                              *)

Request == [scope : SUBSET Targets, unmounts : SUBSET VolumeIds,
            step : Nat, issued : Nat, final : BOOLEAN]

Call == [request : RequestIds, step : Nat \ {0}, operation : Operations, target : Targets]

(* The values every variable ranges over. *)
TypeOK ==
  /\ available \in BOOLEAN
  /\ topology \in Topology
  /\ pending \in SUBSET RequestIds
  /\ request \in [RequestIds -> Request]
  /\ timers \in SUBSET [request : RequestIds, refusal : Errors \cup {"none"}]
  /\ calls \in SUBSET Call
  /\ asked \in [RequestIds -> [operation : Operations \cup {"none"},
                               target : Targets \cup {None},
                               confirmed : SUBSET Targets]]
  /\ steps \in [RequestIds -> SUBSET [operation : Operations, target : Targets,
                                      error : Errors \cup {"none"}]]
  /\ outcome \in [RequestIds -> Errors \cup {"none", "ok"}]

(* Two requests never hold the same drive or volume, whatever happened to   *)
(* the topology since each was accepted (busy() in begin()).                *)
ScopesDisjoint ==
  \A r, q \in pending : r # q => request[r].scope \cap request[q].scope = {}

(* What an unanswered call may disturb: a removal takes its whole scope.    *)
Footprint(c) ==
  IF c.operation \in Removals THEN {c.target} \cup request[c.request].scope
                              ELSE {c.target}

Live(c) == c.request \in pending

(* Two unanswered calls of open requests never touch the same device, and   *)
(* each stays inside the reservation of its request, even when devices were *)
(* plugged, unplugged or mounted after the request was accepted.            *)
LiveCallsIsolated ==
  \A c, e \in {x \in calls : Live(x)} :
    /\ Footprint(c) \subseteq request[c.request].scope
    /\ c # e => Footprint(c) \cap Footprint(e) = {}

(* An open request is never stranded: exactly one of its timer and the      *)
(* answer to its current step is still to come (advance() neither loses     *)
(* step_id nor issues two steps).                                           *)
ExactlyOneWakeup ==
  \A r \in pending :
    LET posted == {t \in timers : t.request = r}
        awaited == {c \in calls : c.request = r}
    IN /\ (posted = {}) # (awaited = {})
       /\ \A t, u \in posted : t = u
       /\ \A c, e \in awaited : c = e /\ c.step = request[r].step

(* While the service is away nothing is reserved: only refused requests     *)
(* remain, so a reconnection finds every device free.                       *)
DisconnectedHoldsNothing ==
  ~available => \A r \in pending : request[r].scope = {} /\ {c \in calls : c.request = r} = {}

(* A request succeeds only after its own operation did, and after every     *)
(* unmount it needed did: no failed step is followed by success (README     *)
(* "sequentially, stop on failure").                                        *)
SuccessIsEarned ==
  \A r \in RequestIds :
    outcome[r] = "ok" =>
      /\ [operation |-> asked[r].operation, target |-> asked[r].target,
          error |-> "none"] \in steps[r]
      /\ \A s \in steps[r] : s.error = "none"

(* The final call of a removal is made only when the volumes affected now   *)
(* are all unmounted and the scope affected now is what the consumer        *)
(* confirmed, however many steps ago that was (R6, README "reject a newly   *)
(* mounted volume before the final operation").                             *)
RemovalsConfirmed ==
  [][\A c \in calls' \ calls :
       c.operation \in Removals =>
         LET scope == removalScope(c.target, c.operation = "PowerOff")
         IN /\ MountedIn(scope) = {}
            /\ c.operation = "PowerOff" => scope = asked[c.request].confirmed]_vars

(* Every request is answered once a consumer has made it. *)
EveryRequestEnds == \A r \in RequestIds : (r \in pending) ~> (outcome[r] # "none")

(* The promise above, with the reservation of a request read off requests_. *)
PhaseOf(r) ==
  IF outcome[r] = "ok" THEN "ok"
  ELSE IF outcome[r] # "none" THEN "error"
  ELSE IF r \notin pending THEN "new"
  ELSE IF request[r].scope = {} THEN "refused"
  ELSE IF request[r].step = 0 THEN "accepted"
  ELSE "working"

Reservation == INSTANCE StorageReservation WITH
  phase <- [r \in RequestIds |-> PhaseOf(r)],
  held <- [r \in RequestIds |-> request[r].scope]

(* The controller implements StorageReservation. *)
ImplementsReservation == Reservation!Spec

=============================================================================
