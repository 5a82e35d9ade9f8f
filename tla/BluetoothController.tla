------------------------ MODULE BluetoothController ------------------------
(***************************************************************************)
(* The Bluetooth component as it runs: src/bluetooth/BluetoothController.cpp *)
(* over BlueZBackend.  Signals are direct connections on one thread, so    *)
(* what a handler of the backend emits is consumed by the controller       *)
(* before anything else happens.                                           *)
(***************************************************************************)
EXTENDS BlueZBackend

CONSTANTS RequestIds, Operations \* the requests, and the operations asked for

ASSUME ControllerConstants == Operations \subseteq AdapterOperations \cup DeviceOperations

VARIABLES
  available, listed, \* available_, and the ids in the two models
  pending,           \* pending_
  request,           \* what execute() put into each result
  timers,            \* singleShot(0) of execute() that have not run
  outcome            \* history: how each request ended

controllerVars == <<available, listed, pending, request, timers, outcome>>
vars == <<backendVars, emitted, controllerVars>>

Quiet == emitted = <<>>

-----------------------------------------------------------------------------
(* finish() for a set of requests. *)
Finish(requests, error) ==
  /\ pending' = pending \ requests
  /\ outcome' = [r \in RequestIds |-> IF r \in requests \cap pending THEN error
                                      ELSE outcome[r]]

busy(target) == \E r \in pending : request[r].target = target /\ request[r].error = "none"

(* execute(): the verdict is taken now and acted upon by the event loop. *)
Begin(r, operation, target) ==
  /\ Quiet
  /\ r \notin pending /\ outcome[r] = "none"
  /\ request' = [request EXCEPT ![r] = [operation |-> operation, target |-> target,
       error |-> IF ~available \/ target \notin listed THEN "Unavailable"
                 ELSE IF busy(target) /\ operation # "CancelPairing" THEN "Busy"
                 ELSE "none"]]
  /\ pending' = pending \cup {r}
  /\ timers' = timers \cup {r}
  /\ UNCHANGED <<available, listed, outcome, backendVars, emitted>>

Timer(r) ==
  /\ Quiet
  /\ timers' = timers \ {r}
  /\ \/ r \notin pending /\ UNCHANGED <<pending, outcome, backendVars, emitted>>
     \/ /\ r \in pending /\ request[r].error # "none"
        /\ Finish({r}, request[r].error)
        /\ UNCHANGED <<backendVars, emitted>>
     \/ /\ r \in pending /\ request[r].error = "none"
        /\ Run(execute(Idle, [request |-> r, operation |-> request[r].operation,
                              target |-> request[r].target]))
        /\ UNCHANGED <<pending, outcome, wire, held, instance, world, scanning, spent, heard, overlooked>>
  /\ UNCHANGED <<available, listed, request>>

(* The snapshotChanged slot: what is not listed any more has disappeared,   *)
(* except that a Forget is answered by the daemon.                          *)
Snapshot(s) ==
  /\ listed' = s.listed
  /\ available' = s.available
  /\ Finish({r \in pending : /\ ~s.available \/ request[r].operation # "Forget"
                             /\ request[r].target \notin s.listed},
            "Disappeared")
  /\ UNCHANGED <<request, timers>>

Received ==
  /\ emitted # <<>>
  /\ emitted' = Tail(emitted)
  /\ LET s == Head(emitted)
     IN CASE s.signal = "snapshotChanged" -> Snapshot(s)
          [] s.signal = "operationFinished" ->
               /\ Finish({s.call.request} \cap pending,
                         IF s.error = "none" THEN "succeeded" ELSE s.error)
               /\ UNCHANGED <<available, listed, request, timers>>
          [] s.signal = "agentRequested" -> UNCHANGED controllerVars
  /\ UNCHANGED backendVars

-----------------------------------------------------------------------------
Init ==
  /\ BackendInit
  /\ available = FALSE /\ listed = {} /\ pending = {} /\ timers = {}
  /\ request = [r \in RequestIds |-> [operation |-> "none", target |-> None, error |-> "none"]]
  /\ outcome = [r \in RequestIds |-> "none"]

(* A consumer asks for something on what it was last shown under a path. *)
Asked ==
  \E r \in RequestIds, operation \in Operations, o \in Objects :
    backend.minted[o] > 0 /\ Begin(r, operation, <<o, backend.minted[o]>>)

Next ==
  \/ Received \/ Asked
  \/ \E r \in timers : Timer(r)
  \/ Quiet /\ (BackendStep \/ DaemonStep) /\ UNCHANGED controllerVars

Spec == Init /\ [][Next]_vars

(* The event loop runs, the bus delivers, and a running daemon handles the  *)
(* calls it receives.                                                       *)
Fairness ==
  /\ WF_vars(Received) /\ WF_vars(\E r \in timers : Timer(r))
  /\ WF_vars(Quiet /\ Deliver /\ UNCHANGED controllerVars)
  /\ WF_vars(Quiet /\ EmitDeferred /\ UNCHANGED controllerVars)
  /\ WF_vars(/\ Quiet /\ UNCHANGED controllerVars
             /\ \/ Undeliverable \/ HandleQuery \/ HandleStop \/ HandleOperation
                \/ \E w \in held : Complete(w))

FairSpec == Spec /\ Fairness

-----------------------------------------------------------------------------
(* Properties.                                                              *)

(* Discovery calls that still travel, either way. *)
DiscoveryTravels ==
  \/ \E i \in DOMAIN sent :
       \/ sent[i].kind = "stop"
       \/ sent[i].kind = "operation" /\ sent[i].call.operation \in Discovery
  \/ \E w \in held : w.call.operation \in Discovery
  \/ \E i \in DOMAIN wire :
       /\ wire[i].kind = "reply" /\ wire[i].watcher.kind = "operation"
       /\ wire[i].watcher.call.operation \in Discovery

(* No session is left running that the client does not know of: once no     *)
(* discovery call is under way, every session the daemon keeps for this     *)
(* client is one it owns and will give back.  Failed snapshots, retired     *)
(* ids, adapters that come back, crashes and stop() may come in between.    *)
(* There are two exceptions.  A call that was outstanding when its adapter  *)
(* was removed, which clears discovery_pending_, and still at stop(): the   *)
(* daemon may perform it later, on an adapter that has come back.  And a    *)
(* call that timed out, which the daemon may perform later.                 *)
NoOrphanScan == DiscoveryTravels \/ scanning \subseteq backend.owned \cup overlooked

(* With no refresh outstanding, an available snapshot reflects every change *)
(* the daemon has told of ("retries snapshots changed during collection").  *)
Settled == (shown # Nothing /\ ~backend.refreshing) => shown.version >= heard

(* An id names one incarnation of one object ("retires IDs after removal or *)
(* owner change").                                                          *)
OneObjectPerId == \A p, q \in named : p.id = q.id => p.incarnation = q.incarnation

(* With no refresh outstanding, every open interaction is about a device    *)
(* whose id is in use: removals, failed snapshots and restarts reject those *)
(* of devices that are gone ("retires IDs after removal or owner change").  *)
InteractionsListed ==
  ~backend.refreshing => \A i \in backend.interactions : i.device \in Live(backend.ids)

(* Every request ends, whatever becomes of the daemon and of the target. *)
EveryRequestEnds == \A r \in RequestIds : (r \in pending) ~> (outcome[r] # "none")

=============================================================================
