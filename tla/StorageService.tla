--------------------------- MODULE StorageService ---------------------------
(***************************************************************************)
(* The Storage component as it runs: StorageController over               *)
(* UDisks2Backend over the bus.                                            *)
(*                                                                         *)
(* Both halves live on one thread and their signals are direct, so what    *)
(* the backend emits is consumed by the controller before anything else    *)
(* happens: no other step is taken while "emitted" is not empty.  A call   *)
(* that a controller step adds to "calls" is the backend's execute(), in   *)
(* the same step.  (Nothing the backend still does after an emission is    *)
(* visible to execute(), so draining the signals afterwards is the same as *)
(* handling each one where it is emitted.)                                 *)
(***************************************************************************)
EXTENDS Naturals, Sequences

CONSTANTS Drives, Volumes, DriveOf, None, ServiceName, RequestIds,
          MaxStarts, MaxEvents, \* bounds, for TLC
          MaxIds                \* ids a key may be given

VARIABLES
  \* StorageController
  available, topology, pending, request, timers, calls, asked, steps, outcome,
  \* UDisks2Backend and its environment
  started, owner, generation, revision, refreshing, completions, ids, minted,
  watchers, deferred, emitted, wire, sent, held, instance, world, spent,
  shown, heard, named

MaxCalls == 0

DriveIds == Drives \X (1..MaxIds)
VolumeIds == Volumes \X (1..MaxIds)

Backend == INSTANCE UDisks2Backend

ASSUME ServiceConstants ==
  /\ Backend!BackendConstants
  /\ MaxIds \in Nat /\ None \notin DriveIds \cup VolumeIds

(* What this backend may publish, by the controller's records. *)
Snapshots ==
  [drives : SUBSET DriveIds, volumes : SUBSET VolumeIds, sibling : [DriveIds -> {None}],
   driveOf : [VolumeIds -> DriveIds \cup {None}], canEject : SUBSET DriveIds,
   canPowerOff : SUBSET DriveIds, filesystem : SUBSET VolumeIds, mounted : SUBSET VolumeIds]

Controller == INSTANCE StorageController
  WITH SiblingIds <- {}, Topologies <- Snapshots,
       Confirmations <- SUBSET (DriveIds \cup VolumeIds)

controllerVars == <<available, topology, pending, request, timers, calls, asked,
                    steps, outcome>>
backendVars == <<started, owner, generation, revision, refreshing, completions,
                 ids, minted, watchers, deferred, wire, sent, held, instance, world,
                 spent, shown, heard, named>>
vars == <<controllerVars, backendVars, emitted>>

-----------------------------------------------------------------------------
(* Mutant: the drive of a volume is looked up under the key of a volume. *)
TopologyOf_driveless(s) ==
  LET drives == {s.ids[d] : d \in s.world.present \cap Drives}
      volumes == {s.ids[v] : v \in s.world.present \cap Volumes}
  IN [drives |-> drives, volumes |-> volumes,
      sibling |-> [d \in DriveIds |-> None], driveOf |-> [v \in VolumeIds |-> None],
      canEject |-> drives, canPowerOff |-> drives, filesystem |-> volumes,
      mounted |-> {s.ids[v] : v \in s.world.mounted}]

(* The records of snapshotChanged: a volume whose drive is not in the       *)
(* snapshot has an empty driveId, and the siblings are left out.            *)
TopologyOf(s) ==
  LET drives == {s.ids[d] : d \in s.world.present \cap Drives}
      volumes == {s.ids[v] : v \in s.world.present \cap Volumes}
  IN [drives      |-> drives,
      volumes     |-> volumes,
      sibling     |-> [d \in DriveIds |-> None],
      driveOf     |-> [v \in VolumeIds |->
                         IF v \in volumes THEN s.ids[DriveOf[v[1]]] ELSE None],
      canEject    |-> drives,
      canPowerOff |-> drives,
      filesystem  |-> volumes,
      mounted     |-> {s.ids[v] : v \in s.world.mounted}]

(* A step of the controller with the execute() it may contain. *)
Executed(A) ==
  /\ A
  /\ IF calls' \subseteq calls THEN UNCHANGED backendVars
     ELSE /\ \A c \in calls' \ calls : Backend!execute(c)
          /\ UNCHANGED spent

(* The controller's slots, for the first signal emitted. *)
Received ==
  /\ emitted # <<>>
  /\ LET s == Head(emitted)
     IN \/ /\ s.signal = "snapshotChanged"
           /\ UNCHANGED backendVars
           /\ IF s.available THEN Controller!Snapshot(TopologyOf(s)) ELSE Controller!Disconnect
        \/ /\ s.signal = "operationFinished"
           /\ Executed(Controller!Reply(s.call, IF s.error = "none" THEN "none" ELSE "Upstream"))
  /\ emitted' = Tail(emitted)

Quiet == emitted = <<>>

(* A consumer asks for an operation on something it is shown, confirming    *)
(* the scope it is shown.                                                   *)
Asked ==
  /\ Quiet
  /\ \E r \in RequestIds :
       \/ \E v \in topology.volumes, operation \in {"Mount", "Unmount"} :
            Controller!Begin(r, operation, v, {})
       \/ \E d \in topology.drives :
            \/ Controller!Begin(r, "Eject", d, {})
            \/ Controller!Begin(r, "PowerOff", d, Controller!removalScope(d, TRUE))
  /\ UNCHANGED <<backendVars, emitted>>

Posted ==
  /\ Quiet
  /\ \E t \in timers : Executed(Controller!Timer(t))
  /\ UNCHANGED emitted

(* Where the backend keeps the calls it will still answer or drop. *)
Places(c) ==
  {<<"watcher", w>> : w \in {w \in watchers : w.kind = "operation" /\ w.call = c}}
    \cup {<<"completed", i>> : i \in {i \in DOMAIN completions : completions[i].call = c}}
    \cup {<<"deferred", i>> : i \in {i \in DOMAIN deferred : deferred[i] = c}}

(* A call whose reply was dropped is no longer unanswered. *)
Forgotten ==
  /\ Quiet
  /\ \E c \in calls : Places(c) = {} /\ calls' = calls \ {c}
  /\ UNCHANGED <<available, topology, pending, request, timers, asked, steps, outcome,
                 backendVars, emitted>>

(* The controller starts the backend when it is made; it stops it when it   *)
(* is destroyed, and nobody is left to see what follows.                    *)
BackendStep ==
  /\ Quiet
  /\ \/ Backend!start \/ Backend!reportDisappeared \/ Backend!Deliver
     \/ \E w \in watchers : Backend!LocalError(w)
     \/ Backend!Daemon
  /\ UNCHANGED controllerVars

Init == Controller!Init /\ Backend!Init

Next == Received \/ Asked \/ Posted \/ Forgotten \/ BackendStep

Spec == Init /\ [][Next]_vars

-----------------------------------------------------------------------------
(* Properties.                                                              *)

(* The backend keeps each call of an open request in exactly one place, so  *)
(* it answers it once: neither twice, nor never, across owner changes,      *)
(* failed refreshes and retired ids.                                        *)
CallsInOnePlace ==
  Quiet => \A c \in calls :
    /\ c.request \in pending => Places(c) # {}
    /\ \A p, q \in Places(c) : p = q

(* A removal makes its final call only when nothing on the drive is mounted *)
(* in the snapshot published last, and that snapshot is no older than the   *)
(* unmount whose answer let the request go on.                              *)
RemovalsSeeMounts ==
  [][\A c \in calls' \ calls, d \in Drives :
       (c.operation \in Controller!Removals /\ ids[d] = c.target) =>
         /\ shown.mounted \cap {v \in Volumes : DriveOf[v] = d} = {}
         /\ \A i \in DOMAIN emitted :
              emitted[i].signal = "operationFinished" => emitted[i].version <= shown.version]_vars

DriveAt(o) == IF o \in Drives THEN o ELSE DriveOf[o]

(* Unanswered D-Bus operations of the current connection on devices that    *)
(* are still listed never touch the same drive, though requests come, end   *)
(* and retire ids in between; until a call fails (a failed refresh ends     *)
(* requests whose calls go on).  A call to a device that is gone may still  *)
(* be unanswered when another device takes over its path.                   *)
OperationsIsolated ==
  spent.errors = 0 =>
    \A w, x \in {u \in watchers : /\ u.kind = "operation" /\ u.generation = generation
                                  /\ ids[u.object] = u.call.target} :
      w # x => DriveAt(w.object) # DriveAt(x.object)

=============================================================================
